------------------------------- MODULE Floppy -------------------------------
(***************************************************************************)
(* The floppy controller (src/dev_FDC.c) and channel 2 of the DMA          *)
(* controller (src/dev_DMAC.c), as their registers.  A command is a packet *)
(* of bytes written to the FIFO; the byte that completes it executes it,   *)
(* within the OUT instruction.  Its results are read from the same FIFO.   *)
(*                                                                         *)
(* The digital output register is the set of its bits "dma" (08h), "run"   *)
(* (04h, not in reset) and "motor".  A DMA address is made of three bytes; *)
(* addresses count buffers of one sector.                                  *)
(***************************************************************************)
EXTENDS Images

CONSTANTS
    NHead, NSector, \* the only geometry readFDD knows: 2 and 18
    Base            \* values of a byte of a DMA address: 256

ASSUME FloppyAssumption ==
    /\ NHead \in Nat \ {0} /\ NSector \in Nat \ {0}
    /\ Base \in Nat \ {0}

VARIABLES
    fdc,    \* the controller: [fifo, pointer, cnt, len, dor, irq, cyl]
    dma     \* channel 2: [addr, flip, page]; flip: the next byte is the high one

READ == 230
WRITE == 197
SEEK == 15
RECALIBRATE == 7
SENSEI == 8
SPECIFY == 3
CONFIGURE == 19
PERPENDICULAR == 18
GETSTATUS == 4
DUMPREGS == 14
UNLOCK == 20
PARTID == 24

Byte == 0 .. 255
DorBits == {"dma", "run", "motor"}

Controllers ==
    [fifo : [0 .. 15 -> Byte], pointer : Byte, cnt : Byte, len : Byte,
     dor : SUBSET DorBits, irq : BOOLEAN, cyl : Byte]

Channels == [addr : Nat, flip : BOOLEAN, page : Nat]

FloppyTypeOK == fdc \in Controllers /\ dma \in Channels

FloppyInit ==
    /\ fdc = [fifo |-> [i \in 0 .. 15 |-> 0], pointer |-> 0, cnt |-> 0, len |-> 0,
              dor |-> {}, irq |-> FALSE, cyl |-> 0]
    /\ dma = [addr |-> 0, flip |-> FALSE, page |-> 0]

\* The low byte of an address is stored, the high byte or-ed to it.
WriteAddr(m, b) ==
    [m EXCEPT !.addr = IF m.flip THEN (@ + (b * Base)) % (Base * Base) ELSE b,
              !.flip = ~@]

SetPage(m, b) == [m EXCEPT !.page = b]

Address(m) == (m.page * Base * Base) + m.addr

\* Bytes of a command, and of its results.
Length(c) ==
    CASE c \in {SENSEI, DUMPREGS, UNLOCK, PARTID} -> 1
      [] c \in {PERPENDICULAR, RECALIBRATE, GETSTATUS} -> 2
      [] c \in {SPECIFY, SEEK} -> 3
      [] c = CONFIGURE -> 4
      [] c \in {READ, WRITE} -> 9
      [] OTHER -> 0

Results(c) ==
    CASE c \in {READ, WRITE} -> 7
      [] c = SENSEI -> 2
      [] c = DUMPREGS -> 10
      [] c \in {UNLOCK, PARTID, GETSTATUS} -> 1
      [] OTHER -> 0

\* A byte goes into the FIFO.  An unknown command is never complete.
Put(f, b) == [f EXCEPT !.fifo[f.pointer % 16] = b, !.pointer = (@ + 1) % 256]

Complete(f) == Length(f.fifo[0]) > 0 /\ f.pointer = Length(f.fifo[0])

Answering(f) == [f EXCEPT !.cnt = 0, !.len = Results(f.fifo[0]), !.pointer = 0]

\* What a READ is to read: drive A, whatever drive the packet names.
Wanted(f) == [c |-> f.fifo[2], h |-> f.fifo[3], s |-> f.fifo[4]]

ReadResults(f, q) ==
    [f EXCEPT !.cyl = q.c, !.irq = TRUE,
              !.fifo = [@ EXCEPT ![0] = 32 + (IF q.h = 0 THEN 0 ELSE 4) + (f.fifo[1] % 4),
                                 ![1] = 0, ![2] = 0,
                                 ![3] = q.c, ![4] = q.h, ![5] = q.s, ![6] = f.fifo[5]]]

\* Mutant: the controller counts as if the disk had one side.
ExecuteRead_OneSided(f) ==
    LET p == Wanted(f)
        n == Position(1, NSector, p)
        found == CanRead(0, n)
    IN  /\ fdc' = ReadResults(Answering(f), IF found THEN NextPlace(NHead, NSector, p) ELSE p)
        /\ memory' = [memory EXCEPT ![Address(dma)] =
                        IF found THEN SectorAt(0, n) ELSE Junk]

\* A sector that cannot be read leaves the place as it is; what is moved to the
\* memory then is a buffer nobody has written to.
ExecuteRead(f) ==
    LET p == Wanted(f)
        n == Position(NHead, NSector, p)
        found == CanRead(0, n)
    IN  /\ fdc' = ReadResults(Answering(f), IF found THEN NextPlace(NHead, NSector, p) ELSE p)
        /\ memory' = [memory EXCEPT ![Address(dma)] =
                        IF found THEN SectorAt(0, n) ELSE Junk]

\* Mutant: SEEK takes the cylinder and raises no interrupt.
Executed_SilentSeek(f) ==
    CASE f.fifo[0] = SENSEI -> [Answering(f) EXCEPT !.fifo[0] = 32, !.fifo[1] = f.cyl]
      [] f.fifo[0] \in {DUMPREGS, CONFIGURE, PERPENDICULAR, UNLOCK, PARTID} ->
            [Answering(f) EXCEPT !.fifo[0] = 0]
      [] f.fifo[0] = RECALIBRATE -> [Answering(f) EXCEPT !.irq = TRUE]
      [] f.fifo[0] = SEEK -> [Answering(f) EXCEPT !.cyl = f.fifo[2]]
      [] OTHER -> Answering(f)

\* The other commands.  WRITE moves nothing and raises no interrupt.
Executed(f) ==
    CASE f.fifo[0] = SENSEI -> [Answering(f) EXCEPT !.fifo[0] = 32, !.fifo[1] = f.cyl]
      [] f.fifo[0] \in {DUMPREGS, CONFIGURE, PERPENDICULAR, UNLOCK, PARTID} ->
            [Answering(f) EXCEPT !.fifo[0] = 0]
      [] f.fifo[0] = RECALIBRATE -> [Answering(f) EXCEPT !.irq = TRUE]
      [] f.fifo[0] = SEEK -> [Answering(f) EXCEPT !.irq = TRUE, !.cyl = f.fifo[2]]
      [] OTHER -> Answering(f)

WriteFifo(b) ==
    LET f == Put(fdc, b)
    IN  /\ IF Complete(f) /\ f.fifo[0] = READ
           THEN ExecuteRead(f)
           ELSE /\ fdc' = IF Complete(f) THEN Executed(f) ELSE f
                /\ UNCHANGED memory
        /\ UNCHANGED <<image, dma>>

\* The main status register shows the direction of the FIFO: DIO.
Dio(f) == f.cnt < f.len

\* A byte is read; fifo[cnt] was it.
ReadFifo ==
    /\ fdc' = [fdc EXCEPT !.cnt = IF @ < fdc.len THEN @ + 1 ELSE fdc.len]
    /\ UNCHANGED <<image, dma>>

\* Mutant: only the value 0Ch makes the controller forget a command.
DorWritten_KeepsBytes(f, d) ==
    LET reset == "dma" \in f.dor /\ "run" \notin d
    IN  [f EXCEPT !.irq = @ \/ reset,
                  !.pointer = IF d = {"dma", "run"} THEN 0 ELSE @,
                  !.cnt = 0, !.len = 0, !.dor = d]

\* The digital output register.  Reset forgets the bytes of a command, and so
\* does the value 0Ch; any value forgets the results.
DorWritten(f, d) ==
    LET reset == "dma" \in f.dor /\ "run" \notin d
    IN  [f EXCEPT !.irq = @ \/ reset,
                  !.pointer = IF reset \/ d = {"dma", "run"} THEN 0 ELSE @,
                  !.cnt = 0, !.len = 0, !.dor = d]

WriteDor(d) == fdc' = DorWritten(fdc, d) /\ UNCHANGED dma

\* The reset bit of the data rate register; results stay.
WriteDsr == fdc' = [fdc EXCEPT !.irq = TRUE, !.pointer = 0] /\ UNCHANGED dma

\* The main loop enters the handler of IRQ 6.
TakeRequest ==
    /\ fdc.irq
    /\ fdc' = [fdc EXCEPT !.irq = FALSE]
    /\ UNCHANGED dma
=============================================================================
