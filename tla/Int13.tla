------------------------------- MODULE Int13 -------------------------------
(***************************************************************************)
(* INT 13h of the BIOS (bios/src/int13h.c): a call names a drive, a place  *)
(* and a number of sectors; the handler turns the place into the number of *)
(* a sector and moves one sector after the other with an OUT instruction,  *)
(* which is the whole transfer for the emulator (src/emu_interface.c).     *)
(* Interrupts are disabled in the handler, but with paging on (the BIOS in *)
(* virtual 8086 mode) the OUT itself may be interrupted by a page fault on *)
(* the buffer and starts again when the page is there.                     *)
(***************************************************************************)
EXTENDS Images

CONSTANTS
    FHeads, FSpt,   \* of a floppy disk: 2 and 18
    Mbr,            \* where the partitions of drive C end: [cyl, head, sec];
                    \* << >> without a boot record
    DefaultSpt,     \* sectors per track of drive C without partitions: 63
    Cylinders,      \* cylinders the guest believes in, of every drive
    Paged,          \* the guest runs the BIOS with paging on
    Made,           \* what the guest puts into a buffer to be written
    Lbas,           \* numbers of sectors it passes to AH = 42h
    Numbers,        \* drive numbers the guest passes
    CallPlaces,     \* places it names
    Counts,         \* how many sectors it asks for
    Buffers,        \* the first cells of its buffers
    MaxWrites       \* bound: sectors it asks to write

ASSUME Int13Assumption ==
    /\ FHeads \in Nat \ {0} /\ FSpt \in Nat \ {0} /\ DefaultSpt \in Nat \ {0}
    /\ Cylinders \in Nat
    /\ Mbr \in Seq([cyl : Nat, head : Nat, sec : Nat]) /\ Len(Mbr) \in {0, 4}
    /\ Paged \in BOOLEAN
    /\ Made \in [Cells -> Values] /\ Lbas \subseteq Nat
    /\ CallPlaces \subseteq [c : Nat, h : Nat, s : Nat]
    /\ Numbers \subseteq Nat /\ Counts \subseteq Nat /\ Buffers \subseteq Cells
    /\ MaxWrites \in Nat

VARIABLES
    call,   \* the call in progress: Idle, or see Begin
    writes  \* how many sectors the guest has asked to write

\* fstest: the geometry of drive C is taken from the first partition in use.
Used == {i \in 1 .. Len(Mbr) : Mbr[i].cyl # 0 /\ Mbr[i].head # 0 /\ Mbr[i].sec # 0}

FirstUsed == CHOOSE i \in Used : \A j \in Used : i <= j

HeadsOf(d) == IF d # 2 THEN FHeads ELSE IF Used = {} THEN 1 ELSE Mbr[FirstUsed].head + 1

SptOf(d) == IF d # 2 THEN FSpt ELSE IF Used = {} THEN DefaultSpt ELSE Mbr[FirstUsed].sec

PlacesOf(d) == Places(Cylinders, HeadsOf(d), SptOf(d))

Size(d) == Cylinders * HeadsOf(d) * SptOf(d)

\* The BIOS numbers its drives 0, 1 and 80h, the emulator 0, 1 and 2.
BiosDrives == {0, 1, 128}

DriveOf(b) == IF b = 128 THEN 2 ELSE b

Idle == [state |-> "none"]

\* The place of a sector, for the history of calls that number their sectors.
PlaceAt(d, n) ==
    [c |-> (n \div SptOf(d)) \div HeadsOf(d), h |-> (n \div SptOf(d)) % HeadsOf(d),
     s |-> (n % SptOf(d)) + 1]

Int13Init == call = Idle /\ writes = 0

\* A call starts.  The guest has filled the buffer it wants to write from.
\* History: first and place are the first and the next sector the guest means;
\* image0 and memory0 are the images and the memory at this point; torn tells
\* that the OUT was interrupted.
Begin(op, ok, drive, pos, place, n, a) ==
    /\ call.state = "none"
    /\ a + n <= MemSize
    /\ writes' = IF op = "write" THEN writes + n ELSE writes
    /\ writes' <= MaxWrites
    /\ memory' = [x \in Cells |->
                    IF op = "write" /\ x \in a .. a + n - 1 THEN Made[x] ELSE memory[x]]
    /\ call' = [state |-> IF ok THEN "moving" ELSE "refused", op |-> op, drive |-> drive,
                pos |-> pos, n |-> n, buf |-> a, counter |-> 0,
                first |-> place, place |-> place, image0 |-> image, memory0 |-> memory',
                torn |-> FALSE]
    /\ UNCHANGED image

\* AH = 02h and 03h: any other drive is an error before the first sector.
\* The guest does not write behind the last cylinder.
ByPlace(op, b, p, n, a) ==
    LET d == DriveOf(b)
    IN  IF b \in BiosDrives
        THEN /\ op = "write" => Position(HeadsOf(d), SptOf(d), p) + n <= Size(d)
             /\ Begin(op, TRUE, d, Position(HeadsOf(d), SptOf(d), p), p, n, a)
        ELSE Begin(op, FALSE, b, 0, p, n, a)

Ah02(b, p, n, a) == ByPlace("read", b, p, n, a)

Ah03(b, p, n, a) == ByPlace("write", b, p, n, a)

\* AH = 42h: sectors are numbered; a packet of another size is an error.  The
\* handler reads a sector into a buffer of the BIOS and copies it from there; that
\* is one step here, and a copy that faults is the second case of MoveInterrupted,
\* although it then goes on with the copy and does not read again.
Ah42(b, sized, lba, n, a) ==
    Begin("read", sized /\ b \in BiosDrives, DriveOf(b), lba, PlaceAt(DriveOf(b), lba), n, a)

\* Mutant: the buffer does not move on with the sectors.
Transfer_SameBuffer ==
    IF call.op = "read"
    THEN EmuRead(call.drive, call.pos + call.counter, call.buf)
    ELSE EmuWrite(call.drive, call.pos + call.counter, call.buf)

\* One round of the loop of a handler: one sector is moved.
Transfer ==
    IF call.op = "read"
    THEN EmuRead(call.drive, call.pos + call.counter, call.buf + call.counter)
    ELSE EmuWrite(call.drive, call.pos + call.counter, call.buf + call.counter)

MoveSector ==
    /\ call.state = "moving" /\ call.counter < call.n
    /\ Transfer
    /\ call' = [call EXCEPT !.counter = @ + 1, !.torn = FALSE,
                  !.place = NextPlace(HeadsOf(call.drive), SptOf(call.drive), @)]
    /\ UNCHANGED writes

\* The emulator stores into the buffer, or the result, and faults: the sector
\* has been moved, wholly or in part, and the same OUT will be executed again.
MoveInterrupted ==
    /\ Paged /\ call.state = "moving" /\ call.counter < call.n
    /\ \/ Transfer
       \/ /\ call.op = "read" /\ CanRead(call.drive, call.pos + call.counter)
          /\ memory' = [memory EXCEPT ![call.buf + call.counter] = Junk]
          /\ UNCHANGED image
    /\ call' = [call EXCEPT !.torn = TRUE]
    /\ UNCHANGED writes

\* The emulator answers with an error; AH = AAh and CF tell the guest.
SectorFails ==
    /\ call.state = "moving" /\ call.counter < call.n
    /\ ~IF call.op = "read" THEN CanRead(call.drive, call.pos + call.counter)
                            ELSE CanWrite(call.drive, call.pos + call.counter)
    /\ call' = [call EXCEPT !.state = "error"]
    /\ UNCHANGED <<image, memory, writes>>

CallDone ==
    /\ call.state = "moving" /\ call.counter = call.n
    /\ call' = [call EXCEPT !.state = "ok"]
    /\ UNCHANGED <<image, memory, writes>>

\* The guest goes on and does something else with its buffer.
Resume ==
    /\ call.state \in {"ok", "error", "refused"}
    /\ memory' = [a \in Cells |->
                    IF a \in call.buf .. call.buf + call.n - 1 THEN Blank ELSE memory[a]]
    /\ call' = Idle
    /\ UNCHANGED <<image, writes>>
Int13Next ==
    \/ \E b \in Numbers, n \in Counts, a \in Buffers :
          \/ \E p \in CallPlaces \cap PlacesOf(DriveOf(b)) : Ah02(b, p, n, a) \/ Ah03(b, p, n, a)
          \/ \E lba \in Lbas, sized \in BOOLEAN : Ah42(b, sized, lba, n, a)
    \/ MoveSector \/ MoveInterrupted \/ SectorFails \/ CallDone \/ Resume
=============================================================================
