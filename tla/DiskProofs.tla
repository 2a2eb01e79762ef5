----------------------------- MODULE DiskProofs -----------------------------
(***************************************************************************)
(* Proofs about Disk, for every geometry and size of the images, every set *)
(* of calls and every driver that keeps to the protocol.  First the        *)
(* controller and its driver, then cylinders, heads and sectors, then the  *)
(* calls of the BIOS, and last that all of it is a disk of sectors.        *)
(***************************************************************************)
EXTENDS Disk, SequenceTheorems, FiniteSetTheorems, FunctionTheorems, TLAPS

-----------------------------------------------------------------------------
(***************************************************************************)
(* The controller.                                                         *)
(***************************************************************************)
Commands == Simple \cup {SEEK, READ}

\* What a byte does to the registers.
LEMMA PutFields ==
  ASSUME NEW f \in Controllers, NEW b \in Byte, f.pointer < 16
  PROVE  /\ Put(f, b) \in Controllers
         /\ Put(f, b).fifo = [f.fifo EXCEPT ![f.pointer] = b]
         /\ Put(f, b).pointer = f.pointer + 1
         /\ Put(f, b).cnt = f.cnt /\ Put(f, b).len = f.len
         /\ Put(f, b).irq = f.irq /\ Put(f, b).dor = f.dor /\ Put(f, b).cyl = f.cyl
<1>1. f.pointer \in Byte /\ f.pointer % 16 = f.pointer /\ (f.pointer + 1) % 256 = f.pointer + 1
  BY DEF Controllers, Byte
<1>2. [f.fifo EXCEPT ![f.pointer] = b] \in [0 .. 15 -> Byte]
  BY DEF Controllers, Byte
<1>3. f.pointer + 1 \in Byte
  BY <1>1 DEF Byte
<1> QED
  BY <1>1, <1>2, <1>3 DEF Put, Controllers

\* The numbers of the data sheet are those of the controller.
LEMMA CommandFacts ==
  ASSUME NEW c \in Commands
  PROVE  /\ c \in Byte
         /\ Length(c) \in 1 .. 9 /\ Results(c) \in 0 .. 10
         /\ Results(c) = Promised(c)
         /\ Length(c) = IF c = READ THEN 9 ELSE IF c = SEEK THEN 3 ELSE PacketLength(c)
         /\ c # READ /\ c \in Interrupting <=> c \in {SEEK, RECALIBRATE}
BY DEF Commands, Simple, Byte, Length, Results, Promised, PacketLength, Interrupting, READ, WRITE,
       SEEK, RECALIBRATE, SENSEI, SPECIFY, CONFIGURE, PERPENDICULAR, GETSTATUS, DUMPREGS, UNLOCK, PARTID

\* What a command that is executed leaves for the driver to read.
LEMMA AnsweringFields ==
  ASSUME NEW f \in Controllers, f.fifo[0] \in Commands
  PROVE  /\ Answering(f) \in Controllers
         /\ Answering(f).pointer = 0 /\ Answering(f).cnt = 0
         /\ Answering(f).len = Results(f.fifo[0]) /\ Answering(f).fifo = f.fifo
         /\ Answering(f).irq = f.irq /\ Answering(f).dor = f.dor
<1> DEFINE r == Results(f.fifo[0])
<1>1. r \in Byte /\ 0 \in Byte
  BY CommandFacts DEF Byte
<1> HIDE DEF r
<1>2. Answering(f) = [f EXCEPT !.cnt = 0, !.len = r, !.pointer = 0]
  BY DEF Answering, r
<1>3. /\ Answering(f) \in Controllers
      /\ Answering(f).pointer = 0 /\ Answering(f).cnt = 0 /\ Answering(f).len = r
      /\ Answering(f).fifo = f.fifo /\ Answering(f).irq = f.irq /\ Answering(f).dor = f.dor
  BY <1>1, <1>2 DEF Controllers
<1> QED
  BY <1>3 DEF r

\* What the commands other than READ do.
LEMMA ExecutedFields ==
  ASSUME NEW f \in Controllers, f.fifo[0] \in Commands \ {READ}, f.irq = FALSE
  PROVE  /\ Executed(f) \in Controllers
         /\ Executed(f).pointer = 0 /\ Executed(f).cnt = 0
         /\ Executed(f).len = Results(f.fifo[0]) /\ Executed(f).dor = f.dor
         /\ Executed(f).irq = (f.fifo[0] \in Interrupting)
<1> DEFINE c == f.fifo[0]
           a == Answering(f)
<1>1. /\ a \in Controllers /\ a.pointer = 0 /\ a.cnt = 0 /\ a.len = Results(c)
      /\ a.fifo = f.fifo /\ a.irq = FALSE /\ a.dor = f.dor
  BY AnsweringFields
<1>2. c \in Interrupting <=> c \in {SEEK, RECALIBRATE}
  BY CommandFacts
<1>3. f.cyl \in Byte /\ f.fifo[2] \in Byte /\ 0 \in Byte /\ 32 \in Byte
  BY DEF Controllers, Byte
<1>4. \A x, y \in Byte : [a.fifo EXCEPT ![0] = x, ![1] = y] \in [0 .. 15 -> Byte]
                         /\ [a.fifo EXCEPT ![0] = x] \in [0 .. 15 -> Byte]
  BY <1>1 DEF Controllers
<1> HIDE DEF a
<1>5. CASE c = SENSEI
  <2>1. Executed(f) = [a EXCEPT !.fifo[0] = 32, !.fifo[1] = f.cyl]
    BY <1>5 DEF Executed, a, SENSEI, DUMPREGS, UNLOCK, PARTID, PERPENDICULAR,
       RECALIBRATE, SEEK, CONFIGURE
  <2>2. c \notin Interrupting
    BY <1>2, <1>5 DEF SENSEI, SEEK, RECALIBRATE
  <2> DEFINE g == [a.fifo EXCEPT ![0] = 32, ![1] = f.cyl]
  <2>3. g \in [0 .. 15 -> Byte]
    BY <1>3, <1>4
  <2>4. Executed(f) = [a EXCEPT !.fifo = g]
    BY <2>1, <1>1 DEF Controllers
  <2> HIDE DEF g
  <2> QED
    BY <2>2, <2>3, <2>4, <1>1 DEF Controllers
<1>6. CASE c \in {DUMPREGS, CONFIGURE, PERPENDICULAR, UNLOCK, PARTID}
  <2>1. Executed(f) = [a EXCEPT !.fifo[0] = 0]
    BY <1>6 DEF Executed, a, SENSEI, DUMPREGS, UNLOCK, PARTID, PERPENDICULAR,
       RECALIBRATE, SEEK, CONFIGURE
  <2>2. c \notin Interrupting
    BY <1>2, <1>6 DEF DUMPREGS, CONFIGURE, PERPENDICULAR, UNLOCK, PARTID, SEEK, RECALIBRATE
  <2> QED
    BY <2>1, <2>2, <1>1, <1>3, <1>4 DEF Controllers
<1>7. CASE c = RECALIBRATE
  <2>1. Executed(f) = [a EXCEPT !.irq = TRUE]
    BY <1>7 DEF Executed, a, SENSEI, DUMPREGS, UNLOCK, PARTID, PERPENDICULAR,
       RECALIBRATE, SEEK, CONFIGURE
  <2> QED
    BY <2>1, <1>1, <1>2, <1>7 DEF Controllers
<1>8. CASE c = SEEK
  <2>1. Executed(f) = [a EXCEPT !.irq = TRUE, !.cyl = f.fifo[2]]
    BY <1>8 DEF Executed, a, SENSEI, DUMPREGS, UNLOCK, PARTID, PERPENDICULAR,
       RECALIBRATE, SEEK, CONFIGURE
  <2> QED
    BY <2>1, <1>1, <1>2, <1>3, <1>8 DEF Controllers
<1>9. CASE c \notin {SENSEI, DUMPREGS, CONFIGURE, PERPENDICULAR, UNLOCK, PARTID, RECALIBRATE, SEEK}
  <2>1. Executed(f) = a
    BY <1>9 DEF Executed, a
  <2> QED
    BY <2>1, <1>1, <1>2, <1>9 DEF Controllers
<1> QED
  BY <1>5, <1>6, <1>7, <1>8, <1>9

-----------------------------------------------------------------------------
(***************************************************************************)
(* The controller and its driver.                                          *)
(***************************************************************************)
Packets ==
  {SimplePacket(c) : c \in Simple} \cup {SeekPacket(c) : c \in SeekCylinders}
  \cup {ReadPacket(p) : p \in ReadPlaces}

Drivers ==
  [phase : Phases, packet : Packets \cup {NoPacket}, sent : 0 .. 8, due : 0 .. 10, to : Cells \cup {0}]

\* The bytes that are out are in the FIFO.
Outgoing ==
  /\ drv.packet \in Packets /\ drv.sent < Len(drv.packet) /\ drv.due = 0
  /\ \A i \in 1 .. drv.sent : fdc.fifo[i - 1] = drv.packet[i]

\* Which results, packets and reset bits go with the phases.
Control ==
  /\ IF drv.phase = "send" THEN Outgoing ELSE drv.sent = 0
  /\ drv.phase \in {"off", "idle", "reset", "taken"} => drv.due = 0
  /\ drv.phase # "send" /\ drv.due = 0 => drv.packet = NoPacket
  /\ drv.phase = "results" => drv.due > 0
  /\ drv.phase = "off" => fdc.dor = {}
  /\ drv.phase \in {"reset", "taken"} => fdc.dor = {"dma"}
  /\ drv.phase \notin {"off", "reset", "taken"} => "dma" \in fdc.dor

DriverInv ==
  /\ FloppyTypeOK /\ ~dma.flip
  /\ drv \in Drivers
  /\ Control /\ InStep /\ IrqExact

\* The bytes of a packet, command by command.
LEMMA PacketFacts ==
  ASSUME NEW p \in Packets
  PROVE  /\ p \in Seq(Byte) /\ Len(p) \in 1 .. 9
         /\ p[1] \in Commands /\ Len(p) = Length(p[1])
         /\ p # NoPacket
<1>1. CASE p \in {SimplePacket(c) : c \in Simple}
  <2>1. PICK c \in Simple : p = SimplePacket(c)
    BY <1>1
  <2>2. c \in Commands /\ c # READ /\ c # SEEK /\ c \in Byte
    BY CommandFacts DEF Commands, Simple, READ, SEEK, WRITE, RECALIBRATE, SENSEI, SPECIFY, CONFIGURE,
           PERPENDICULAR, GETSTATUS, DUMPREGS, UNLOCK, PARTID
  <2>3. Length(c) = PacketLength(c) /\ Length(c) \in 1 .. 9
    BY <2>2, CommandFacts
  <2>4. p = [i \in 1 .. PacketLength(c) |-> IF i = 1 THEN c ELSE 0]
    BY <2>1 DEF SimplePacket
  <2> DEFINE k == PacketLength(c)
  <2>a. k \in 1 .. 9 /\ 0 \in Byte /\ p = [i \in 1 .. k |-> IF i = 1 THEN c ELSE 0]
    BY <2>2, <2>3, <2>4 DEF Byte
  <2> HIDE DEF k
  <2>b. p \in [1 .. k -> Byte] /\ k \in Nat /\ p[1] = c
    BY <2>a, <2>2
  <2>c. p \in Seq(Byte) /\ Len(p) = k
    BY <2>b
  <2>5. p \in Seq(Byte) /\ Len(p) = PacketLength(c) /\ p[1] = c
    BY <2>b, <2>c DEF k
  <2> QED
    BY <2>2, <2>3, <2>5 DEF NoPacket
<1>2. CASE p \in {SeekPacket(c) : c \in SeekCylinders}
  <2>1. PICK c \in SeekCylinders : p = SeekPacket(c)
    BY <1>2
  <2>2. c \in Byte
    BY DriverAssumption DEF Byte
  <2>3. p = <<SEEK, 0, c>> /\ SEEK \in Byte /\ 0 \in Byte
    BY <2>1 DEF SeekPacket, SEEK, Byte
  <2>4. SEEK \in Commands /\ Length(SEEK) = 3
    BY DEF Commands, Length, READ, SEEK, WRITE, RECALIBRATE, SENSEI, SPECIFY, CONFIGURE,
           PERPENDICULAR, GETSTATUS, DUMPREGS, UNLOCK, PARTID
  <2> QED
    BY <2>2, <2>3, <2>4 DEF NoPacket
<1>3. CASE p \in {ReadPacket(q) : q \in ReadPlaces}
  <2>1. PICK q \in ReadPlaces : p = ReadPacket(q)
    BY <1>3
  <2>2. q.c \in Byte /\ q.h \in Byte /\ q.s \in Byte /\ NSector \in Byte
    BY DriverAssumption, FloppyAssumption DEF Byte
  <2>3. p = <<READ, 0, q.c, q.h, q.s, 2, NSector, 0, 0>> /\ READ \in Byte /\ 0 \in Byte /\ 2 \in Byte
    BY <2>1 DEF ReadPacket, READ, Byte
  <2>4. READ \in Commands /\ Length(READ) = 9
    BY DEF Commands, Length, READ, SEEK, WRITE, RECALIBRATE, SENSEI, SPECIFY, CONFIGURE,
           PERPENDICULAR, GETSTATUS, DUMPREGS, UNLOCK, PARTID
  <2> QED
    BY <2>2, <2>3, <2>4 DEF NoPacket
<1> QED
  BY <1>1, <1>2, <1>3 DEF Packets

\* Only a READ packet has the code of READ, and it holds its place.
LEMMA ReadPackets ==
  ASSUME NEW p \in Packets, p[1] = READ
  PROVE  \E q \in ReadPlaces : p = ReadPacket(q)
<1>1. ASSUME NEW c \in Simple, p = SimplePacket(c) PROVE FALSE
  <2>1. p[1] = c
    BY <1>1 DEF SimplePacket, PacketLength, Simple
  <2> QED
    BY <2>1 DEF Simple, READ, WRITE, RECALIBRATE, SENSEI, SPECIFY, CONFIGURE, PERPENDICULAR,
           GETSTATUS, DUMPREGS, UNLOCK, PARTID
<1>2. ASSUME NEW c \in SeekCylinders, p = SeekPacket(c) PROVE FALSE
  BY <1>2 DEF SeekPacket, SEEK, READ
<1> QED
  BY <1>1, <1>2 DEF Packets

\* What the byte that is sent next does: it is stored, and the last byte of a
\* packet, and no other, completes a command.
LEMMA NextByte ==
  ASSUME DriverInv, drv.phase = "send"
  PROVE  LET f == Put(fdc, drv.packet[drv.sent + 1])
         IN  /\ f \in Controllers /\ f.cnt = fdc.cnt /\ f.len = fdc.len
             /\ f.irq = FALSE /\ f.dor = fdc.dor /\ f.pointer = drv.sent + 1
             /\ \A i \in 1 .. drv.sent + 1 : f.fifo[i - 1] = drv.packet[i]
             /\ f.fifo[0] = drv.packet[1]
             /\ Complete(f) <=> drv.sent + 1 = Len(drv.packet)
<1> DEFINE p == drv.packet
           n == drv.sent
           f == Put(fdc, p[n + 1])
<1>1. /\ p \in Packets /\ n < Len(p) /\ n \in Nat
      /\ \A i \in 1 .. n : fdc.fifo[i - 1] = p[i]
  BY DEF DriverInv, Control, Outgoing, Drivers
<1>2. p \in Seq(Byte) /\ Len(p) \in 1 .. 9 /\ p[1] \in Commands /\ Len(p) = Length(p[1])
  BY <1>1, PacketFacts
<1>3. fdc \in Controllers /\ fdc.pointer = n /\ fdc.irq = FALSE
  BY DEF DriverInv, FloppyTypeOK, InStep, IrqExact, Controllers
<1>4. p[n + 1] \in Byte /\ n < 16 /\ n \in 0 .. 8
  BY <1>1, <1>2
<1>5. /\ f \in Controllers /\ f.fifo = [fdc.fifo EXCEPT ![n] = p[n + 1]] /\ f.pointer = n + 1
      /\ f.cnt = fdc.cnt /\ f.len = fdc.len /\ f.irq = fdc.irq /\ f.dor = fdc.dor
  BY <1>3, <1>4, PutFields
<1> HIDE DEF f
<1>6. \A i \in 1 .. n + 1 : f.fifo[i - 1] = p[i]
  <2> SUFFICES ASSUME NEW i \in 1 .. n + 1 PROVE f.fifo[i - 1] = p[i]
    OBVIOUS
  <2>0. n \in 0 .. 15 /\ i - 1 \in 0 .. 15
    BY <1>4
  <2>1. i - 1 \in 0 .. 15 /\ n \in 0 .. 15 /\ fdc.fifo \in [0 .. 15 -> Byte]
    BY <2>0, <1>3 DEF Controllers
  <2>2. CASE i = n + 1
    BY <2>1, <2>2, <1>5
  <2>3. CASE i # n + 1
    <3>1. i \in 1 .. n /\ i - 1 # n
      BY <2>3, <1>1
    <3> QED
      BY <3>1, <2>1, <1>1, <1>5
  <2> QED
    BY <2>2, <2>3
<1>7. f.fifo[0] = p[1]
  <2>1. 1 \in 1 .. n + 1
    BY <1>1
  <2> QED
    BY <2>1, <1>6
<1>8. Complete(f) <=> n + 1 = Len(p)
  BY <1>1, <1>2, <1>5, <1>7 DEF Complete
<1> QED
  BY <1>3, <1>5, <1>6, <1>7, <1>8 DEF f

\* READ ends with seven results and an interrupt; the place in the results is
\* made of bytes.
LEMMA ReadFields ==
  ASSUME NEW f \in Controllers, f.fifo[0] = READ, NEW q, q.c \in Byte, q.h \in Byte, q.s \in Byte
  PROVE  LET g == ReadResults(Answering(f), q)
         IN  /\ g \in Controllers
             /\ g.pointer = 0 /\ g.cnt = 0 /\ g.len = 7 /\ g.irq = TRUE /\ g.dor = f.dor
             /\ g.fifo[3] = q.c /\ g.fifo[4] = q.h /\ g.fifo[5] = q.s
<1> DEFINE a == Answering(f)
           b0 == 32 + (IF q.h = 0 THEN 0 ELSE 4) + (a.fifo[1] % 4)
           x == [a.fifo EXCEPT ![0] = b0, ![1] = 0, ![2] = 0, ![3] = q.c, ![4] = q.h,
                               ![5] = q.s, ![6] = a.fifo[5]]
           g == ReadResults(a, q)
<1>1. READ \in Commands /\ Results(READ) = 7
  BY DEF Commands, Results, READ, SEEK, WRITE, RECALIBRATE, SENSEI, SPECIFY, CONFIGURE,
         PERPENDICULAR, GETSTATUS, DUMPREGS, UNLOCK, PARTID
<1>2. a \in Controllers /\ a.pointer = 0 /\ a.cnt = 0 /\ a.len = 7 /\ a.dor = f.dor
  BY <1>1, AnsweringFields
<1> HIDE DEF a
<1>3. a.fifo \in [0 .. 15 -> Byte]
  BY <1>2 DEF Controllers
<1>4. b0 \in Byte /\ a.fifo[5] \in Byte /\ 0 \in Byte
  BY <1>3 DEF Byte
<1> HIDE DEF b0
<1>5. x \in [0 .. 15 -> Byte] /\ x[3] = q.c /\ x[4] = q.h /\ x[5] = q.s
  BY <1>3, <1>4
<1>6. g = [a EXCEPT !.cyl = q.c, !.irq = TRUE, !.fifo = x]
  BY <1>2 DEF ReadResults, b0, Controllers
<1> HIDE DEF x, g
<1>7. /\ g \in Controllers /\ g.fifo = x
      /\ g.pointer = 0 /\ g.cnt = 0 /\ g.len = 7 /\ g.irq = TRUE /\ g.dor = f.dor
  BY <1>2, <1>5, <1>6 DEF Controllers
<1> QED
  BY <1>5, <1>7 DEF g, a

\* The place of a READ packet, and the one behind it, fit into bytes.
LEMMA ReadPlaceFacts ==
  ASSUME NEW p \in ReadPlaces
  PROVE  /\ p \in [c : 0 .. 79, h : 0 .. NHead - 1, s : 1 .. NSector]
         /\ p.c \in Byte /\ p.h \in Byte /\ p.s \in Byte
         /\ LET q == NextPlace(NHead, NSector, p)
            IN  q.c \in Byte /\ q.h \in Byte /\ q.s \in Byte
         /\ LET d == ReadPacket(p) IN d[1] = READ /\ d[3] = p.c /\ d[4] = p.h /\ d[5] = p.s
BY DriverAssumption, FloppyAssumption DEF Byte, NextPlace, ReadPacket

\* The last byte of a packet: the controller has executed the command.
LEMMA LastByte ==
  ASSUME DriverInv, SendByte, drv.sent + 1 = Len(drv.packet)
  PROVE  /\ fdc' \in Controllers
         /\ fdc'.pointer = 0 /\ fdc'.cnt = 0 /\ fdc'.len = Promised(drv.packet[1])
         /\ fdc'.irq = (drv.packet[1] \in Interrupting)
         /\ fdc'.dor = fdc.dor
<1> DEFINE p == drv.packet
           f == Put(fdc, p[drv.sent + 1])
<1>1. /\ f \in Controllers /\ f.irq = FALSE /\ f.dor = fdc.dor
      /\ \A i \in 1 .. drv.sent + 1 : f.fifo[i - 1] = p[i]
      /\ f.fifo[0] = p[1] /\ Complete(f)
  BY NextByte DEF SendByte
<1>2. p \in Packets /\ WriteFifo(p[drv.sent + 1])
  BY DEF SendByte, DriverInv, Control, Outgoing
<1>3. p[1] \in Commands
  BY <1>2, PacketFacts
<1>4. Results(p[1]) = Promised(p[1])
  BY <1>3, CommandFacts
<1> HIDE DEF f
<1>5. CASE p[1] = READ
  <2>1. PICK r \in ReadPlaces : p = ReadPacket(r)
    BY <1>2, <1>5, ReadPackets
  <2>2. Len(p) = 9 /\ p[1] = READ /\ p[3] = r.c /\ p[4] = r.h /\ p[5] = r.s
    BY <2>1, ReadPlaceFacts DEF ReadPacket
  <2>3. f.fifo[2] = r.c /\ f.fifo[3] = r.h /\ f.fifo[4] = r.s
    <3>1. 3 \in 1 .. drv.sent + 1 /\ 4 \in 1 .. drv.sent + 1 /\ 5 \in 1 .. drv.sent + 1
      BY <2>2
    <3>2. f.fifo[3 - 1] = p[3] /\ f.fifo[4 - 1] = p[4] /\ f.fifo[5 - 1] = p[5]
      BY <3>1, <1>1
    <3> QED
      BY <3>2, <2>2
  <2>4. Wanted(f) = r
    BY <2>3, ReadPlaceFacts DEF Wanted
  <2>5. \E q : fdc' = ReadResults(Answering(f), q) /\ q \in {r, NextPlace(NHead, NSector, r)}
    BY <1>1, <1>2, <1>5, <2>4 DEF WriteFifo, f, ExecuteRead
  <2>6. PICK q \in {r, NextPlace(NHead, NSector, r)} : fdc' = ReadResults(Answering(f), q)
    BY <2>5
  <2>7. q.c \in Byte /\ q.h \in Byte /\ q.s \in Byte
    BY <2>6, ReadPlaceFacts
  <2>8. Promised(READ) = 7 /\ READ \in Interrupting
    BY DEF Promised, Interrupting
  <2> QED
    BY <2>6, <2>7, <2>8, <1>1, <1>5, ReadFields
<1>6. CASE p[1] # READ
  <2>1. fdc' = Executed(f)
    BY <1>1, <1>2, <1>6 DEF WriteFifo, f
  <2> QED
    BY <2>1, <1>1, <1>3, <1>4, <1>6, ExecutedFields
<1> QED
  BY <1>5, <1>6

DriverAt(d, phase, packet, sent, due, to) ==
  [d EXCEPT !.phase = phase, !.packet = packet, !.sent = sent, !.due = due, !.to = to]

\* The driver after a step is of the right type, and its fields are what they
\* have been set to.
LEMMA DriverFields ==
  ASSUME NEW d \in Drivers, NEW ph \in Phases, NEW p \in Packets \cup {NoPacket},
         NEW n \in 0 .. 8, NEW k \in 0 .. 10, NEW a \in Cells \cup {0}
  PROVE  /\ DriverAt(d, ph, p, n, k, a) \in Drivers
         /\ DriverAt(d, ph, p, n, k, a).phase = ph
         /\ DriverAt(d, ph, p, n, k, a).packet = p
         /\ DriverAt(d, ph, p, n, k, a).sent = n
         /\ DriverAt(d, ph, p, n, k, a).due = k
         /\ DriverAt(d, ph, p, n, k, a).to = a
<1> USE DEF DriverAt
<1> DEFINE P == Packets \cup {NoPacket}
           A == Cells \cup {0}
           N == 0 .. 8
           K == 0 .. 10
<1>1. p \in P /\ a \in A /\ n \in N /\ k \in K
  OBVIOUS
<1>2. Drivers = [phase : Phases, packet : P, sent : N, due : K, to : A]
  BY DEF Drivers
<1> HIDE DEF P, A, N, K
<1> QED
  BY <1>1, <1>2

\* A packet begins, or the DMA channel is programmed and then a READ begins.
LEMMA StartKeeps ==
  ASSUME DriverInv, drv.phase = "idle", NEW p \in Packets, NEW a \in Cells \cup {0},
         StartPacket(p, a), fdc' = fdc, dma' \in Channels, ~dma'.flip
  PROVE  DriverInv'
<1>1. p # NoPacket /\ Len(p) \in 1 .. 9
  BY PacketFacts
<1>2. drv' = [drv EXCEPT !.phase = "send", !.packet = p, !.to = a]
  BY DEF StartPacket
<1>3. drv \in Drivers /\ drv.sent = 0 /\ drv.due = 0 /\ "send" \in Phases
  BY DEF DriverInv, Control, Phases
<1>4. /\ drv' \in Drivers /\ drv'.phase = "send" /\ drv'.packet = p
      /\ drv'.sent = 0 /\ drv'.due = 0
  BY <1>2, <1>3 DEF Drivers
<1>5. FloppyTypeOK'
  BY DEF DriverInv, FloppyTypeOK
<1>a. Outgoing'
  <2>1. \A i \in 1 .. drv'.sent : fdc'.fifo[i - 1] = drv'.packet[i]
    BY <1>4
  <2> DEFINE l == Len(p)
  <2>a. l \in 1 .. 9
    BY <1>1
  <2> HIDE DEF l
  <2>b. 0 < l
    BY <2>a
  <2>2. 0 < Len(p)
    BY <2>b DEF l
  <2>3. drv'.packet \in Packets /\ drv'.sent < Len(drv'.packet) /\ drv'.due = 0
    BY <2>2, <1>4
  <2> QED
    BY <2>1, <2>3 DEF Outgoing
<1>b. "dma" \in fdc.dor
  BY DEF DriverInv, Control
<1>6. Control'
  BY <1>a, <1>b, <1>4 DEF Control
<1>7. InStep' /\ IrqExact'
  BY <1>3, <1>4 DEF DriverInv, InStep, IrqExact
<1> QED
  BY <1>4, <1>5, <1>6, <1>7 DEF DriverInv

\* The driver leaves what it was doing.
LEMMA LeaveKeeps ==
  ASSUME DriverInv, NEW ph \in Phases \ {"send", "off"}, NEW n \in 0 .. 10, Leave(ph, n),
         fdc' \in Controllers, UNCHANGED dma,
         fdc'.pointer = 0, fdc'.len - fdc'.cnt = n, fdc'.irq = (ph \in {"wait", "reset"}),
         ph \in {"idle", "reset", "taken"} => n = 0, ph = "results" => n > 0,
         IF ph \in {"reset", "taken"} THEN fdc'.dor = {"dma"} ELSE "dma" \in fdc'.dor
  PROVE  DriverInv'
<1>a. drv \in Drivers /\ ph \in Phases /\ NoPacket \in Packets \cup {NoPacket}
      /\ 0 \in 0 .. 8 /\ 0 \in Cells \cup {0}
  BY DEF DriverInv
<1>1. drv' = DriverAt(drv, ph, NoPacket, 0, n, 0)
  BY DEF Leave, DriverAt
<1>2. /\ drv' \in Drivers /\ drv'.phase = ph /\ drv'.packet = NoPacket
      /\ drv'.sent = 0 /\ drv'.due = n
  BY <1>1, <1>a, DriverFields
<1>3. Control'
  BY <1>2 DEF Control
<1>4. InStep' /\ IrqExact'
  BY <1>2 DEF InStep, IrqExact
<1> QED
  BY <1>2, <1>3, <1>4 DEF DriverInv, FloppyTypeOK

\* The address of a READ is written low byte, then high byte.
LEMMA AddressWritten ==
  ASSUME NEW a \in FdcBuffers, dma \in Channels, ~dma.flip
  PROVE  LET m == WriteAddr(WriteAddr(SetPage(dma, (a \div Base) \div Base), a % Base),
                            (a \div Base) % Base)
         IN  m \in Channels /\ ~m.flip /\ a \in Cells
<1> DEFINE hi == (a \div Base) \div Base
           mid == (a \div Base) % Base
           lo == a % Base
           m0 == SetPage(dma, hi)
           m1 == WriteAddr(m0, lo)
           m2 == WriteAddr(m1, mid)
<1>1. a \in Nat /\ a \in Cells /\ Base \in Nat \ {0}
  BY DriverAssumption, FloppyAssumption, ImagesAssumption DEF Cells
<1>2. hi \in Nat /\ mid \in Nat /\ lo \in Nat
  BY <1>1
<1> HIDE DEF hi, mid, lo
<1>3. m0 \in Channels /\ ~m0.flip
  BY <1>2 DEF SetPage, Channels
<1> HIDE DEF m0
<1>4. m1 \in Channels /\ m1.flip
  BY <1>2, <1>3 DEF WriteAddr, Channels
<1> HIDE DEF m1
<1>5. (m1.addr + (mid * Base)) % (Base * Base) \in Nat
  <2>1. m1.addr + (mid * Base) \in Nat /\ Base * Base \in Nat \ {0}
    BY <1>1, <1>2, <1>4 DEF Channels
  <2> QED
    BY <2>1
<1>6. m2 = [m1 EXCEPT !.addr = (m1.addr + (mid * Base)) % (Base * Base), !.flip = FALSE]
  BY <1>4 DEF WriteAddr, Channels
<1>7. m2 \in Channels /\ ~m2.flip
  BY <1>4, <1>5, <1>6 DEF Channels
<1> QED
  BY <1>1, <1>7 DEF m2, m1, m0, hi, mid, lo

\* A byte that the driver sends keeps controller and driver in step.
LEMMA SendKeeps ==
  ASSUME DriverInv, SendByte
  PROVE  DriverInv'
<1> DEFINE p == drv.packet
           n == drv.sent
           d == [drv EXCEPT !.sent = n + 1]
<1>1. drv \in Drivers /\ drv.phase = "send" /\ p \in Packets /\ n < Len(p) /\ drv.due = 0
      /\ fdc.len - fdc.cnt = 0 /\ "dma" \in fdc.dor
  BY DEF SendByte, DriverInv, Control, Outgoing, InStep
<1>2. Len(p) \in 1 .. 9 /\ p[1] \in Commands /\ n \in 0 .. 8
  BY <1>1, PacketFacts DEF Drivers
<1>b. n + 1 < Len(p) => n + 1 \in 0 .. 8
  <2> DEFINE l == Len(p)
  <2>1. l \in 1 .. 9 /\ n \in 0 .. 8
    BY <1>2
  <2> HIDE DEF n, l
  <2>2. n + 1 < l => n + 1 \in 0 .. 8
    BY <2>1
  <2> QED
    BY <2>2 DEF l
<1>3. UNCHANGED dma
  BY DEF SendByte, WriteFifo
<1>4. d.phase = "send" /\ d.packet = p /\ d.due = 0 /\ d.to = drv.to /\ d.sent = n + 1
  BY <1>1 DEF Drivers
<1>5. CASE n + 1 = Len(p)
  <2>1. drv' = AfterPacket(d)
    BY <1>4, <1>5 DEF SendByte
  <2>2. Promised(p[1]) \in 0 .. 10
    BY DEF Promised
  <2>3. /\ drv' \in Drivers
        /\ drv'.phase = (IF p[1] \in Interrupting THEN "wait"
                         ELSE IF Promised(p[1]) > 0 THEN "results" ELSE "idle")
        /\ drv'.packet = (IF Promised(p[1]) > 0 THEN p ELSE NoPacket)
        /\ drv'.sent = 0 /\ drv'.due = Promised(p[1])
    <3> DEFINE r == Promised(p[1])
               ph == IF p[1] \in Interrupting THEN "wait" ELSE IF r > 0 THEN "results" ELSE "idle"
               pk == IF r > 0 THEN p ELSE NoPacket
    <3>1. drv' = [d EXCEPT !.due = r, !.sent = 0, !.packet = pk, !.phase = ph]
      BY <2>1, <1>4 DEF AfterPacket
    <3>2. ph \in Phases /\ pk \in Packets \cup {NoPacket} /\ r \in 0 .. 10
      BY <1>1, <2>2 DEF Phases
    <3>3. drv' = DriverAt(drv, ph, pk, 0, r, drv.to)
      BY <3>1, <1>1 DEF Drivers, DriverAt
    <3>a. drv.to \in Cells \cup {0} /\ 0 \in 0 .. 8
      BY <1>1 DEF Drivers
    <3>b. drv \in Drivers
      BY <1>1
    <3> DEFINE t == drv.to
               z == 0
    <3>c. t \in Cells \cup {0} /\ z \in 0 .. 8
      BY <3>a
    <3>d. drv' = DriverAt(drv, ph, pk, z, r, t)
      BY <3>3
    <3> HIDE DEF ph, pk, r, d, p, n, t, z
    <3>e. /\ drv' \in Drivers /\ drv'.phase = ph /\ drv'.packet = pk
          /\ drv'.sent = z /\ drv'.due = r
      <4>1. drv' \in Drivers
        BY <3>2, <3>c, <3>d, <3>b, DriverFields
      <4>2. drv'.phase = ph /\ drv'.packet = pk /\ drv'.sent = z /\ drv'.due = r
        BY <3>b, <3>d DEF DriverAt, Drivers
      <4> QED
        BY <4>1, <4>2
    <3>4. /\ drv' \in Drivers /\ drv'.phase = ph /\ drv'.packet = pk
          /\ drv'.sent = 0 /\ drv'.due = r
      BY <3>e DEF z
    <3> QED
      BY <3>4 DEF ph, pk, r
  <2>4. /\ fdc' \in Controllers /\ fdc'.pointer = 0 /\ fdc'.cnt = 0 /\ fdc'.len = Promised(p[1])
        /\ fdc'.irq = (p[1] \in Interrupting) /\ fdc'.dor = fdc.dor
    BY <1>5, LastByte
  <2>5. Control'
    BY <2>2, <2>3, <2>4, <1>1 DEF Control
  <2>6. InStep'
    BY <2>2, <2>3, <2>4 DEF InStep
  <2>7. IrqExact'
    BY <2>2, <2>3, <2>4 DEF IrqExact
  <2> QED
    BY <2>3, <2>4, <2>5, <2>6, <2>7, <1>3 DEF DriverInv, FloppyTypeOK
<1>6. CASE n + 1 # Len(p)
  <2>1. drv' = d /\ n + 1 < Len(p)
    BY <1>1, <1>2, <1>4, <1>6 DEF SendByte
  <2>2. drv' \in Drivers
    <3>1. n + 1 \in 0 .. 8
      BY <2>1, <1>b
    <3>2. drv' = DriverAt(drv, drv.phase, p, n + 1, drv.due, drv.to)
      BY <2>1, <1>1 DEF Drivers, DriverAt
    <3>3. drv.due \in 0 .. 10 /\ drv.to \in Cells \cup {0} /\ drv.phase \in Phases
          /\ p \in Packets \cup {NoPacket}
      BY <1>1 DEF Drivers
    <3>4. drv \in Drivers
      BY <1>1
    <3> HIDE DEF p, n, d
    <3> QED
      BY <3>1, <3>2, <3>3, <3>4, DriverFields
  <2> DEFINE f == Put(fdc, p[n + 1])
  <2>3. /\ f \in Controllers /\ f.cnt = fdc.cnt /\ f.len = fdc.len /\ f.irq = FALSE
        /\ f.dor = fdc.dor /\ f.pointer = n + 1 /\ ~Complete(f)
        /\ \A i \in 1 .. n + 1 : f.fifo[i - 1] = p[i]
    BY <1>1, <1>6, NextByte
  <2> HIDE DEF f
  <2>4. fdc' = f
    BY <2>3 DEF SendByte, WriteFifo, f
  <2>5. Control'
    BY <2>1, <2>3, <2>4, <1>1, <1>4 DEF Control, Outgoing
  <2>6. InStep' /\ IrqExact'
    BY <2>1, <2>3, <2>4, <1>1, <1>4 DEF InStep, IrqExact
  <2> QED
    BY <2>2, <2>3, <2>4, <2>5, <2>6, <1>3 DEF DriverInv, FloppyTypeOK
<1> QED
  BY <1>5, <1>6

\* A controller after power on is in step with a driver that has not begun.
LEMMA DriverInit0 == Init => DriverInv
<1> SUFFICES ASSUME Init PROVE DriverInv
  OBVIOUS
<1>1. /\ fdc = [fifo |-> [i \in 0 .. 15 |-> 0], pointer |-> 0, cnt |-> 0, len |-> 0,
                dor |-> {}, irq |-> FALSE, cyl |-> 0]
      /\ dma = [addr |-> 0, flip |-> FALSE, page |-> 0]
      /\ drv = [phase |-> "off", packet |-> NoPacket, sent |-> 0, due |-> 0, to |-> 0]
  BY DEF Init, FloppyInit, DriverInit
<1>2. FloppyTypeOK /\ ~dma.flip
  BY <1>1 DEF FloppyTypeOK, Controllers, Channels, Byte, DorBits
<1>3. drv \in Drivers
  BY <1>1 DEF Drivers, Phases
<1>4. Control
  BY <1>1 DEF Control
<1>5. InStep /\ IrqExact
  BY <1>1 DEF InStep, IrqExact
<1> QED
  BY <1>2, <1>3, <1>4, <1>5 DEF DriverInv

\* What a store into the digital output register changes.
LEMMA DorFields ==
  ASSUME NEW f \in Controllers, NEW d \in SUBSET DorBits
  PROVE  LET g == DorWritten(f, d)
             reset == "dma" \in f.dor /\ "run" \notin d
         IN  /\ g \in Controllers /\ g.dor = d /\ g.cnt = 0 /\ g.len = 0
             /\ g.irq = (f.irq \/ reset)
             /\ g.pointer = IF reset \/ d = {"dma", "run"} THEN 0 ELSE f.pointer
<1> DEFINE reset == "dma" \in f.dor /\ "run" \notin d
           pt == IF reset \/ d = {"dma", "run"} THEN 0 ELSE f.pointer
           iq == f.irq \/ reset
<1>1. DorWritten(f, d) = [f EXCEPT !.irq = iq, !.pointer = pt, !.cnt = 0, !.len = 0, !.dor = d]
  BY DEF DorWritten
<1>2. pt \in Byte /\ 0 \in Byte /\ iq \in BOOLEAN
  BY DEF Controllers, Byte
<1> HIDE DEF pt, iq, reset
<1>3. /\ DorWritten(f, d) \in Controllers /\ DorWritten(f, d).dor = d /\ DorWritten(f, d).cnt = 0
      /\ DorWritten(f, d).len = 0 /\ DorWritten(f, d).pointer = pt /\ DorWritten(f, d).irq = iq
  BY <1>1, <1>2 DEF Controllers
<1> QED
  BY <1>3 DEF pt, iq, reset

\* Each step of the driver keeps driver and controller together.
LEMMA DriverStep ==
  ASSUME DriverInv, DriverNext
  PROVE  DriverInv'
<1>0. /\ fdc \in Controllers /\ dma \in Channels /\ ~dma.flip /\ drv \in Drivers
      /\ drv.due \in 0 .. 10 /\ drv.packet \in Packets \cup {NoPacket} /\ drv.phase \in Phases
  BY DEF DriverInv, FloppyTypeOK, Drivers
<1>1. CASE StartSimple
  <2>1. \A c \in Simple : SimplePacket(c) \in Packets
    BY DEF Packets
  <2>2. \A c \in SeekCylinders : SeekPacket(c) \in Packets
    BY DEF Packets
  <2>3. \E p \in Packets : StartPacket(p, 0)
    BY <1>1, <2>1, <2>2 DEF StartSimple
  <2> QED
    BY <1>0, <1>1, <2>3, StartKeeps DEF StartSimple
<1>2. CASE StartRead
  <2>1. PICK p \in ReadPlaces, a \in FdcBuffers :
          /\ dma' = WriteAddr(WriteAddr(SetPage(dma, (a \div Base) \div Base), a % Base),
                              (a \div Base) % Base)
          /\ StartPacket(ReadPacket(p), a)
    BY <1>2 DEF StartRead
  <2>2. dma' \in Channels /\ ~dma'.flip /\ a \in Cells
    BY <2>1, <1>0, AddressWritten
  <2>3. ReadPacket(p) \in Packets
    BY DEF Packets
  <2> QED
    BY <1>2, <2>1, <2>2, <2>3, StartKeeps DEF StartRead
<1>3. CASE SendByte
  BY <1>3, SendKeeps
<1>4. CASE ReadResult
  <2>1. /\ drv.phase = "results" /\ drv.due > 0 /\ drv.sent = 0
        /\ fdc.pointer = 0 /\ fdc.len - fdc.cnt = drv.due /\ ~fdc.irq /\ "dma" \in fdc.dor
    BY <1>4 DEF ReadResult, DriverInv, Control, InStep, IrqExact
  <2>2. fdc' = [fdc EXCEPT !.cnt = fdc.cnt + 1] /\ UNCHANGED dma
    BY <1>0, <1>4 DEF ReadResult, ReadFifo, Dio
  <2>3. fdc.cnt + 1 \in Byte
    BY <1>0, <2>1 DEF Controllers, Byte
  <2>a. /\ fdc' \in Controllers /\ fdc'.pointer = 0 /\ fdc'.len = fdc.len
        /\ fdc'.cnt = fdc.cnt + 1 /\ fdc'.irq = FALSE /\ fdc'.dor = fdc.dor
    BY <1>0, <2>1, <2>2, <2>3 DEF Controllers
  <2>4. /\ fdc' \in Controllers /\ fdc'.pointer = 0 /\ fdc'.len - fdc'.cnt = drv.due - 1
        /\ fdc'.irq = FALSE /\ fdc'.dor = fdc.dor
    <3>1. fdc.len \in Int /\ fdc.cnt \in Int /\ drv.due \in Int
      BY <1>0 DEF Controllers, Byte
    <3> QED
      BY <3>1, <2>1, <2>a
  <2>5. CASE drv.due = 1
    <3>1. Leave("idle", 0)
      BY <1>4, <2>5 DEF ReadResult
    <3>2. fdc'.len - fdc'.cnt = 0 /\ fdc'.irq = ("idle" \in {"wait", "reset"})
          /\ "dma" \in fdc'.dor
      <4>1. fdc'.len - fdc'.cnt = 0 /\ "dma" \in fdc'.dor
        BY <2>1, <2>4, <2>5
      <4>2. ("idle" \in {"wait", "reset"}) = FALSE
        OBVIOUS
      <4> QED
        BY <4>1, <4>2, <2>4, Zenon
    <3>3. "idle" \in Phases \ {"send", "off"} /\ 0 \in 0 .. 10
      BY DEF Phases
    <3> QED
      BY <3>1, <3>2, <3>3, <2>2, <2>4, LeaveKeeps
  <2>6. CASE drv.due # 1
    <3>1. drv' = [drv EXCEPT !.due = drv.due - 1] /\ drv.due - 1 \in 0 .. 10 /\ drv.due - 1 > 0
      BY <1>0, <1>4, <2>1, <2>6 DEF ReadResult
    <3>2. /\ drv' \in Drivers /\ drv'.phase = "results" /\ drv'.sent = 0 /\ drv'.due = drv.due - 1
      BY <3>1, <1>0, <2>1 DEF Drivers
    <3>3. Control'
      BY <3>1, <3>2, <2>1, <2>4 DEF Control
    <3>4. InStep' /\ IrqExact'
      BY <3>2, <2>4 DEF InStep, IrqExact
    <3> QED
      BY <3>2, <3>3, <3>4, <2>2, <2>4, <1>0 DEF DriverInv, FloppyTypeOK
  <2> QED
    BY <2>5, <2>6
<1>5. CASE TakeIrq
  <2>1. /\ drv.phase \in {"wait", "reset"} /\ drv.sent = 0 /\ fdc.pointer = 0
        /\ fdc.len - fdc.cnt = drv.due
        /\ drv.phase = "reset" => drv.due = 0 /\ fdc.dor = {"dma"}
        /\ drv.phase = "wait" => "dma" \in fdc.dor
        /\ drv.due = 0 => drv.packet = NoPacket
    BY <1>5 DEF TakeIrq, TakeRequest, DriverInv, Control, InStep, IrqExact
  <2>2. fdc' = [fdc EXCEPT !.irq = FALSE] /\ UNCHANGED dma
    BY <1>5 DEF TakeIrq, TakeRequest
  <2>3. /\ fdc' \in Controllers /\ fdc'.irq = FALSE /\ fdc'.pointer = fdc.pointer
        /\ fdc'.len = fdc.len /\ fdc'.cnt = fdc.cnt /\ fdc'.dor = fdc.dor
    BY <1>0, <2>2 DEF Controllers
  <2> DEFINE ph == IF drv.phase = "reset" THEN "taken" ELSE IF drv.due > 0 THEN "results" ELSE "idle"
  <2>4. drv' = [drv EXCEPT !.phase = ph] /\ ph \in Phases
    BY <1>5, <2>1 DEF TakeIrq, Phases
  <2> HIDE DEF ph
  <2>5. /\ drv' \in Drivers /\ drv'.phase = ph /\ drv'.sent = drv.sent /\ drv'.due = drv.due
        /\ drv'.packet = drv.packet
    BY <1>0, <2>4 DEF Drivers
  <2>6. Control'
    <3>1. ph \in {"taken", "results", "idle"}
      BY DEF ph
    <3>2. ph = "results" => drv.due > 0
      BY <1>0 DEF ph
    <3>3. ph = "taken" => drv.phase = "reset"
      BY DEF ph
    <3>4. ph # "taken" => "dma" \in fdc.dor
      BY <2>1 DEF ph
    <3>5. ph \in {"idle", "taken"} => drv.due = 0
      BY <1>0, <2>1 DEF ph
    <3> QED
      BY <3>1, <3>2, <3>3, <3>4, <3>5, <2>1, <2>3, <2>5 DEF Control
  <2>7. InStep' /\ IrqExact'
    BY <2>1, <2>3, <2>5 DEF InStep, IrqExact, ph
  <2> QED
    BY <1>0, <2>2, <2>3, <2>5, <2>6, <2>7 DEF DriverInv, FloppyTypeOK
<1>6. CASE EnterReset
  <2> DEFINE ph == IF "dma" \in fdc.dor THEN "reset" ELSE "taken"
  <2>1. fdc' = DorWritten(fdc, {"dma"}) /\ UNCHANGED dma /\ Leave(ph, 0)
    BY <1>6 DEF EnterReset, WriteDor
  <2>2. {"dma"} \in SUBSET DorBits /\ ph \in Phases
    BY DEF DorBits, Phases
  <2>3. drv.phase \notin {"reset", "taken"} /\ "dma" \notin fdc.dor => fdc.pointer = 0 /\ ~fdc.irq
    BY DEF DriverInv, Control, InStep, IrqExact
  <2>4. /\ fdc' \in Controllers /\ fdc'.dor = {"dma"} /\ fdc'.cnt = 0 /\ fdc'.len = 0
        /\ fdc'.irq = (fdc.irq \/ "dma" \in fdc.dor)
        /\ fdc'.pointer = IF "dma" \in fdc.dor THEN 0 ELSE fdc.pointer
    BY <1>0, <2>1, <2>2, DorFields
  <2>5. fdc'.pointer = 0 /\ fdc'.irq = (ph = "reset") /\ fdc'.len - fdc'.cnt = 0
    BY <1>6, <2>3, <2>4 DEF EnterReset
  <2> HIDE DEF ph
  <2>6. ph \in {"reset", "taken"}
    BY DEF ph
  <2> QED
    BY <2>1, <2>2, <2>4, <2>5, <2>6, LeaveKeeps
<1>7. CASE LeaveReset
  <2> DEFINE ph == IF drv.phase = "reset" THEN "wait" ELSE "idle"
  <2>1. PICK m \in SUBSET {"motor"} : fdc' = DorWritten(fdc, {"dma", "run"} \cup m)
    BY <1>7 DEF LeaveReset, WriteDor
  <2>2. UNCHANGED dma /\ Leave(ph, 0) /\ ph \in Phases /\ drv.phase \in {"reset", "taken"}
    BY <1>7 DEF LeaveReset, WriteDor, Phases
  <2>3. {"dma", "run"} \cup m \in SUBSET DorBits
    BY DEF DorBits
  <2>4. fdc.pointer = 0 /\ fdc.irq = (drv.phase = "reset")
    BY <1>0, <2>2 DEF DriverInv, InStep, IrqExact, Controllers
  <2> DEFINE d == {"dma", "run"} \cup m
  <2>a. "run" \in d /\ d \in SUBSET DorBits /\ fdc' = DorWritten(fdc, d)
    BY <2>1, <2>3
  <2> HIDE DEF d
  <2>b. /\ fdc' \in Controllers /\ fdc'.dor = d /\ fdc'.cnt = 0 /\ fdc'.len = 0
        /\ fdc'.irq = fdc.irq /\ fdc'.pointer = 0
    BY <1>0, <2>a, <2>4, DorFields DEF Controllers
  <2>5. /\ fdc' \in Controllers /\ "dma" \in fdc'.dor /\ fdc'.cnt = 0
        /\ fdc'.len = 0 /\ fdc'.irq = (drv.phase = "reset") /\ fdc'.pointer = 0
    BY <2>b, <2>4 DEF d
  <2>6. ph \in {"wait", "idle"} /\ fdc'.irq = (ph = "wait")
    BY <2>5
  <2> HIDE DEF ph
  <2> QED
    BY <2>2, <2>5, <2>6, LeaveKeeps
<1>8. CASE ResetByRate
  <2>1. /\ fdc' = [fdc EXCEPT !.irq = TRUE, !.pointer = 0] /\ UNCHANGED dma
        /\ Leave("wait", drv.due) /\ drv.phase \in {"idle", "send", "wait", "results"}
    BY <1>8 DEF ResetByRate, WriteDsr
  <2>2. fdc.len - fdc.cnt = drv.due /\ "dma" \in fdc.dor
    BY <2>1 DEF DriverInv, Control, InStep
  <2>a. 0 \in Byte
    BY DEF Byte
  <2>b. /\ fdc' \in Controllers /\ fdc'.irq = TRUE /\ fdc'.pointer = 0
        /\ fdc'.len = fdc.len /\ fdc'.cnt = fdc.cnt /\ fdc'.dor = fdc.dor
    BY <1>0, <2>1, <2>a DEF Controllers
  <2>3. /\ fdc' \in Controllers /\ fdc'.irq = TRUE /\ fdc'.pointer = 0
        /\ fdc'.len - fdc'.cnt = drv.due /\ fdc'.dor = fdc.dor
    BY <2>2, <2>b
  <2> QED
    BY <1>0, <2>1, <2>2, <2>3, LeaveKeeps DEF Phases
<1>9. CASE Motor
  <2>1. PICK m \in SUBSET {"motor"} : fdc' = DorWritten(fdc, {"dma", "run"} \cup m)
    BY <1>9 DEF Motor, WriteDor
  <2>2. UNCHANGED <<dma, drv>> /\ drv.phase = "idle"
    BY <1>9 DEF Motor, WriteDor
  <2>3. {"dma", "run"} \cup m \in SUBSET DorBits
    BY DEF DorBits
  <2>4. fdc.pointer = 0 /\ ~fdc.irq /\ drv.due = 0
    BY <2>2 DEF DriverInv, Control, InStep, IrqExact
  <2>5. /\ fdc' \in Controllers /\ fdc'.dor = {"dma", "run"} \cup m /\ fdc'.cnt = 0
        /\ fdc'.len = 0 /\ ~fdc'.irq /\ fdc'.pointer = 0
    BY <1>0, <2>1, <2>3, <2>4, DorFields
  <2>6. Control'
    BY <2>2, <2>5 DEF DriverInv, Control
  <2>7. InStep' /\ IrqExact'
    BY <2>2, <2>4, <2>5 DEF InStep, IrqExact
  <2> QED
    BY <1>0, <2>2, <2>5, <2>6, <2>7 DEF DriverInv, FloppyTypeOK
<1> QED
  BY <1>1, <1>2, <1>3, <1>4, <1>5, <1>6, <1>7, <1>8, <1>9 DEF DriverNext

\* The invariant of controller and driver is inductive.
LEMMA DriverInductive == DriverInv /\ [Next]_vars => DriverInv'
<1> SUFFICES ASSUME DriverInv, [Next]_vars PROVE DriverInv'
  OBVIOUS
<1>1. CASE UNCHANGED <<fdc, dma, drv>>
  BY <1>1 DEF DriverInv, FloppyTypeOK, Control, Outgoing, InStep, IrqExact
<1>2. CASE DriverNext
  BY <1>2, DriverStep
<1> QED
  BY <1>1, <1>2 DEF Next, vars

\* Controller and driver are in step in every state.
LEMMA DriverInvariant == Spec => []DriverInv
BY DriverInit0, DriverInductive, PTL DEF Spec

\* Controller and driver agree on the next byte, for every packet, every place
\* of a reset and every geometry (dev_FDC.c:84-237).
THEOREM InStepHolds == Spec => []InStep
<1>1. DriverInv => InStep
  BY DEF DriverInv
<1> QED
  BY <1>1, DriverInvariant, PTL

\* The driver is interrupted exactly when it waits to be (dev_FDC.c:88, 218).
THEOREM IrqExactHolds == Spec => []IrqExact
<1>1. DriverInv => IrqExact
  BY DEF DriverInv
<1> QED
  BY <1>1, DriverInvariant, PTL

-----------------------------------------------------------------------------
(***************************************************************************)
(* Cylinder, head and sector.                                              *)
(***************************************************************************)
\* A place whose head and sector exist, on any cylinder.
Spots(heads, spt) == [c : Nat, h : 0 .. heads - 1, s : 1 .. spt]

\* Quotient and remainder.
LEMMA Division ==
  ASSUME NEW n \in Nat, NEW k \in Nat \ {0}
  PROVE  /\ n \div k \in Nat /\ n % k \in 0 .. k - 1
         /\ n = (n \div k) * k + (n % k)
OBVIOUS

\* Unequal digits in front decide, whatever follows.
LEMMA DigitsOrder ==
  ASSUME NEW k \in Nat \ {0}, NEW a \in Nat, NEW b \in Nat,
         NEW i \in 0 .. k - 1, NEW j \in 0 .. k - 1, a < b
  PROVE  a * k + i < b * k + j
<1>1. (a + 1) * k <= b * k
  OBVIOUS
<1>2. (a + 1) * k = a * k + k
  OBVIOUS
<1>3. a * k \in Nat /\ b * k \in Nat
  OBVIOUS
<1> QED
  BY <1>1, <1>2, <1>3

\* The number of a sector is a natural number.
LEMMA PositionNat ==
  ASSUME NEW heads \in Nat \ {0}, NEW spt \in Nat \ {0}, NEW p \in Spots(heads, spt)
  PROVE  /\ Position(heads, spt, p) \in Nat
         /\ p.c * heads + p.h \in Nat
         /\ Position(heads, spt, p) = (p.c * heads + p.h) * spt + (p.s - 1)
<1>1. p.c \in Nat /\ p.h \in 0 .. heads - 1 /\ p.s \in 1 .. spt
  BY DEF Spots
<1>2. p.c * heads \in Nat
  BY <1>1
<1>3. p.c * heads + p.h \in Nat
  BY <1>1, <1>2
<1> DEFINE t == p.c * heads + p.h
<1> HIDE DEF t
<1>4. t * spt \in Nat
  BY <1>3 DEF t
<1>5. Position(heads, spt, p) = (t * spt) + p.s - 1
  BY DEF Position, t
<1>6. Position(heads, spt, p) \in Nat /\ Position(heads, spt, p) = t * spt + (p.s - 1)
  BY <1>1, <1>4, <1>5
<1> QED
  BY <1>3, <1>6 DEF t

\* The order of the numbers is the order of the places: cylinder, head, sector.
LEMMA PositionOrder ==
  ASSUME NEW heads \in Nat \ {0}, NEW spt \in Nat \ {0},
         NEW p \in Spots(heads, spt), NEW q \in Spots(heads, spt), Precedes(p, q)
  PROVE  Position(heads, spt, p) < Position(heads, spt, q)
<1>1. /\ p.c \in Nat /\ p.h \in 0 .. heads - 1 /\ p.s - 1 \in 0 .. spt - 1
      /\ q.c \in Nat /\ q.h \in 0 .. heads - 1 /\ q.s - 1 \in 0 .. spt - 1
      /\ p.s \in Nat /\ q.s \in Nat
  BY DEF Spots
<1> DEFINE a == p.c * heads + p.h
           b == q.c * heads + q.h
<1>2. a \in Nat /\ b \in Nat
  BY PositionNat
<1>3. a < b \/ (a = b /\ p.s < q.s)
  <2>1. CASE p.c < q.c
    BY <1>1, <2>1, DigitsOrder
  <2>2. CASE p.c = q.c /\ p.h < q.h
    <3>1. p.c * heads \in Nat
      BY <1>1
    <3> QED BY <1>1, <2>2, <3>1
  <2>3. CASE p.c = q.c /\ p.h = q.h /\ p.s < q.s
    BY <2>3
  <2> QED
    BY <2>1, <2>2, <2>3 DEF Precedes
<1>4. /\ Position(heads, spt, p) = a * spt + (p.s - 1)
      /\ Position(heads, spt, q) = b * spt + (q.s - 1)
  BY PositionNat
<1> HIDE DEF a, b
<1>5. CASE a < b
  BY <1>1, <1>2, <1>4, <1>5, DigitsOrder
<1>6. CASE a = b /\ p.s < q.s
  <2>1. a * spt \in Nat
    BY <1>2
  <2> QED BY <1>1, <1>4, <1>6, <2>1
<1> QED
  BY <1>3, <1>5, <1>6

\* Of two places one comes first, unless they are the same.
LEMMA Trichotomy ==
  ASSUME NEW heads \in Nat \ {0}, NEW spt \in Nat \ {0},
         NEW p \in Spots(heads, spt), NEW q \in Spots(heads, spt)
  PROVE  p = q \/ Precedes(p, q) \/ Precedes(q, p)
BY DEF Spots, Precedes

\* So a number names one place, and a smaller number an earlier one.
LEMMA PositionExact ==
  ASSUME NEW heads \in Nat \ {0}, NEW spt \in Nat \ {0},
         NEW p \in Spots(heads, spt), NEW q \in Spots(heads, spt)
  PROVE  /\ Position(heads, spt, p) = Position(heads, spt, q) => p = q
         /\ Position(heads, spt, p) < Position(heads, spt, q) <=> Precedes(p, q)
<1>1. Position(heads, spt, p) \in Nat /\ Position(heads, spt, q) \in Nat
  BY PositionNat
<1>2. Precedes(p, q) => Position(heads, spt, p) < Position(heads, spt, q)
  BY PositionOrder
<1>3. Precedes(q, p) => Position(heads, spt, q) < Position(heads, spt, p)
  BY PositionOrder
<1> QED
  BY <1>1, <1>2, <1>3, Trichotomy

\* The places of a drive are those whose numbers it has.
LEMMA PlacesBySize ==
  ASSUME NEW cyls \in Nat, NEW heads \in Nat \ {0}, NEW spt \in Nat \ {0},
         NEW p \in Spots(heads, spt)
  PROVE  p \in Places(cyls, heads, spt) <=> Position(heads, spt, p) < cyls * heads * spt
<1> DEFINE t == p.c * heads + p.h
           ch == cyls * heads
           e == p.s - 1
<1>1. p.c \in Nat /\ p.h \in 0 .. heads - 1 /\ p.s \in 1 .. spt /\ e \in 0 .. spt - 1 /\ 0 \in 0 .. heads - 1
      /\ 0 \in 0 .. spt - 1
  BY DEF Spots
<1>2. t \in Nat /\ Position(heads, spt, p) = t * spt + e
  BY PositionNat
<1>3. ch \in Nat /\ cyls * heads * spt = ch * spt /\ cyls * heads = cyls * heads + 0
  OBVIOUS
<1>4. p \in Places(cyls, heads, spt) <=> p.c < cyls
  BY <1>1 DEF Places, Spots
<1>5. p.c < cyls <=> t < ch
  <2>1. CASE p.c < cyls
    BY <1>1, <1>3, <2>1, DigitsOrder
  <2>2. CASE p.c = cyls
    BY <1>1, <1>2, <1>3, <2>2
  <2>3. CASE p.c > cyls
    <3>1. cyls * heads + 0 < p.c * heads + p.h
      BY <1>1, <2>3, DigitsOrder
    <3> QED BY <1>2, <1>3, <2>3, <3>1, <1>1
  <2> QED BY <1>1, <2>1, <2>2, <2>3
<1> HIDE DEF t, ch, e
<1> DEFINE x == t * spt + e
           y == ch * spt
<1>6. x \in Nat /\ y \in Nat /\ y = ch * spt + 0
  BY <1>1, <1>2, <1>3
<1>7. t < ch => x < y
  BY <1>1, <1>2, <1>3, <1>6, DigitsOrder
<1>8. ch < t => y < x
  BY <1>1, <1>2, <1>3, <1>6, DigitsOrder
<1>9. t = ch => ~(x < y)
  BY <1>1, <1>2, <1>3
<1> HIDE DEF x, y
<1>10. t < ch <=> x < y
  BY <1>2, <1>3, <1>6, <1>7, <1>8, <1>9
<1> QED
  BY <1>2, <1>3, <1>4, <1>5, <1>10 DEF x, y

\* Every number is the number of a place.
LEMMA PlaceOfNumber ==
  ASSUME NEW heads \in Nat \ {0}, NEW spt \in Nat \ {0}, NEW n \in Nat,
         NEW p, p = [c |-> (n \div spt) \div heads, h |-> (n \div spt) % heads, s |-> (n % spt) + 1]
  PROVE  p \in Spots(heads, spt) /\ Position(heads, spt, p) = n
<1> DEFINE t == n \div spt
           r == n % spt
<1>1. t \in Nat /\ r \in 0 .. spt - 1 /\ n = t * spt + r
  BY Division
<1> HIDE DEF t, r
<1>2. t \div heads \in Nat /\ t % heads \in 0 .. heads - 1 /\ t = (t \div heads) * heads + (t % heads)
  BY <1>1, Division
<1>3. p = [c |-> t \div heads, h |-> t % heads, s |-> r + 1]
  BY DEF t, r
<1>4. p \in Spots(heads, spt)
  BY <1>1, <1>2, <1>3 DEF Spots
<1>5. p.c * heads + p.h = t /\ p.s - 1 = r
  BY <1>1, <1>2, <1>3
<1>6. Position(heads, spt, p) = t * spt + r
  <2>1. Position(heads, spt, p) = (p.c * heads + p.h) * spt + (p.s - 1)
    BY <1>4, PositionNat
  <2> QED BY <2>1, <1>5
<1> QED
  BY <1>1, <1>4, <1>6

\* The place behind p has the next number.
LEMMA NextPlaceExact ==
  ASSUME NEW heads \in Nat \ {0}, NEW spt \in Nat \ {0}, NEW p \in Spots(heads, spt)
  PROVE  /\ NextPlace(heads, spt, p) \in Spots(heads, spt)
         /\ Position(heads, spt, NextPlace(heads, spt, p)) = Position(heads, spt, p) + 1
<1> DEFINE q == NextPlace(heads, spt, p)
           t == p.c * heads + p.h
           u == q.c * heads + q.h
<1>1. p.c \in Nat /\ p.h \in 0 .. heads - 1 /\ p.s \in 1 .. spt
  BY DEF Spots
<1>2. q \in Spots(heads, spt)
  BY <1>1 DEF NextPlace, Spots
<1>3. t \in Nat /\ Position(heads, spt, p) = t * spt + (p.s - 1)
  BY PositionNat
<1>4. Position(heads, spt, q) = u * spt + (q.s - 1)
  BY <1>2, PositionNat
<1>5. CASE p.s < spt
  <2>1. u = t /\ q.s = p.s + 1
    BY <1>1, <1>5 DEF NextPlace
  <2> HIDE DEF q, t, u
  <2>2. t * spt \in Nat
    BY <1>3
  <2>3. Position(heads, spt, q) = t * spt + (q.s - 1)
    BY <1>4, <2>1
  <2> QED BY <1>1, <1>3, <2>1, <2>2, <2>3, <1>2 DEF q
<1>6. CASE p.s = spt
  <2>1. u = t + 1 /\ q.s = 1
    <3>1. CASE p.h + 1 < heads
      <4>1. q.c = p.c /\ q.h = p.h + 1 /\ q.s = 1
        BY <1>1, <1>6, <3>1 DEF NextPlace
      <4>2. p.c * heads \in Nat
        BY <1>1
      <4> QED BY <1>1, <4>1, <4>2
    <3>2. CASE p.h + 1 = heads
      <4>1. q.c = p.c + 1 /\ q.h = 0 /\ q.s = 1
        BY <1>1, <1>6, <3>2 DEF NextPlace
      <4>2. (p.c + 1) * heads = p.c * heads + heads /\ p.c * heads \in Nat
        BY <1>1
      <4>3. q.c * heads + q.h = p.c * heads + heads
        BY <1>1, <4>1, <4>2
      <4> QED BY <1>1, <3>2, <4>1, <4>2, <4>3
    <3> QED BY <1>1, <3>1, <3>2
  <2> HIDE DEF q, t, u
  <2>2. (t + 1) * spt = t * spt + spt /\ t * spt \in Nat
    BY <1>3
  <2>3. Position(heads, spt, q) = (t + 1) * spt + (q.s - 1)
    BY <1>4, <2>1
  <2> QED BY <1>1, <1>3, <1>6, <2>1, <2>2, <2>3, <1>2 DEF q
<1> QED
  BY <1>1, <1>5, <1>6

\* Drives have heads and tracks have sectors, whatever the partition table says.
LEMMA Geometry ==
  ASSUME NEW d
  PROVE  HeadsOf(d) \in Nat \ {0} /\ SptOf(d) \in Nat \ {0} /\ Size(d) \in Nat
<1>1. ASSUME Used # {}
      PROVE  Mbr[FirstUsed].head + 1 \in Nat \ {0} /\ Mbr[FirstUsed].sec \in Nat \ {0}
  <2>1. Used \subseteq {1, 2, 3, 4}
    BY Int13Assumption DEF Used
  <2>2. \E i \in Used : \A j \in Used : i <= j
    <3>1. CASE 1 \in Used
      BY <2>1, <3>1
    <3>2. CASE 1 \notin Used /\ 2 \in Used
      BY <2>1, <3>2
    <3>3. CASE 1 \notin Used /\ 2 \notin Used /\ 3 \in Used
      BY <2>1, <3>3
    <3>4. CASE 1 \notin Used /\ 2 \notin Used /\ 3 \notin Used
      <4>1. 4 \in Used /\ Used \subseteq {4}
        BY <1>1, <2>1, <3>4
      <4> QED BY <4>1
    <3> DEFINE Goal == \E i \in Used : \A j \in Used : i <= j
    <3> HIDE DEF Goal
    <3>5. Goal
      BY <3>1, <3>2, <3>3, <3>4, Zenon DEF Goal
    <3> QED BY <3>5 DEF Goal
  <2>3. FirstUsed \in Used
    BY <2>2 DEF FirstUsed
  <2>4. FirstUsed \in 1 .. Len(Mbr) /\ Mbr[FirstUsed].sec # 0
    BY <2>3 DEF Used
  <2>5. Mbr[FirstUsed] \in [cyl : Nat, head : Nat, sec : Nat]
    <3> DEFINE S == [cyl : Nat, head : Nat, sec : Nat]
    <3>1. Mbr \in Seq(S)
      BY Int13Assumption
    <3> HIDE DEF S
    <3>2. Mbr[FirstUsed] \in S
      BY <2>4, <3>1, ElementOfSeq
    <3> QED BY <3>2 DEF S
  <2> QED BY <2>4, <2>5
<1>2. HeadsOf(d) \in Nat \ {0} /\ SptOf(d) \in Nat \ {0}
  BY <1>1, Int13Assumption DEF HeadsOf, SptOf
<1>3. Cylinders \in Nat
  BY Int13Assumption
<1> DEFINE h == HeadsOf(d)
           s == SptOf(d)
<1>4. h \in Nat /\ s \in Nat
  BY <1>2
<1> HIDE DEF h, s
<1>5. Cylinders * h * s \in Nat
  <2>1. Cylinders * h \in Nat
    BY <1>3, <1>4
  <2> QED BY <2>1, <1>4
<1> QED
  BY <1>2, <1>5 DEF Size, h, s

\* The places of drive d, on any cylinder, and the number of one.
SpotsOf(d) == Spots(HeadsOf(d), SptOf(d))
Number(d, p) == Position(HeadsOf(d), SptOf(d), p)

\* What the lemmas above say of a drive.
LEMMA Numbering ==
  ASSUME NEW d, NEW p \in SpotsOf(d)
  PROVE  /\ Number(d, p) \in Nat
         /\ p \in PlacesOf(d) <=> Number(d, p) < Size(d)
         /\ NextPlace(HeadsOf(d), SptOf(d), p) \in SpotsOf(d)
         /\ Number(d, NextPlace(HeadsOf(d), SptOf(d), p)) = Number(d, p) + 1
         /\ \A q \in SpotsOf(d) : /\ Number(d, p) = Number(d, q) => p = q
                                  /\ Number(d, p) < Number(d, q) <=> Precedes(p, q)
<1> DEFINE h == HeadsOf(d)
           s == SptOf(d)
<1>1. h \in Nat \ {0} /\ s \in Nat \ {0} /\ Cylinders \in Nat
  BY Geometry, Int13Assumption
<1>2. p \in Spots(h, s)
  BY DEF SpotsOf
<1> HIDE DEF h, s
<1>3. /\ Position(h, s, p) \in Nat
      /\ p \in Places(Cylinders, h, s) <=> Position(h, s, p) < Cylinders * h * s
      /\ NextPlace(h, s, p) \in Spots(h, s)
      /\ Position(h, s, NextPlace(h, s, p)) = Position(h, s, p) + 1
      /\ \A q \in Spots(h, s) : /\ Position(h, s, p) = Position(h, s, q) => p = q
                                /\ Position(h, s, p) < Position(h, s, q) <=> Precedes(p, q)
  BY <1>1, <1>2, PositionNat, PlacesBySize, NextPlaceExact, PositionExact
<1> QED
  BY <1>3 DEF h, s, SpotsOf, Number, PlacesOf, Size

\* The places of a drive are places.
LEMMA PlacesAreSpots ==
  ASSUME NEW d
  PROVE  PlacesOf(d) \subseteq SpotsOf(d)
BY Geometry, Int13Assumption DEF PlacesOf, Places, SpotsOf, Spots

\* PlaceAt names the sector of a number.
LEMMA NumberedPlace ==
  ASSUME NEW d, NEW n \in Nat
  PROVE  PlaceAt(d, n) \in SpotsOf(d) /\ Number(d, PlaceAt(d, n)) = n
<1> DEFINE h == HeadsOf(d)
           s == SptOf(d)
<1>1. h \in Nat \ {0} /\ s \in Nat \ {0}
  BY Geometry
<1>2. PlaceAt(d, n) = [c |-> (n \div s) \div h, h |-> (n \div s) % h, s |-> (n % s) + 1]
  BY DEF PlaceAt
<1> HIDE DEF h, s
<1>3. PlaceAt(d, n) \in Spots(h, s) /\ Position(h, s, PlaceAt(d, n)) = n
  BY <1>1, <1>2, PlaceOfNumber
<1> QED
  BY <1>3 DEF SpotsOf, Number, h, s

\* The number of a place is its rank among the places of the drive: how many come
\* before it.  A place behind the last cylinder comes behind all of them.
LEMMA Ranking ==
  ASSUME NEW d, NEW p \in SpotsOf(d)
  PROVE  Rank(d, p) = IF p \in PlacesOf(d) THEN Number(d, p) ELSE Size(d)
<1> DEFINE S == {q \in PlacesOf(d) : Precedes(q, p)}
           n == IF p \in PlacesOf(d) THEN Number(d, p) ELSE Size(d)
           T == 0 .. n - 1
           f == [q \in S |-> Number(d, q)]
<1>1. n \in Nat /\ n <= Number(d, p) /\ n <= Size(d) /\ (n = Number(d, p) \/ n = Size(d))
  BY Numbering, Geometry
<1>2. \A q \in S : q \in SpotsOf(d) /\ Number(d, q) \in Nat
  BY PlacesAreSpots, Numbering
<1>3. \A q \in SpotsOf(d) : q \in S <=> Number(d, q) < n
  <2> SUFFICES ASSUME NEW q \in SpotsOf(d)
               PROVE  q \in S <=> Number(d, q) < n
    OBVIOUS
  <2>1. q \in PlacesOf(d) <=> Number(d, q) < Size(d)
    BY Numbering
  <2>2. Number(d, q) < Number(d, p) <=> Precedes(q, p)
    BY Numbering
  <2>3. Number(d, q) \in Nat /\ Number(d, p) \in Nat
    BY Numbering
  <2> HIDE DEF n
  <2>4. q \in S <=> Number(d, q) < Size(d) /\ Number(d, q) < Number(d, p)
    BY <2>1, <2>2
  <2> QED BY <1>1, <2>3, <2>4, Geometry
<1>4. f \in [S -> T]
  <2> HIDE DEF n
  <2>1. \A q \in S : Number(d, q) \in T
    BY <1>1, <1>2, <1>3
  <2> HIDE DEF S, T
  <2> QED BY <2>1
<1>5. \A q, r \in S : f[q] = f[r] => q = r
  BY <1>2, Numbering
<1>6. \A m \in T : \E q \in S : f[q] = m
  <2> SUFFICES ASSUME NEW m \in T PROVE \E q \in S : f[q] = m
    OBVIOUS
  <2>1. m \in Nat /\ m < n
    BY <1>1
  <2>2. PlaceAt(d, m) \in SpotsOf(d) /\ Number(d, PlaceAt(d, m)) = m
    BY <2>1, NumberedPlace
  <2> HIDE DEF n, S
  <2>3. PlaceAt(d, m) \in S
    BY <1>3, <2>1, <2>2
  <2> QED BY <2>2, <2>3
<1>7. f \in Bijection(S, T)
  <2> HIDE DEF f, S, T
  <2> QED BY <1>4, <1>5, <1>6, Fun_IsBij
<1>8. ExistsBijection(T, S)
  <2> HIDE DEF f, S, T
  <2> QED BY <1>7, Fun_ExistsBij, Fun_ExistsBijSymmetric
<1>9. IsFiniteSet(T) /\ Cardinality(T) = n
  <2> HIDE DEF n
  <2> QED BY <1>1, FS_Interval
<1>10. Cardinality(S) = n
  <2> HIDE DEF S, T, n
  <2> QED BY <1>8, <1>9, FS_Bijection
<1> QED
  BY <1>10 DEF Rank

-----------------------------------------------------------------------------
(***************************************************************************)
(* The calls of the BIOS.                                                  *)
(***************************************************************************)
Transfers ==
  [state : {"moving", "ok", "error", "refused"}, op : {"read", "write"}, drive : Nat,
   pos : Nat, n : Nat, buf : Cells, counter : Nat,
   first : [c : Nat, h : Nat, s : Nat], place : [c : Nat, h : Nat, s : Nat],
   image0 : [Mounted -> Seq(Values)], memory0 : [Cells -> Values], torn : BOOLEAN]

\* The place, the number and the count of a call go together; a sector that is to
\* be written is one of the drive.
CallFacts(c) ==
  /\ c \in Transfers
  /\ c.counter <= c.n /\ c.buf + c.n <= MemSize
  /\ c.first \in SpotsOf(c.drive) /\ c.place \in SpotsOf(c.drive)
  /\ c.state # "refused" =>
       /\ c.drive \in Drives
       /\ c.pos = Number(c.drive, c.first)
       /\ Number(c.drive, c.place) = c.pos + c.counter
       /\ c.op = "write" => c.pos + c.n <= Size(c.drive)
  /\ c.state = "refused" => c.counter = 0 /\ ~c.torn
  /\ \A d \in Mounted : Len(c.image0[d]) <= Size(d)

\* How a call ends.
Ended(c, first) ==
  /\ c.state = "ok" => c.counter = c.n
  /\ c.state = "error" =>
        /\ c.counter < c.n
        /\ \/ c.drive \notin Mounted
           \/ c.op = "write" /\ c.drive \in ReadOnly
           \/ c.op = "read" /\ first + c.counter >= Len(c.image0[c.drive])

\* What a write has done to the images by now, if its first sector is number first.
Stored(c, first) ==
  LET old == c.image0[c.drive]
      done == c.counter + IF c.torn THEN 1 ELSE 0
      new == image[c.drive]
  IN  /\ memory = c.memory0
      /\ \A d \in Mounted \ {c.drive} : image[d] = c.image0[d]
      /\ c.drive \in Mounted =>
           /\ Len(new) = IF done = 0 THEN Len(old) ELSE Longer(Len(old), first + done)
           /\ \A i \in 0 .. Len(new) - 1 :
                 new[i + 1] = IF i \in first .. first + done - 1
                              THEN c.memory0[c.buf + i - first]
                              ELSE IF i < Len(old) THEN old[i + 1] ELSE Zero

\* What a read has done to the memory by now.
Loaded(c, first) ==
  /\ image = c.image0
  /\ \A a \in Cells :
       IF a \in c.buf .. c.buf + c.counter - 1
       THEN memory[a] = c.image0[c.drive][first + a - c.buf + 1]
       ELSE (a = c.buf + c.counter /\ c.torn) \/ memory[a] = c.memory0[a]

\* Only sectors that are there have been read.
WithinDisk(c) ==
  c.op = "read" /\ c.counter > 0 =>
    c.drive \in Mounted /\ c.pos + c.counter <= Len(c.image0[c.drive])

ImagesInv == ImagesTypeOK /\ \A d \in Mounted : Len(image[d]) <= Size(d)

CallInv ==
  \/ call = Idle
  \/ /\ CallFacts(call) /\ Ended(call, call.pos) /\ WithinDisk(call)
     /\ call.op = "write" => Stored(call, call.pos)
     /\ call.op = "read" => Loaded(call, call.pos)

\* A sector is written in its place, and gaps in front of it are filled.
LEMMA WrittenFacts ==
  ASSUME NEW img \in Seq(Values), NEW n \in Nat, NEW v \in Values
  PROVE  /\ Written(img, n, v) \in Seq(Values)
         /\ Len(Written(img, n, v)) = Longer(Len(img), n + 1)
         /\ \A i \in 0 .. Longer(Len(img), n + 1) - 1 :
              Written(img, n, v)[i + 1] =
                IF i = n THEN v ELSE IF i < Len(img) THEN img[i + 1] ELSE Zero
<1> DEFINE l == Longer(Len(img), n + 1)
           w == [i \in 1 .. l |-> IF i = n + 1 THEN v ELSE IF i <= Len(img) THEN img[i] ELSE Zero]
<1>1. Len(img) \in Nat /\ l \in Nat /\ l >= n + 1 /\ l >= Len(img)
  BY DEF Longer
<1>2. Written(img, n, v) = w
  BY DEF Written
<1>3. \A i \in 1 .. Len(img) : img[i] \in Values
  BY ElementOfSeq
<1>4. Zero \in Values
  BY ImagesAssumption
<1> HIDE DEF l
<1>5. w \in [1 .. l -> Values]
  BY <1>1, <1>3, <1>4
<1>6. w \in Seq(Values) /\ Len(w) = l
  <2> HIDE DEF w
  <2> QED BY <1>1, <1>5
<1>7. \A i \in 0 .. l - 1 :
        w[i + 1] = IF i = n THEN v ELSE IF i < Len(img) THEN img[i + 1] ELSE Zero
  BY <1>1
<1> QED
  BY <1>2, <1>6, <1>7 DEF l

\* What a call does first: nothing has moved yet.
LEMMA BeginCall ==
  ASSUME ImagesInv, NEW op \in {"read", "write"}, NEW ok \in BOOLEAN, NEW d \in Nat,
         NEW pos \in Nat, NEW p \in SpotsOf(d), NEW n \in Nat, NEW a \in Cells,
         ok => d \in Drives /\ pos = Number(d, p) /\ (op = "write" => pos + n <= Size(d)),
         Begin(op, ok, d, pos, p, n, a)
  PROVE  ImagesInv' /\ CallInv' /\ call' # Idle
<1>1. image \in [Mounted -> Seq(Values)] /\ memory \in [Cells -> Values]
      /\ Made \in [Cells -> Values]
  BY Int13Assumption DEF ImagesInv, ImagesTypeOK
<1>2. /\ a + n <= MemSize /\ image' = image
      /\ memory' = [x \in Cells |->
                      IF op = "write" /\ x \in a .. a + n - 1 THEN Made[x] ELSE memory[x]]
  BY DEF Begin
<1>3. memory' \in [Cells -> Values]
  BY <1>1, <1>2
<1> DEFINE st == IF ok THEN "moving" ELSE "refused"
<1>4. call' = [state |-> st, op |-> op, drive |-> d,
               pos |-> pos, n |-> n, buf |-> a, counter |-> 0,
               first |-> p, place |-> p, image0 |-> image, memory0 |-> memory',
               torn |-> FALSE]
  BY DEF Begin
<1>5. st \in {"moving", "ok", "error", "refused"} /\ (st # "refused" => ok)
      /\ st \notin {"ok", "error"}
  OBVIOUS
<1>6. p \in [c : Nat, h : Nat, s : Nat]
  BY Geometry DEF SpotsOf, Spots
<1> HIDE DEF st
<1>7. /\ call'.state = st /\ call'.op = op /\ call'.drive = d /\ call'.pos = pos /\ call'.n = n
      /\ call'.buf = a /\ call'.counter = 0 /\ call'.first = p /\ call'.place = p
      /\ call'.image0 = image /\ call'.memory0 = memory' /\ call'.torn = FALSE
  BY <1>4
<1>8. call' \in Transfers
  <2> DEFINE M == memory'
             P == [c : Nat, h : Nat, s : Nat]
             I == [Mounted -> Seq(Values)]
             W == [Cells -> Values]
             T == {"moving", "ok", "error", "refused"}
  <2>1. M \in W /\ p \in P /\ image \in I /\ 0 \in Nat /\ FALSE \in BOOLEAN /\ st \in T
    BY <1>1, <1>3, <1>5, <1>6
  <2>2. call' = [state |-> st, op |-> op, drive |-> d,
               pos |-> pos, n |-> n, buf |-> a, counter |-> 0,
               first |-> p, place |-> p, image0 |-> image, memory0 |-> M,
               torn |-> FALSE]
    BY <1>4
  <2>3. Transfers = [state : T, op : {"read", "write"}, drive : Nat,
                     pos : Nat, n : Nat, buf : Cells, counter : Nat,
                     first : P, place : P, image0 : I, memory0 : W, torn : BOOLEAN]
    BY DEF Transfers
  <2> HIDE DEF M, P, I, W, T
  <2> QED BY <2>1, <2>2, <2>3
<1>9. CallFacts(call')
  <2>1. Number(d, p) \in Nat
    BY Numbering
  <2> QED BY <1>2, <1>5, <1>7, <1>8, <2>1 DEF CallFacts, ImagesInv
<1>10. Ended(call', pos) /\ WithinDisk(call')
  BY <1>5, <1>7 DEF Ended, WithinDisk
<1>11. Stored(call, pos)'
  <2>1. \A i : ~(i \in pos .. pos + 0 - 1)
    OBVIOUS
  <2>2. d \in Mounted => Len(image[d]) \in Nat
    BY <1>1
  <2> QED BY <1>2, <1>7, <2>1, <2>2 DEF Stored
<1>12. Loaded(call, pos)'
  <2>1. \A i : ~(i \in a .. a + 0 - 1)
    BY DEF Cells
  <2> QED BY <1>2, <1>7, <2>1 DEF Loaded
<1>13. CallInv'
  BY <1>7, <1>9, <1>10, <1>11, <1>12 DEF CallInv
<1>14. call' # Idle
  BY <1>5, <1>7 DEF Idle
<1> QED
  BY <1>2, <1>3, <1>13, <1>14 DEF ImagesInv, ImagesTypeOK

TransferAt(c, st, k, q, t) ==
  [c EXCEPT !.state = st, !.counter = k, !.place = q, !.torn = t]

\* A call that has moved on is a call, and its fields are what they were set to.
LEMMA TransferFields ==
  ASSUME NEW c \in Transfers, NEW st \in {"moving", "ok", "error", "refused"}, NEW k \in Nat,
         NEW q \in [c : Nat, h : Nat, s : Nat], NEW t \in BOOLEAN
  PROVE  /\ TransferAt(c, st, k, q, t) \in Transfers
         /\ TransferAt(c, st, k, q, t).state = st
         /\ TransferAt(c, st, k, q, t).counter = k
         /\ TransferAt(c, st, k, q, t).place = q
         /\ TransferAt(c, st, k, q, t).torn = t
         /\ TransferAt(c, st, k, q, t).op = c.op
         /\ TransferAt(c, st, k, q, t).drive = c.drive
         /\ TransferAt(c, st, k, q, t).pos = c.pos
         /\ TransferAt(c, st, k, q, t).n = c.n
         /\ TransferAt(c, st, k, q, t).buf = c.buf
         /\ TransferAt(c, st, k, q, t).first = c.first
         /\ TransferAt(c, st, k, q, t).image0 = c.image0
         /\ TransferAt(c, st, k, q, t).memory0 = c.memory0
<1> DEFINE P == [c : Nat, h : Nat, s : Nat]
           I == [Mounted -> Seq(Values)]
           W == [Cells -> Values]
           T == {"moving", "ok", "error", "refused"}
<1>1. q \in P /\ st \in T
  OBVIOUS
<1>2. Transfers = [state : T, op : {"read", "write"}, drive : Nat,
                   pos : Nat, n : Nat, buf : Cells, counter : Nat,
                   first : P, place : P, image0 : I, memory0 : W, torn : BOOLEAN]
  BY DEF Transfers
<1> HIDE DEF P, I, W, T
<1> QED
  BY <1>1, <1>2 DEF TransferAt

\* What is known of a call under way, for the steps below.
LEMMA UnderWay ==
  ASSUME CallInv, call.state = "moving"
  PROVE  /\ CallFacts(call) /\ Ended(call, call.pos) /\ WithinDisk(call)
         /\ call \in Transfers /\ call.op \in {"read", "write"}
         /\ call.drive \in Drives /\ call.pos \in Nat /\ call.n \in Nat /\ call.counter \in Nat
         /\ call.buf \in Nat /\ call.buf + call.n <= MemSize /\ MemSize \in Nat
         /\ call.image0 \in [Mounted -> Seq(Values)] /\ call.memory0 \in [Cells -> Values]
         /\ call.first \in [c : Nat, h : Nat, s : Nat] /\ call.place \in [c : Nat, h : Nat, s : Nat]
         /\ call.torn \in BOOLEAN
         /\ call.op = "write" => Stored(call, call.pos)
         /\ call.op = "read" => Loaded(call, call.pos)
<1>1. call # Idle
  BY DEF Idle
<1>2. /\ CallFacts(call) /\ Ended(call, call.pos) /\ WithinDisk(call)
      /\ call.op = "write" => Stored(call, call.pos)
      /\ call.op = "read" => Loaded(call, call.pos)
  BY <1>1 DEF CallInv
<1>3. /\ call \in Transfers /\ call.buf + call.n <= MemSize /\ call.drive \in Drives
  BY <1>2 DEF CallFacts
<1>4. MemSize \in Nat /\ Cells \subseteq Nat
  BY ImagesAssumption DEF Cells
<1> QED
  BY <1>2, <1>3, <1>4 DEF Transfers

\* A sector is read: its buffer gets what the image had when the call began.
LEMMA ReadTransfer ==
  ASSUME ImagesInv, CallInv, call.state = "moving", call.counter < call.n,
         call.op = "read", Transfer
  PROVE  /\ image' = image /\ memory' \in [Cells -> Values]
         /\ call.drive \in Mounted /\ call.pos + call.counter < Len(call.image0[call.drive])
         /\ memory'[call.buf + call.counter] = call.image0[call.drive][call.pos + call.counter + 1]
         /\ \A a \in Cells \ {call.buf + call.counter} : memory'[a] = memory[a]
<1> DEFINE k == call.counter
           x == call.buf + k
           d == call.drive
           m == call.pos + k
<1>1. /\ call.pos \in Nat /\ k \in Nat /\ call.buf \in Nat /\ call.buf + call.n <= MemSize
      /\ call.n \in Nat /\ Loaded(call, call.pos)
  BY UnderWay
<1>2. x \in Cells
  BY <1>1, ImagesAssumption DEF Cells
<1>3. image = call.image0
  BY <1>1 DEF Loaded
<1>4. CanRead(d, m) /\ memory' = [memory EXCEPT ![x] = SectorAt(d, m)] /\ image' = image
  BY DEF Transfer, EmuRead
<1>5. d \in Mounted /\ m < Len(image[d]) /\ SectorAt(d, m) = image[d][m + 1]
  BY <1>4 DEF CanRead, SectorAt
<1>6. image[d] \in Seq(Values) /\ memory \in [Cells -> Values]
  BY <1>5 DEF ImagesInv, ImagesTypeOK
<1>7. SectorAt(d, m) \in Values
  <2>1. m + 1 \in 1 .. Len(image[d])
    BY <1>1, <1>5, <1>6
  <2> HIDE DEF d, m
  <2> QED BY <1>5, <1>6, <2>1, ElementOfSeq
<1> HIDE DEF x, d, m
<1>8. /\ image' = image /\ memory' \in [Cells -> Values]
      /\ d \in Mounted /\ m < Len(call.image0[d])
      /\ memory'[x] = call.image0[d][m + 1]
      /\ \A a \in Cells \ {x} : memory'[a] = memory[a]
  BY <1>2, <1>3, <1>4, <1>5, <1>6, <1>7
<1> QED
  BY <1>8 DEF x, d, m

\* A sector is written: the image is what it was when the call began, with the
\* sectors of the call up to this one in it.
LEMMA WriteTransfer ==
  ASSUME ImagesInv, CallInv, call.state = "moving", call.counter < call.n,
         call.op = "write", Transfer
  PROVE  LET new == image'[call.drive]
             old == call.image0[call.drive]
             done == call.counter + 1
         IN  /\ memory' = memory /\ memory' = call.memory0 /\ ImagesInv'
             /\ call.drive \in Mounted
             /\ \A d \in Mounted \ {call.drive} : image'[d] = call.image0[d]
             /\ Len(new) = Longer(Len(old), call.pos + done)
             /\ \A i \in 0 .. Len(new) - 1 :
                  new[i + 1] = IF i \in call.pos .. call.pos + done - 1
                               THEN call.memory0[call.buf + i - call.pos]
                               ELSE IF i < Len(old) THEN old[i + 1] ELSE Zero
<1> DEFINE k == call.counter
           x == call.buf + k
           d == call.drive
           p == call.pos
           m == p + k
           old == call.image0[d]
           cur == image[d]
           v == memory[x]
           w == Written(cur, m, v)
           kt == k + IF call.torn THEN 1 ELSE 0
<1>1. /\ p \in Nat /\ k \in Nat /\ call.buf \in Nat /\ call.buf + call.n <= MemSize
      /\ call.n \in Nat /\ Stored(call, call.pos) /\ call.image0 \in [Mounted -> Seq(Values)]
      /\ CallFacts(call)
  BY UnderWay
<1>2. x \in Cells /\ m \in Nat
  BY <1>1, ImagesAssumption DEF Cells
<1>3. memory = call.memory0 /\ \A e \in Mounted \ {d} : image[e] = call.image0[e]
  BY <1>1 DEF Stored
<1>4. CanWrite(d, m) /\ image' = [image EXCEPT ![d] = w] /\ memory' = memory
  BY DEF Transfer, EmuWrite
<1>5. d \in Mounted
  BY <1>4 DEF CanWrite
<1>6. /\ Len(cur) = IF kt = 0 THEN Len(old) ELSE Longer(Len(old), p + kt)
      /\ \A i \in 0 .. Len(cur) - 1 :
           cur[i + 1] = IF i \in p .. p + kt - 1
                        THEN call.memory0[call.buf + i - p]
                        ELSE IF i < Len(old) THEN old[i + 1] ELSE Zero
  BY <1>1, <1>5 DEF Stored
<1>7. image \in [Mounted -> Seq(Values)] /\ memory \in [Cells -> Values]
      /\ \A e \in Mounted : Len(image[e]) <= Size(e)
  BY DEF ImagesInv, ImagesTypeOK
<1>8. cur \in Seq(Values) /\ v \in Values /\ old \in Seq(Values)
  BY <1>1, <1>2, <1>5, <1>7
<1>9. /\ w \in Seq(Values) /\ Len(w) = Longer(Len(cur), m + 1)
      /\ \A i \in 0 .. Longer(Len(cur), m + 1) - 1 :
           w[i + 1] = IF i = m THEN v ELSE IF i < Len(cur) THEN cur[i + 1] ELSE Zero
  <2> HIDE DEF cur, m, v
  <2>1. m \in Nat
    BY <1>2
  <2>2. w \in Seq(Values)
    BY <2>1, <1>8, WrittenFacts
  <2>3. Len(w) = Longer(Len(cur), m + 1)
    BY <2>1, <1>8, WrittenFacts
  <2>4. \A i \in 0 .. Longer(Len(cur), m + 1) - 1 :
           w[i + 1] = IF i = m THEN v ELSE IF i < Len(cur) THEN cur[i + 1] ELSE Zero
    BY <2>1, <1>8, WrittenFacts
  <2> QED BY <2>2, <2>3, <2>4
<1>10. m + 1 <= Size(d)
  <2>1. p + call.n <= Size(d) /\ Size(d) \in Nat
    BY <1>1, Geometry DEF CallFacts
  <2> HIDE DEF d, p
  <2> QED BY <1>1, <2>1 DEF p
<1>11. Len(w) <= Size(d)
  <2>1. Len(cur) <= Size(d) /\ Len(cur) \in Nat
    BY <1>5, <1>7, <1>8
  <2> HIDE DEF w, cur, m
  <2> QED BY <1>9, <1>10, <2>1 DEF Longer
<1>12. image'[d] = w /\ (\A e \in Mounted \ {d} : image'[e] = image[e])
       /\ image' \in [Mounted -> Seq(Values)]
  <2> HIDE DEF w, d
  <2> QED BY <1>4, <1>5, <1>7, <1>9
<1>13. ImagesInv'
  <2> HIDE DEF w, d
  <2> QED BY <1>4, <1>7, <1>11, <1>12 DEF ImagesInv, ImagesTypeOK
<1>14. kt \in {k, k + 1} /\ Len(cur) \in Nat /\ Len(old) \in Nat
  BY <1>1, <1>8
<1>a. m = p + k /\ x = call.buf + k /\ v = memory[x] /\ p \in Nat /\ k \in Nat
  BY <1>1
<1> HIDE DEF kt, w, cur, old, m, x, v, k, p
<1>15. Len(w) = Longer(Len(old), p + (k + 1))
  <2>1. Len(w) = Longer(Len(cur), m + 1) /\ Len(cur) = IF kt = 0 THEN Len(old) ELSE Longer(Len(old), p + kt)
    BY <1>6, <1>9
  <2> HIDE DEF d
  <2> QED BY <1>a, <1>14, <2>1 DEF Longer
<1>16. ASSUME NEW i \in 0 .. Len(w) - 1
       PROVE  w[i + 1] = IF i \in p .. p + (k + 1) - 1 THEN call.memory0[call.buf + i - p]
                         ELSE IF i < Len(old) THEN old[i + 1] ELSE Zero
  <2>0. i \in Nat /\ i < Len(w) /\ Len(w) \in Nat
    BY <1>9
  <2>1. w[i + 1] = IF i = m THEN v ELSE IF i < Len(cur) THEN cur[i + 1] ELSE Zero
    BY <1>9
  <2>2. CASE i = m
    <3>1. call.buf + i - p = x
      BY <1>1, <1>a, <2>2
    <3>2. i \in p .. p + (k + 1) - 1
      BY <1>a, <2>2
    <3> QED BY <1>3, <1>a, <2>1, <2>2, <3>1, <3>2
  <2>3. CASE i # m /\ i < Len(cur)
    <3>1. i \in 0 .. Len(cur) - 1
      BY <1>14, <2>0, <2>3
    <3>2. i \in p .. p + kt - 1 <=> i \in p .. p + (k + 1) - 1
      BY <1>a, <1>14, <2>0, <2>3
    <3>3. w[i + 1] = cur[i + 1]
      BY <2>1, <2>3
    <3> QED BY <1>6, <3>1, <3>2, <3>3
  <2>4. CASE i # m /\ ~(i < Len(cur))
    <3>1. w[i + 1] = Zero
      BY <2>1, <2>4
    <3>2. Len(cur) >= Len(old) /\ (kt # 0 => Len(cur) >= p + kt)
      BY <1>a, <1>6, <1>14 DEF Longer
    <3>3. ~(i < Len(old))
      BY <1>14, <2>0, <2>4, <3>2
    <3>4. ~(i \in p .. p + (k + 1) - 1)
      <4>1. ~(i \in p .. p + kt - 1)
        BY <1>a, <1>14, <2>0, <2>4, <3>2
      <4> QED BY <1>a, <1>14, <2>0, <2>4, <4>1
    <3> QED BY <3>1, <3>3, <3>4
  <2> QED
    BY <2>2, <2>3, <2>4
<1> QED
  BY <1>3, <1>4, <1>5, <1>12, <1>13, <1>15, <1>16 DEF old, k, p

\* The transfer of a sector, made once, or interrupted and to be made again.
LEMMA MoveKeeps ==
  ASSUME ImagesInv, CallInv, call.state = "moving", call.counter < call.n,
         NEW again \in BOOLEAN, Transfer,
         call' = IF again THEN [call EXCEPT !.torn = TRUE]
                 ELSE [call EXCEPT !.counter = @ + 1, !.torn = FALSE,
                          !.place = NextPlace(HeadsOf(call.drive), SptOf(call.drive), @)]
  PROVE  ImagesInv' /\ CallInv'
<1>1. /\ CallFacts(call) /\ call \in Transfers /\ call.op \in {"read", "write"}
      /\ call.drive \in Drives /\ call.pos \in Nat /\ call.n \in Nat /\ call.counter \in Nat
      /\ call.buf \in Nat /\ call.buf + call.n <= MemSize
      /\ call.image0 \in [Mounted -> Seq(Values)]
      /\ call.place \in [c : Nat, h : Nat, s : Nat] /\ call.torn \in BOOLEAN
      /\ Ended(call, call.pos) /\ WithinDisk(call)
      /\ call.op = "read" => Loaded(call, call.pos)
  BY UnderWay
<1>2. PICK k \in Nat, p \in Nat, b \in Nat, d \in Drives, n \in Nat :
        k = call.counter /\ p = call.pos /\ b = call.buf /\ d = call.drive /\ n = call.n
  BY <1>1
<1>3. PICK kk \in Nat : kk = IF again THEN k ELSE k + 1
  BY <1>2
<1>4. PICK q : q = IF again THEN call.place ELSE NextPlace(HeadsOf(d), SptOf(d), call.place)
  OBVIOUS
<1>5. /\ call.place \in SpotsOf(d) /\ Number(d, call.place) = p + k
      /\ p = Number(d, call.first) /\ call.first \in SpotsOf(d)
      /\ b + n <= MemSize /\ k < n /\ (call.op = "write" => p + n <= Size(d))
      /\ \A e \in Mounted : Len(call.image0[e]) <= Size(e)
  BY <1>1, <1>2 DEF CallFacts
<1>b. /\ NextPlace(HeadsOf(d), SptOf(d), call.place) \in SpotsOf(d)
      /\ Number(d, NextPlace(HeadsOf(d), SptOf(d), call.place)) = p + k + 1
  BY <1>5, Numbering
<1>c. q \in SpotsOf(d) /\ Number(d, q) = p + kk /\ kk <= n
  BY <1>2, <1>3, <1>4, <1>5, <1>b
<1>d. q \in [c : Nat, h : Nat, s : Nat]
  BY <1>c, Geometry DEF SpotsOf, Spots
<1>e. call' = TransferAt(call, "moving", kk, q, again)
  <2>1. CASE again
    <3>1. kk = call.counter /\ q = call.place
      BY <1>2, <1>3, <1>4, <2>1
    <3> QED BY <1>1, <2>1, <3>1 DEF TransferAt, Transfers
  <2>2. CASE ~again
    <3>1. kk = call.counter + 1 /\ q = NextPlace(HeadsOf(call.drive), SptOf(call.drive), call.place)
      BY <1>2, <1>3, <1>4, <2>2
    <3> QED BY <1>1, <2>2, <3>1 DEF TransferAt, Transfers
  <2> QED BY <2>1, <2>2
<1>6. /\ call' \in Transfers /\ call'.state = "moving" /\ call'.counter = kk /\ call'.place = q
      /\ call'.torn = again /\ call'.op = call.op /\ call'.drive = d /\ call'.pos = p
      /\ call'.n = n /\ call'.buf = b /\ call'.first = call.first
      /\ call'.image0 = call.image0 /\ call'.memory0 = call.memory0
  <2> DEFINE P == [c : Nat, h : Nat, s : Nat]
             I == [Mounted -> Seq(Values)]
             W == [Cells -> Values]
             T == {"moving", "ok", "error", "refused"}
  <2>1. q \in P /\ "moving" \in T /\ kk \in Nat /\ again \in BOOLEAN
    BY <1>d
  <2>2. Transfers = [state : T, op : {"read", "write"}, drive : Nat,
                     pos : Nat, n : Nat, buf : Cells, counter : Nat,
                     first : P, place : P, image0 : I, memory0 : W, torn : BOOLEAN]
    BY DEF Transfers
  <2> HIDE DEF P, I, W, T
  <2>3. call' \in Transfers
    BY <1>1, <1>e, <2>1, <2>2 DEF TransferAt
  <2>4. call'.state = "moving"
    BY <1>1, <1>e, <2>1, <2>2 DEF TransferAt
  <2>5. call'.counter = kk
    BY <1>1, <1>e, <2>1, <2>2 DEF TransferAt
  <2>6. call'.place = q
    BY <1>1, <1>e, <2>1, <2>2 DEF TransferAt
  <2>7. call'.torn = again
    BY <1>1, <1>e, <2>1, <2>2 DEF TransferAt
  <2>8. /\ call'.op = call.op /\ call'.drive = call.drive /\ call'.pos = call.pos
        /\ call'.n = call.n /\ call'.buf = call.buf
    BY <1>1, <1>e, <2>1, <2>2 DEF TransferAt
  <2>9. /\ call'.first = call.first
        /\ call'.image0 = call.image0 /\ call'.memory0 = call.memory0
    BY <1>1, <1>e, <2>1, <2>2 DEF TransferAt
  <2> QED BY <1>2, <2>3, <2>4, <2>5, <2>6, <2>7, <2>8, <2>9
<1>a. kk + (IF again THEN 1 ELSE 0) = k + 1 /\ kk \in {k, k + 1}
  BY <1>3
<1>7. CallFacts(call')
  BY <1>5, <1>6, <1>c DEF CallFacts
<1>8. Ended(call', call'.pos)
  BY <1>6 DEF Ended
<1>9. CASE call.op = "write"
  <2>1. /\ memory' = memory /\ memory' = call.memory0 /\ ImagesInv'
        /\ d \in Mounted
        /\ \A e \in Mounted \ {d} : image'[e] = call.image0[e]
        /\ Len(image'[d]) = Longer(Len(call.image0[d]), p + (k + 1))
        /\ \A i \in 0 .. Len(image'[d]) - 1 :
             image'[d][i + 1] =
               IF i \in p .. p + (k + 1) - 1 THEN call.memory0[b + i - p]
               ELSE IF i < Len(call.image0[d]) THEN call.image0[d][i + 1] ELSE Zero
    BY <1>2, <1>9, WriteTransfer
  <2>2. k + 1 # 0
    BY <1>1
  <2>3. Stored(call, call.pos)'
    <3> DEFINE done == call.counter + IF call.torn THEN 1 ELSE 0
    <3>1. done' = k + 1
      BY <1>a, <1>6
    <3>a. PICK z \in Nat : z = k + 1
      OBVIOUS
    <3> DEFINE Right(w) ==
          \A i \in 0 .. Len(image'[d]) - 1 :
             image'[d][i + 1] =
               IF i \in p .. p + w - 1 THEN call.memory0[b + i - p]
               ELSE IF i < Len(call.image0[d]) THEN call.image0[d][i + 1] ELSE Zero
    <3>b. z # 0 /\ Len(image'[d]) = Longer(Len(call.image0[d]), p + z) /\ Right(z)
      BY <2>1, <2>2, <3>a
    <3>c. done' = z
      BY <3>1, <3>a
    <3>d. /\ memory' = call'.memory0
          /\ \A e \in Mounted \ {call'.drive} : image'[e] = call'.image0[e]
      BY <1>6, <2>1
    <3>e. /\ call'.drive = d /\ call'.pos = p /\ call'.buf = b
          /\ call'.image0 = call.image0 /\ call'.memory0 = call.memory0
      BY <1>6
    <3>f. Len(image'[call'.drive]) = IF done' = 0 THEN Len(call'.image0[call'.drive])
                                     ELSE Longer(Len(call'.image0[call'.drive]), call'.pos + done')
      BY <3>b, <3>c, <3>e
    <3> DEFINE Fit(e, pp, bb, i0, m0, w) ==
          \A i \in 0 .. Len(image'[e]) - 1 :
             image'[e][i + 1] = IF i \in pp .. pp + w - 1 THEN m0[bb + i - pp]
                                ELSE IF i < Len(i0[e]) THEN i0[e][i + 1] ELSE Zero
    <3>g. Fit(d, p, b, call.image0, call.memory0, z)
      BY <3>b
    <3>h. Fit(call'.drive, call'.pos, call'.buf, call'.image0, call'.memory0, done')
      <4> HIDE DEF Fit
      <4> QED BY <3>c, <3>e, <3>g
    <3> HIDE DEF Right
    <3> QED BY <3>d, <3>f, <3>h DEF Stored
  <2>4. WithinDisk(call')
    BY <1>6, <1>9 DEF WithinDisk
  <2> QED
    BY <1>6, <1>7, <1>8, <1>9, <2>1, <2>3, <2>4 DEF CallInv
<1>10. CASE call.op = "read"
  <2>1. /\ image' = image /\ memory' \in [Cells -> Values]
        /\ d \in Mounted /\ p + k < Len(call.image0[d])
        /\ memory'[b + k] = call.image0[d][p + k + 1]
        /\ \A a \in Cells \ {b + k} : memory'[a] = memory[a]
    BY <1>2, <1>10, ReadTransfer
  <2>2. ImagesInv'
    BY <2>1 DEF ImagesInv, ImagesTypeOK
  <2>3. /\ image = call.image0
        /\ \A a \in Cells :
             IF a \in b .. b + k - 1 THEN memory[a] = call.image0[d][p + a - b + 1]
             ELSE (a = b + k /\ call.torn) \/ memory[a] = call.memory0[a]
    BY <1>1, <1>2, <1>10 DEF Loaded
  <2>4. \A a \in Cells :
          IF a \in b .. b + kk - 1 THEN memory'[a] = call.image0[d][p + a - b + 1]
          ELSE (a = b + kk /\ again) \/ memory'[a] = call.memory0[a]
    <3> SUFFICES ASSUME NEW a \in Cells
                 PROVE  IF a \in b .. b + kk - 1 THEN memory'[a] = call.image0[d][p + a - b + 1]
                        ELSE (a = b + kk /\ again) \/ memory'[a] = call.memory0[a]
      OBVIOUS
    <3>1. a \in Nat /\ b \in Nat /\ p \in Nat /\ kk \in {k, k + 1}
      BY <1>a, ImagesAssumption DEF Cells
    <3>2. CASE a = b + k
      <4>1. CASE again
        <5>1. kk = k
          BY <1>3, <4>1
        <5> QED BY <1>1, <3>1, <3>2, <4>1, <5>1
      <4>2. CASE ~again
        <5>1. kk = k + 1
          BY <1>3, <4>2
        <5>2. a \in b .. b + kk - 1 /\ p + a - b + 1 = p + k + 1
          BY <1>1, <3>1, <3>2, <5>1
        <5> QED BY <2>1, <3>2, <5>2
      <4> QED BY <4>1, <4>2
    <3>3. CASE a # b + k
      <4>1. memory'[a] = memory[a]
        BY <2>1, <3>3
      <4>2. a \in b .. b + kk - 1 <=> a \in b .. b + k - 1
        <5>1. k \in Nat
          BY <1>1
        <5>2. CASE kk = k
          BY <5>2
        <5>3. CASE kk = k + 1
          <6>1. kk - 1 = k
            BY <5>1, <5>3
          <6>2. a \in b .. b + k <=> a \in b .. b + k - 1
            BY <3>1, <3>3, <5>1
          <6> QED BY <6>1, <6>2
        <5> QED BY <3>1, <5>2, <5>3
      <4> QED BY <2>3, <3>3, <4>1, <4>2
    <3> QED BY <3>2, <3>3
  <2>5. Loaded(call, call.pos)'
    BY <1>6, <2>1, <2>3, <2>4 DEF Loaded
  <2>6. WithinDisk(call')
    <3>1. call.image0[d] \in Seq(Values)
      BY <1>1, <2>1
    <3>2. kk \in {k, k + 1} /\ Len(call.image0[d]) \in Nat
      BY <1>a, <3>1
    <3>3. p + kk <= Len(call.image0[d])
      BY <1>1, <2>1, <3>2
    <3> QED BY <1>6, <2>1, <3>3 DEF WithinDisk
  <2> QED
    BY <1>6, <1>7, <1>8, <1>10, <2>2, <2>5, <2>6 DEF CallInv
<1> QED
  BY <1>1, <1>9, <1>10

\* A call whose state changes is the same call otherwise.
LEMMA StateFields ==
  ASSUME NEW c \in Transfers, NEW st \in {"moving", "ok", "error", "refused"},
         NEW e, e = [c EXCEPT !.state = st]
  PROVE  /\ e \in Transfers /\ e.state = st /\ e.op = c.op /\ e.drive = c.drive /\ e.pos = c.pos
         /\ e.n = c.n /\ e.buf = c.buf /\ e.counter = c.counter /\ e.first = c.first
         /\ e.place = c.place /\ e.image0 = c.image0 /\ e.memory0 = c.memory0 /\ e.torn = c.torn
<1> DEFINE P == [c : Nat, h : Nat, s : Nat]
           I == [Mounted -> Seq(Values)]
           W == [Cells -> Values]
           T == {"moving", "ok", "error", "refused"}
<1>1. st \in T
  OBVIOUS
<1>2. Transfers = [state : T, op : {"read", "write"}, drive : Nat,
                   pos : Nat, n : Nat, buf : Cells, counter : Nat,
                   first : P, place : P, image0 : I, memory0 : W, torn : BOOLEAN]
  BY DEF Transfers
<1> HIDE DEF P, I, W, T
<1> QED
  BY <1>1, <1>2

\* So is one whose sector is torn.
LEMMA TornFields ==
  ASSUME NEW c \in Transfers, NEW e, e = [c EXCEPT !.torn = TRUE]
  PROVE  /\ e \in Transfers /\ e.state = c.state /\ e.op = c.op /\ e.drive = c.drive
         /\ e.pos = c.pos /\ e.n = c.n /\ e.buf = c.buf /\ e.counter = c.counter
         /\ e.first = c.first /\ e.place = c.place /\ e.image0 = c.image0
         /\ e.memory0 = c.memory0 /\ e.torn = TRUE
<1> DEFINE P == [c : Nat, h : Nat, s : Nat]
           I == [Mounted -> Seq(Values)]
           W == [Cells -> Values]
           T == {"moving", "ok", "error", "refused"}
<1>2. Transfers = [state : T, op : {"read", "write"}, drive : Nat,
                   pos : Nat, n : Nat, buf : Cells, counter : Nat,
                   first : P, place : P, image0 : I, memory0 : W, torn : BOOLEAN]
  BY DEF Transfers
<1> HIDE DEF P, I, W, T
<1> QED
  BY <1>2

\* A call ends well or badly, and nothing moves any more.
LEMMA EndKeeps ==
  ASSUME ImagesInv, CallInv, SectorFails \/ CallDone
  PROVE  ImagesInv' /\ CallInv' /\ UNCHANGED <<image, memory>>
<1>1. call.state = "moving" /\ UNCHANGED <<image, memory>>
  BY DEF SectorFails, CallDone
<1>2. PICK st \in {"ok", "error"} :
        /\ call' = [call EXCEPT !.state = st]
        /\ st = "ok" => CallDone
        /\ st = "error" => SectorFails
  BY DEF SectorFails, CallDone
<1>3. /\ CallFacts(call) /\ call \in Transfers /\ call.op \in {"read", "write"}
      /\ WithinDisk(call) /\ call.pos \in Nat /\ call.counter \in Nat
      /\ call.op = "write" => Stored(call, call.pos)
      /\ call.op = "read" => Loaded(call, call.pos)
  BY <1>1, UnderWay
<1>4. st \in {"moving", "ok", "error", "refused"}
  BY <1>2
<1>5. /\ call' \in Transfers /\ call'.state = st /\ call'.op = call.op
      /\ call'.drive = call.drive /\ call'.pos = call.pos
      /\ call'.n = call.n /\ call'.buf = call.buf /\ call'.counter = call.counter
      /\ call'.first = call.first /\ call'.place = call.place
      /\ call'.image0 = call.image0 /\ call'.memory0 = call.memory0 /\ call'.torn = call.torn
  BY <1>2, <1>3, <1>4, StateFields
<1>6. CallFacts(call')
  BY <1>1, <1>2, <1>3, <1>5 DEF CallFacts
<1>7. Ended(call', call'.pos)
  <2>1. st = "ok" => call.counter = call.n
    BY <1>2 DEF CallDone
  <2>2. ASSUME st = "error"
        PROVE  /\ call.counter < call.n
               /\ \/ call.drive \notin Mounted
                  \/ call.op = "write" /\ call.drive \in ReadOnly
                  \/ call.op = "read" /\ call.pos + call.counter >= Len(call.image0[call.drive])
    <3>1. call.counter < call.n
      BY <1>2, <2>2 DEF SectorFails
    <3>2. call.pos + call.counter >= 0
      BY <1>3
    <3>3. CASE call.op = "read"
      <4>1. ~CanRead(call.drive, call.pos + call.counter)
        BY <1>2, <2>2, <3>3 DEF SectorFails
      <4>2. image = call.image0
        BY <1>3, <3>3 DEF Loaded
      <4>3. call.drive \notin Mounted \/ ~(call.pos + call.counter < Len(image[call.drive]))
        BY <3>2, <4>1 DEF CanRead
      <4>4. call.drive \in Mounted => Len(image[call.drive]) \in Nat
        BY DEF ImagesInv, ImagesTypeOK
      <4> QED BY <1>3, <3>1, <3>3, <4>2, <4>3, <4>4
    <3>4. CASE call.op = "write"
      <4>1. ~CanWrite(call.drive, call.pos + call.counter)
        BY <1>2, <2>2, <3>4 DEF SectorFails
      <4> QED BY <3>1, <3>2, <3>4, <4>1 DEF CanWrite
    <3> QED BY <1>3, <3>3, <3>4
  <2>3. call'.state = "ok" => call'.counter = call'.n
    BY <1>5, <2>1
  <2>4. call'.state = "error" =>
          /\ call'.counter < call'.n
          /\ \/ call'.drive \notin Mounted
             \/ call'.op = "write" /\ call'.drive \in ReadOnly
             \/ call'.op = "read" /\ call'.pos + call'.counter >= Len(call'.image0[call'.drive])
    BY <1>5, <2>2
  <2> QED BY <2>3, <2>4 DEF Ended
<1>8. WithinDisk(call')
  BY <1>3, <1>5 DEF WithinDisk
<1>9. call.op = "write" => Stored(call, call.pos)'
  BY <1>1, <1>3, <1>5 DEF Stored
<1>10. call.op = "read" => Loaded(call, call.pos)'
  BY <1>1, <1>3, <1>5 DEF Loaded
<1>11. CallInv'
  BY <1>5, <1>6, <1>7, <1>8, <1>9, <1>10 DEF CallInv
<1> QED
  BY <1>1, <1>11 DEF ImagesInv, ImagesTypeOK

\* An interrupted read may leave anything in its buffer.
LEMMA JunkKeeps ==
  ASSUME ImagesInv, CallInv, call.state = "moving", call.counter < call.n, call.op = "read",
         memory' = [memory EXCEPT ![call.buf + call.counter] = Junk], image' = image,
         call' = [call EXCEPT !.torn = TRUE]
  PROVE  ImagesInv' /\ CallInv'
<1>1. /\ CallFacts(call) /\ call \in Transfers /\ Ended(call, call.pos) /\ WithinDisk(call)
      /\ call.pos \in Nat /\ call.counter \in Nat /\ call.buf \in Nat
      /\ Loaded(call, call.pos)
  BY UnderWay
<1>2. /\ call' \in Transfers /\ call'.state = call.state /\ call'.op = call.op
      /\ call'.drive = call.drive /\ call'.pos = call.pos
      /\ call'.n = call.n /\ call'.buf = call.buf /\ call'.counter = call.counter
      /\ call'.first = call.first /\ call'.place = call.place
      /\ call'.image0 = call.image0 /\ call'.memory0 = call.memory0 /\ call'.torn = TRUE
  BY <1>1, TornFields
<1>3. memory \in [Cells -> Values] /\ Junk \in Values
  BY ImagesAssumption DEF ImagesInv, ImagesTypeOK
<1>4. memory' \in [Cells -> Values]
      /\ \A a \in Cells \ {call.buf + call.counter} : memory'[a] = memory[a]
  BY <1>3
<1>5. ImagesInv'
  BY <1>4 DEF ImagesInv, ImagesTypeOK
<1>6. CallFacts(call')
  BY <1>1, <1>2 DEF CallFacts
<1>7. Ended(call', call'.pos) /\ WithinDisk(call')
  BY <1>1, <1>2 DEF Ended, WithinDisk
<1>8. Loaded(call, call.pos)'
  <2>1. image' = call.image0
    BY <1>1 DEF Loaded
  <2>2. ASSUME NEW a \in Cells
        PROVE  IF a \in call.buf .. call.buf + call.counter - 1
               THEN memory'[a] = call.image0[call.drive][call.pos + a - call.buf + 1]
               ELSE a = call.buf + call.counter \/ memory'[a] = call.memory0[a]
    <3>1. IF a \in call.buf .. call.buf + call.counter - 1
          THEN memory[a] = call.image0[call.drive][call.pos + a - call.buf + 1]
          ELSE a = call.buf + call.counter \/ memory[a] = call.memory0[a]
      BY <1>1 DEF Loaded
    <3>2. a = call.buf + call.counter => ~(a \in call.buf .. call.buf + call.counter - 1)
      BY <1>1
    <3>3. CASE a = call.buf + call.counter
      BY <3>2, <3>3
    <3>4. CASE a # call.buf + call.counter
      BY <1>4, <3>1, <3>4
    <3> QED BY <3>3, <3>4
  <2> QED BY <1>2, <2>1, <2>2 DEF Loaded
<1> QED
  BY <1>2, <1>5, <1>6, <1>7, <1>8 DEF CallInv

\* The calls of the BIOS begin with a place on the drive and its number.
LEMMA BeginKeeps ==
  ASSUME ImagesInv,
         NEW b \in Numbers, NEW n \in Counts, NEW a \in Buffers,
         \/ \E p \in CallPlaces \cap PlacesOf(DriveOf(b)) : Ah02(b, p, n, a) \/ Ah03(b, p, n, a)
         \/ \E lba \in Lbas, sized \in BOOLEAN : Ah42(b, sized, lba, n, a)
  PROVE  ImagesInv' /\ CallInv' /\ call' # Idle
<1>0. b \in Nat /\ n \in Nat /\ a \in Cells /\ Lbas \subseteq Nat
  BY Int13Assumption
<1>1. b \in BiosDrives => DriveOf(b) \in Drives
  BY ImagesAssumption DEF BiosDrives, DriveOf
<1>2. DriveOf(b) \in Nat /\ (b \notin BiosDrives => DriveOf(b) = b)
  BY <1>0 DEF BiosDrives, DriveOf
<1>3. ASSUME NEW op \in {"read", "write"}, NEW p \in PlacesOf(DriveOf(b)), ByPlace(op, b, p, n, a)
      PROVE  ImagesInv' /\ CallInv' /\ call' # Idle
  <2>1. p \in SpotsOf(DriveOf(b))
    BY PlacesAreSpots
  <2>2. CASE b \in BiosDrives
    <3> DEFINE d == DriveOf(b)
               m == Number(d, p)
    <3>1. m = Position(HeadsOf(d), SptOf(d), p)
      BY DEF Number
    <3>2. Begin(op, TRUE, d, m, p, n, a) /\ (op = "write" => m + n <= Size(d))
      BY <1>3, <2>2, <3>1 DEF ByPlace
    <3>3. m \in Nat
      BY <2>1, Numbering
    <3>4. d \in Nat /\ d \in Drives /\ p \in SpotsOf(d) /\ m = Number(d, p)
      BY <1>1, <1>2, <2>1, <2>2
    <3> HIDE DEF d, m
    <3> QED BY <1>0, <3>2, <3>3, <3>4, BeginCall
  <2>3. CASE b \notin BiosDrives
    <3>1. Begin(op, FALSE, b, 0, p, n, a)
      BY <1>3, <2>3 DEF ByPlace
    <3>2. p \in SpotsOf(b)
      BY <1>2, <2>1, <2>3
    <3> QED BY <1>0, <3>1, <3>2, BeginCall
  <2> QED BY <2>2, <2>3
<1>4. ASSUME NEW lba \in Lbas, NEW sized \in BOOLEAN, Ah42(b, sized, lba, n, a)
      PROVE  ImagesInv' /\ CallInv' /\ call' # Idle
  <2> DEFINE d == DriveOf(b)
             p == PlaceAt(d, lba)
             ok == sized /\ b \in BiosDrives
  <2>1. Begin("read", ok, d, lba, p, n, a)
    BY <1>4 DEF Ah42
  <2>2. p \in SpotsOf(d) /\ Number(d, p) = lba /\ lba \in Nat
    BY <1>0, NumberedPlace
  <2>3. ok \in BOOLEAN /\ (ok => d \in Drives)
    BY <1>1
  <2>4. d \in Nat /\ "read" \in {"read", "write"} /\ "read" # "write"
    BY <1>2
  <2> HIDE DEF d, p, ok
  <2> QED BY <1>0, <2>1, <2>2, <2>3, <2>4, BeginCall
<1> QED
  BY <1>3, <1>4 DEF Ah02, Ah03

\* A call of the BIOS keeps the images and the memory what they should be.
LEMMA CallStep ==
  ASSUME ImagesInv, CallInv, Int13Next
  PROVE  ImagesInv' /\ CallInv'
<1>1. CASE \E b \in Numbers, n \in Counts, a \in Buffers :
             \/ \E p \in CallPlaces \cap PlacesOf(DriveOf(b)) : Ah02(b, p, n, a) \/ Ah03(b, p, n, a)
             \/ \E lba \in Lbas, sized \in BOOLEAN : Ah42(b, sized, lba, n, a)
  BY <1>1, BeginKeeps
<1>2. CASE MoveSector
  <2>1. /\ call.state = "moving" /\ call.counter < call.n /\ Transfer
        /\ call' = [call EXCEPT !.counter = @ + 1, !.torn = FALSE,
                      !.place = NextPlace(HeadsOf(call.drive), SptOf(call.drive), @)]
    BY <1>2 DEF MoveSector
  <2> DEFINE again == FALSE
  <2>2. call' = IF again THEN [call EXCEPT !.torn = TRUE]
                ELSE [call EXCEPT !.counter = @ + 1, !.torn = FALSE,
                        !.place = NextPlace(HeadsOf(call.drive), SptOf(call.drive), @)]
    BY <2>1
  <2>3. again \in BOOLEAN
    OBVIOUS
  <2> HIDE DEF again
  <2> QED BY <2>1, <2>2, <2>3, MoveKeeps
<1>3. CASE MoveInterrupted
  <2>1. /\ call.state = "moving" /\ call.counter < call.n
        /\ call' = [call EXCEPT !.torn = TRUE]
    BY <1>3 DEF MoveInterrupted
  <2>2. CASE Transfer
    <3> DEFINE again == TRUE
    <3>2. call' = IF again THEN [call EXCEPT !.torn = TRUE]
                  ELSE [call EXCEPT !.counter = @ + 1, !.torn = FALSE,
                          !.place = NextPlace(HeadsOf(call.drive), SptOf(call.drive), @)]
      BY <2>1
    <3>3. again \in BOOLEAN
      OBVIOUS
    <3> HIDE DEF again
    <3> QED BY <2>1, <2>2, <3>2, <3>3, MoveKeeps
  <2>3. CASE /\ call.op = "read" /\ CanRead(call.drive, call.pos + call.counter)
             /\ memory' = [memory EXCEPT ![call.buf + call.counter] = Junk]
             /\ UNCHANGED image
    BY <2>1, <2>3, JunkKeeps
  <2> QED BY <1>3, <2>2, <2>3 DEF MoveInterrupted
<1>4. CASE SectorFails \/ CallDone
  BY <1>4, EndKeeps
<1>5. CASE Resume
  <2>1. call' = Idle /\ image' = image
        /\ memory' = [a \in Cells |->
                        IF a \in call.buf .. call.buf + call.n - 1 THEN Blank ELSE memory[a]]
    BY <1>5 DEF Resume
  <2>2. memory \in [Cells -> Values] /\ Blank \in Values
    BY ImagesAssumption DEF ImagesInv, ImagesTypeOK
  <2>3. memory' \in [Cells -> Values]
    BY <2>1, <2>2
  <2> QED BY <2>1, <2>3 DEF ImagesInv, ImagesTypeOK, CallInv
<1> QED
  BY <1>1, <1>2, <1>3, <1>4, <1>5 DEF Int13Next

\* The driver leaves the images alone, and what it puts into memory is a sector,
\* or what somebody left.
LEMMA DriverMemory ==
  ASSUME ImagesInv, DriverInv, DriverNext
  PROVE  ImagesInv' /\ image' = image
<1>1. memory \in [Cells -> Values] /\ image \in [Mounted -> Seq(Values)]
      /\ Blank \in Values /\ Junk \in Values
  BY ImagesAssumption DEF ImagesInv, ImagesTypeOK
<1>2. ASSUME NEW ph, NEW due, Leave(ph, due) PROVE memory' \in [Cells -> Values]
  BY <1>1, <1>2 DEF Leave
<1>3. image' = image
  BY DEF DriverNext, StartSimple, StartRead, SendByte, ReadResult, TakeIrq, EnterReset, LeaveReset,
         ResetByRate, Motor, WriteFifo, ReadFifo
<1>4. CASE SendByte
  <2> DEFINE f == Put(fdc, drv.packet[drv.sent + 1])
  <2>1. f \in Controllers
    BY <1>4, NextByte DEF SendByte
  <2>2. WriteFifo(drv.packet[drv.sent + 1])
    BY <1>4 DEF SendByte
  <2>3. ExecuteRead(f) \/ memory' = memory
    BY <2>2 DEF WriteFifo
  <2> HIDE DEF f
  <2>4. CASE ExecuteRead(f)
    <3> DEFINE n == Position(NHead, NSector, Wanted(f))
               v == IF CanRead(0, n) THEN SectorAt(0, n) ELSE Junk
    <3>1. memory' = [memory EXCEPT ![Address(dma)] = v]
      BY <2>4 DEF ExecuteRead
    <3>2. n \in Int
      <4>1. f.fifo[2] \in Nat /\ f.fifo[3] \in Nat /\ f.fifo[4] \in Nat
        BY <2>1 DEF Controllers, Byte
      <4>2. NHead \in Nat /\ NSector \in Nat
        BY FloppyAssumption
      <4> DEFINE t == f.fifo[2] * NHead + f.fifo[3]
      <4>3. t \in Nat
        BY <4>1, <4>2
      <4>4. n = t * NSector + f.fifo[4] - 1
        BY DEF Position, Wanted
      <4> HIDE DEF t, n
      <4>5. t * NSector \in Nat
        BY <4>2, <4>3
      <4> QED BY <4>1, <4>4, <4>5
    <3> HIDE DEF n
    <3>3. v \in Values
      <4>1. CASE CanRead(0, n)
        <5>1. 0 \in Mounted /\ n + 1 \in 1 .. Len(image[0]) /\ image[0] \in Seq(Values)
          BY <1>1, <3>2, <4>1 DEF CanRead
        <5>2. image[0][n + 1] \in Values
          BY <5>1, ElementOfSeq
        <5> QED BY <4>1, <5>2 DEF SectorAt
      <4>2. CASE ~CanRead(0, n)
        BY <1>1, <4>2
      <4> QED BY <4>1, <4>2
    <3> HIDE DEF v
    <3>4. memory' \in [Cells -> Values]
      BY <1>1, <3>1, <3>3
    <3> QED BY <1>1, <1>3, <3>4 DEF ImagesInv, ImagesTypeOK
  <2>5. CASE memory' = memory
    BY <1>1, <1>3, <2>5 DEF ImagesInv, ImagesTypeOK
  <2> QED BY <2>3, <2>4, <2>5
<1>5. CASE ~SendByte
  <2>1. memory' = memory \/ \E ph, due : Leave(ph, due)
    BY <1>5 DEF DriverNext, StartSimple, StartRead, ReadResult, TakeIrq, EnterReset, LeaveReset,
                ResetByRate, Motor
  <2>2. memory' \in [Cells -> Values]
    BY <1>1, <1>2, <2>1
  <2> QED BY <1>1, <1>3, <2>2 DEF ImagesInv, ImagesTypeOK
<1> QED
  BY <1>4, <1>5

\* The driver runs while no call is under way.
DiskInv == DriverInv /\ ImagesInv /\ CallInv /\ (call # Idle => drv.phase \in {"off", "idle"})

\* The invariant of images, calls and driver holds at the start.
LEMMA DiskInit0 == Init => DiskInv
<1> SUFFICES ASSUME Init PROVE DiskInv
  OBVIOUS
<1>1. DriverInv
  BY DriverInit0
<1>2. memory \in [Cells -> Values] /\ image \in [Mounted -> Seq(Values)]
      /\ \A d \in Mounted : Len(image[d]) <= Size(d)
  BY ImagesAssumption, DiskAssumption DEF Init
<1>3. call = Idle
  BY DEF Init, Int13Init
<1> QED
  BY <1>1, <1>2, <1>3 DEF DiskInv, ImagesInv, ImagesTypeOK, CallInv

\* The invariant of images, calls and driver is inductive.
LEMMA DiskInductive == DiskInv /\ [Next]_vars => DiskInv'
<1> SUFFICES ASSUME DiskInv, [Next]_vars PROVE DiskInv'
  OBVIOUS
<1>0. DriverInv /\ ImagesInv /\ CallInv /\ DriverInv'
  BY DriverInductive DEF DiskInv
<1>1. CASE UNCHANGED vars
  <2>1. UNCHANGED <<image, memory, call, drv>>
    BY <1>1 DEF vars
  <2>2. ImagesInv' /\ CallInv'
    <3>1. ImagesInv'
      BY <1>0, <2>1 DEF ImagesInv, ImagesTypeOK
    <3>2. CallFacts(call)' <=> CallFacts(call)
      BY <2>1
    <3> QED BY <1>0, <2>1, <3>1 DEF CallInv, CallFacts, Ended, WithinDisk, Stored, Loaded
  <2> QED BY <1>0, <2>1, <2>2 DEF DiskInv
<1>2. CASE /\ drv.phase = "off" \/ (Mixed /\ drv.phase = "idle")
           /\ Int13Next /\ UNCHANGED <<fdc, dma, drv>>
  <2>1. ImagesInv' /\ CallInv'
    BY <1>0, <1>2, CallStep
  <2> QED BY <1>0, <1>2, <2>1 DEF DiskInv
<1>3. CASE call = Idle /\ DriverNext /\ UNCHANGED <<call, writes>>
  <2>1. ImagesInv'
    BY <1>0, <1>3, DriverMemory
  <2>2. CallInv' /\ call' = Idle
    BY <1>3 DEF CallInv
  <2> QED BY <1>0, <2>1, <2>2 DEF DiskInv
<1> QED
  BY <1>1, <1>2, <1>3 DEF Next

\* Images, calls and driver are consistent in every state.
LEMMA DiskInvariant == Spec => []DiskInv
BY DiskInit0, DiskInductive, PTL DEF Spec

\* A call of the BIOS that is over has moved exactly the sectors it was asked for,
\* or those in front of the first that cannot be moved; and one that was
\* interrupted starts where it was (int13h.c:310-424).
THEOREM CallExactHolds == Spec => []CallExact
<1>1. DiskInv => CallExact
  <2> SUFFICES ASSUME DiskInv, call # Idle PROVE CallExact
    BY DEF CallExact
  <2>1. /\ CallFacts(call) /\ Ended(call, call.pos) /\ WithinDisk(call)
        /\ call.op = "write" => Stored(call, call.pos)
        /\ call.op = "read" => Loaded(call, call.pos)
    BY DEF DiskInv, CallInv
  <2> DEFINE first == Rank(call.drive, call.first)
  <2>2. /\ call.op \in {"read", "write"} /\ call.pos \in Nat /\ call.n \in Nat
        /\ call.counter \in Nat /\ call.buf \in Nat /\ call.torn \in BOOLEAN
        /\ call.first \in SpotsOf(call.drive) /\ call.counter <= call.n
        /\ call.image0 \in [Mounted -> Seq(Values)]
        /\ call.state \in {"moving", "ok", "error", "refused"}
    BY <2>1, ImagesAssumption DEF CallFacts, Transfers, Cells
  <2>3. first = IF call.first \in PlacesOf(call.drive) THEN Number(call.drive, call.first)
                ELSE Size(call.drive)
    BY <2>2, Ranking
  <2>4. Number(call.drive, call.first) \in Nat /\ Size(call.drive) \in Nat
        /\ (call.first \in PlacesOf(call.drive) <=> Number(call.drive, call.first) < Size(call.drive))
    BY <2>2, Numbering, Geometry
  <2> HIDE DEF first
  <2>a. first \in Nat
    BY <2>3, <2>4
  <2>5. call.drive \in Mounted => Len(call.image0[call.drive]) \in Nat
                                  /\ Len(call.image0[call.drive]) <= Size(call.drive)
    BY <2>1, <2>2 DEF CallFacts
  <2>6. call.state # "refused" /\ first # call.pos =>
          first = Size(call.drive) /\ first <= call.pos
    BY <2>1, <2>3, <2>4 DEF CallFacts
  <2>7. Ended(call, first)
    <3>1. CASE first = call.pos
      BY <2>1, <3>1
    <3>2. CASE first # call.pos
      <4>1. CASE call.state \notin {"ok", "error"}
        BY <4>1 DEF Ended
      <4>2. CASE call.state \in {"ok", "error"}
        <5>1. first = Size(call.drive) /\ first <= call.pos
          BY <2>6, <3>2, <4>2
        <5>2. /\ call.state = "ok" => call.counter = call.n
              /\ call.state = "error" =>
                    /\ call.counter < call.n
                    /\ \/ call.drive \notin Mounted
                       \/ call.op = "write" /\ call.drive \in ReadOnly
                       \/ call.op = "read" /\ call.pos + call.counter >= Len(call.image0[call.drive])
          BY <2>1 DEF Ended
        <5>3. call.drive \in Mounted => first + call.counter >= Len(call.image0[call.drive])
          BY <2>2, <2>4, <2>5, <5>1
        <5> QED BY <5>2, <5>3 DEF Ended
      <4> QED BY <4>1, <4>2
    <3> QED BY <3>1, <3>2
  <2>8. call.op = "write" => Stored(call, first)
    <3>1. CASE first = call.pos
      BY <2>1, <3>1
    <3>2. CASE first # call.pos /\ call.op = "write"
      <4>1. call.counter = 0 /\ ~call.torn
        <5>1. CASE call.state = "refused"
          BY <2>1, <5>1 DEF CallFacts
        <5>2. CASE call.state # "refused"
          BY <2>1, <2>2, <2>4, <2>6, <3>2, <5>2 DEF CallFacts
        <5> QED BY <5>1, <5>2
      <4>2. \A i : ~(i \in first .. first + 0 - 1) /\ ~(i \in call.pos .. call.pos + 0 - 1)
        BY <2>2, <2>a
      <4> QED BY <2>1, <3>2, <4>1, <4>2 DEF Stored
    <3> QED BY <3>1, <3>2
  <2>9. call.op = "read" => Loaded(call, first)
    <3>1. CASE first = call.pos
      BY <2>1, <3>1
    <3>2. CASE first # call.pos /\ call.op = "read"
      <4>1. call.counter = 0
        <5>1. CASE call.state = "refused"
          BY <2>1, <5>1 DEF CallFacts
        <5>2. CASE call.state # "refused"
          <6>1. first = Size(call.drive) /\ first <= call.pos
            BY <2>6, <3>2, <5>2
          <6>2. call.counter > 0 =>
                  call.drive \in Mounted /\ call.pos + call.counter <= Len(call.image0[call.drive])
            BY <2>1, <3>2 DEF WithinDisk
          <6> QED BY <2>2, <2>4, <2>5, <6>1, <6>2
        <5> QED BY <5>1, <5>2
      <4>2. \A a : ~(a \in call.buf .. call.buf + 0 - 1)
        BY <2>2
      <4> QED BY <2>1, <3>2, <4>1, <4>2 DEF Loaded
    <3> QED BY <3>1, <3>2
  <2> QED BY <2>1, <2>7, <2>8, <2>9 DEF CallExact, Stored, Loaded, Ended, CallFacts, first
<1> QED
  BY <1>1, DiskInvariant, PTL

\* The three bytes make the address they were taken from.
LEMMA AddressMade ==
  ASSUME NEW a \in FdcBuffers, dma \in Channels, ~dma.flip
  PROVE  Address(WriteAddr(WriteAddr(SetPage(dma, (a \div Base) \div Base), a % Base),
                           (a \div Base) % Base)) = a
<1> DEFINE t == a \div Base
           hi == t \div Base
           mid == t % Base
           lo == a % Base
           m0 == SetPage(dma, hi)
           m1 == WriteAddr(m0, lo)
           m2 == WriteAddr(m1, mid)
           mb == mid * Base
           bb == Base * Base
<1>1. a \in Nat /\ Base \in Nat \ {0}
  BY DriverAssumption, FloppyAssumption, ImagesAssumption DEF Cells
<1>2. t \in Nat /\ lo \in 0 .. Base - 1 /\ a = t * Base + lo
  BY <1>1, Division
<1> HIDE DEF t, lo
<1>3. hi \in Nat /\ mid \in 0 .. Base - 1 /\ t = hi * Base + mid
  BY <1>1, <1>2, Division
<1> HIDE DEF hi, mid
<1>4. m0 \in Channels /\ ~m0.flip /\ m0.page = hi
  BY <1>3 DEF SetPage, Channels
<1> HIDE DEF m0
<1>5. m1 \in Channels /\ m1.flip /\ m1.page = hi /\ m1.addr = lo
  <2>1. m1 = [m0 EXCEPT !.addr = lo, !.flip = TRUE]
    BY <1>4 DEF WriteAddr, Channels
  <2>2. lo \in Nat
    BY <1>1, <1>2
  <2> QED BY <1>4, <2>1, <2>2 DEF Channels
<1> HIDE DEF m1
<1>6. mb \in Nat /\ lo + mb < bb /\ bb \in Nat \ {0}
  <2>1. mb <= (Base - 1) * Base
    BY <1>1, <1>3
  <2>2. (Base - 1) * Base = bb - Base
    BY <1>1
  <2>3. mb \in Nat /\ bb \in Nat \ {0}
    BY <1>1, <1>3
  <2> HIDE DEF mb, bb
  <2> QED BY <1>1, <1>2, <2>1, <2>2, <2>3
<1>7. (m1.addr + mb) % bb = lo + mb
  <2> HIDE DEF mb, bb
  <2>1. lo + mb \in 0 .. bb - 1
    BY <1>2, <1>6
  <2> QED BY <1>5, <1>6, <2>1
<1>8. m2.page = hi /\ m2.addr = lo + mb
  BY <1>5, <1>7 DEF WriteAddr, Channels
<1>9. Address(m2) = (hi * Base) * Base + (lo + mb)
  <2>1. Address(m2) = (m2.page * Base * Base) + m2.addr
    BY DEF Address
  <2> HIDE DEF m2, mb
  <2> QED BY <1>8, <2>1
<1>10. t * Base = (hi * Base) * Base + mb
  <2> DEFINE hb == hi * Base
  <2>1. hb \in Nat /\ t = hb + mid
    BY <1>1, <1>3
  <2> HIDE DEF hb
  <2>2. (hb + mid) * Base = hb * Base + mid * Base
    BY <1>1, <1>3, <2>1
  <2> QED BY <2>1, <2>2 DEF hb
<1>11. Address(m2) = a
  <2> DEFINE hbb == (hi * Base) * Base
             tb == t * Base
  <2>1. hbb \in Nat /\ tb \in Nat
    BY <1>1, <1>2, <1>3
  <2>2. tb = hbb + mb /\ Address(m2) = hbb + (lo + mb) /\ a = tb + lo
    BY <1>2, <1>9, <1>10
  <2> HIDE DEF hbb, tb, mb, m2
  <2> QED BY <1>2, <1>6, <2>1, <2>2
<1> QED
  BY <1>11 DEF m2, m1, m0, hi, mid, lo, t

\* Of what the driver sends, only a READ is one.
LEMMA NotReading ==
  /\ \A c \in Simple : SimplePacket(c)[1] # READ
  /\ \A c : SeekPacket(c)[1] # READ
<1>1. ASSUME NEW c \in Simple PROVE SimplePacket(c)[1] # READ
  <2>1. SimplePacket(c)[1] = c
    BY DEF SimplePacket, PacketLength, Simple
  <2> QED
    BY <2>1 DEF Simple, READ, WRITE, RECALIBRATE, SENSEI, SPECIFY, CONFIGURE, PERPENDICULAR,
           GETSTATUS, DUMPREGS, UNLOCK, PARTID
<1> QED
  BY <1>1 DEF SeekPacket, SEEK, READ

\* What the controller takes for the sector of a place is the sector of that
\* place, and the place in its results is the next.
LEMMA SectorOfPlace ==
  ASSUME ImagesInv, NEW p \in ReadPlaces
  PROVE  LET n == Position(NHead, NSector, p)
             q == NextPlace(NHead, NSector, p)
             r == Rank(0, p)
         IN  /\ CanRead(0, n) <=> 0 \in Mounted /\ r < Len(image[0])
             /\ CanRead(0, n) => /\ n = r /\ q.h < HeadsOf(0) /\ q.s \in 1 .. SptOf(0)
                                 /\ Rank(0, q) = r + 1
<1> DEFINE n == Position(NHead, NSector, p)
           q == NextPlace(NHead, NSector, p)
<1>1. NHead = HeadsOf(0) /\ NSector = SptOf(0)
  BY DiskAssumption DEF HeadsOf, SptOf
<1>2. p \in SpotsOf(0)
  BY <1>1, ReadPlaceFacts DEF SpotsOf, Spots
<1>3. n = Number(0, p) /\ q = NextPlace(HeadsOf(0), SptOf(0), p)
  BY <1>1 DEF Number
<1>4. /\ n \in Nat /\ (p \in PlacesOf(0) <=> n < Size(0))
      /\ q \in SpotsOf(0) /\ Number(0, q) = n + 1
  BY <1>2, <1>3, Numbering
<1>5. q \in PlacesOf(0) <=> n + 1 < Size(0)
  BY <1>4, Numbering
<1>6. Rank(0, p) = IF p \in PlacesOf(0) THEN n ELSE Size(0)
  BY <1>2, <1>3, Ranking
<1>7. Rank(0, q) = IF q \in PlacesOf(0) THEN n + 1 ELSE Size(0)
  BY <1>4, Ranking
<1>8. q.h < HeadsOf(0) /\ q.s \in 1 .. SptOf(0)
  BY <1>4, Geometry DEF SpotsOf, Spots
<1>9. 0 \in Mounted => Len(image[0]) \in Nat /\ Len(image[0]) <= Size(0)
  BY DEF ImagesInv, ImagesTypeOK
<1>10. Size(0) \in Nat
  BY Geometry
<1>11. CanRead(0, n) <=> 0 \in Mounted /\ n < Len(image[0])
  BY <1>4 DEF CanRead
<1> HIDE DEF n, q
<1>12. CanRead(0, n) <=> 0 \in Mounted /\ Rank(0, p) < Len(image[0])
  BY <1>4, <1>6, <1>9, <1>10, <1>11
<1>13. CanRead(0, n) => n = Rank(0, p) /\ Rank(0, q) = Rank(0, p) + 1
  BY <1>4, <1>5, <1>6, <1>7, <1>9, <1>10, <1>11
<1> QED
  BY <1>8, <1>12, <1>13 DEF n, q

\* The last byte of a READ: its sector is in the buffer, and the results tell it.
LEMMA ReadExecuted ==
  ASSUME DriverInv, ImagesInv, SendByte, drv.sent + 1 = Len(drv.packet), drv.packet[1] = READ,
         Address(dma) = drv.to, drv.to \in Cells
  PROVE  \E p \in ReadPlaces :
           LET n == Position(NHead, NSector, p)
               q == IF CanRead(0, n) THEN NextPlace(NHead, NSector, p) ELSE p
           IN  /\ drv.packet = ReadPacket(p) /\ image' = image
               /\ fdc'.fifo[3] = q.c /\ fdc'.fifo[4] = q.h /\ fdc'.fifo[5] = q.s
               /\ memory' = [memory EXCEPT ![drv.to] = IF CanRead(0, n) THEN SectorAt(0, n) ELSE Junk]
<1> DEFINE p == drv.packet
           f == Put(fdc, p[drv.sent + 1])
<1>1. /\ f \in Controllers
      /\ \A i \in 1 .. drv.sent + 1 : f.fifo[i - 1] = p[i]
      /\ f.fifo[0] = p[1] /\ Complete(f)
  BY NextByte DEF SendByte
<1>2. p \in Packets /\ WriteFifo(p[drv.sent + 1])
  BY DEF SendByte, DriverInv, Control, Outgoing
<1>3. PICK r \in ReadPlaces : p = ReadPacket(r)
  BY <1>2, ReadPackets
<1>4. Len(p) = 9 /\ p[1] = READ /\ p[3] = r.c /\ p[4] = r.h /\ p[5] = r.s
  BY <1>3, ReadPlaceFacts DEF ReadPacket
<1>a. ExecuteRead(f) /\ image' = image
  BY <1>1, <1>2 DEF WriteFifo
<1> HIDE DEF f
<1>5. f.fifo[2] = r.c /\ f.fifo[3] = r.h /\ f.fifo[4] = r.s
  <2>1. 3 \in 1 .. drv.sent + 1 /\ 4 \in 1 .. drv.sent + 1 /\ 5 \in 1 .. drv.sent + 1
    BY <1>4
  <2>2. f.fifo[3 - 1] = p[3] /\ f.fifo[4 - 1] = p[4] /\ f.fifo[5 - 1] = p[5]
    BY <2>1, <1>1
  <2> QED
    BY <2>2, <1>4
<1>6. Wanted(f) = r
  BY <1>5, ReadPlaceFacts DEF Wanted
<1> DEFINE n == Position(NHead, NSector, r)
           q == IF CanRead(0, n) THEN NextPlace(NHead, NSector, r) ELSE r
           v == IF CanRead(0, n) THEN SectorAt(0, n) ELSE Junk
<1>7. fdc' = ReadResults(Answering(f), q) /\ memory' = [memory EXCEPT ![Address(dma)] = v]
  BY <1>a, <1>6 DEF ExecuteRead
<1>8. q.c \in Byte /\ q.h \in Byte /\ q.s \in Byte
  BY ReadPlaceFacts
<1> HIDE DEF q, v
<1>9. fdc'.fifo[3] = q.c /\ fdc'.fifo[4] = q.h /\ fdc'.fifo[5] = q.s
  BY <1>1, <1>4, <1>7, <1>8, ReadFields
<1>10. memory' = [memory EXCEPT ![drv.to] = v]
  BY <1>7
<1> QED
  BY <1>3, <1>9, <1>10, <1>a DEF q, v

\* While a READ is sent, the channel holds the address of its buffer.
ReadInv ==
  /\ drv.phase = "send" /\ Reading(drv) => Address(dma) = drv.to /\ drv.to \in Cells
  /\ ReadDelivers

\* A step after which the driver waits for no READ.
LEMMA NoRead ==
  ASSUME ~Reading(drv)'
  PROVE  ReadInv'
BY DEF ReadInv, ReadDelivers

\* A step of the driver keeps the READ it is about exact.
LEMMA ReadStep ==
  ASSUME DriverInv, ImagesInv, ReadInv, DriverNext
  PROVE  ReadInv'
<1>0. drv \in Drivers /\ image' = image /\ fdc \in Controllers
  BY DriverMemory DEF DriverInv, FloppyTypeOK
<1>1. ASSUME NEW ph, NEW due, Leave(ph, due) PROVE ~Reading(drv)'
  <2>1. drv' = [drv EXCEPT !.phase = ph, !.packet = NoPacket, !.sent = 0, !.due = due, !.to = 0]
    BY <1>1 DEF Leave
  <2>2. drv'.packet = NoPacket
    BY <1>0, <2>1 DEF Drivers
  <2> QED BY <2>2 DEF Reading
<1>2. CASE StartSimple
  <2>1. PICK p \in {SimplePacket(c) : c \in Simple} \cup {SeekPacket(c) : c \in SeekCylinders} :
          drv' = [drv EXCEPT !.phase = "send", !.packet = p, !.to = 0]
    BY <1>2 DEF StartSimple, StartPacket
  <2>2. p[1] # READ
    BY NotReading
  <2>3. drv'.packet = p
    BY <1>0, <2>1 DEF Drivers
  <2> QED BY <2>2, <2>3, NoRead DEF Reading
<1>3. CASE StartRead
  <2>1. PICK p \in ReadPlaces, a \in FdcBuffers :
          /\ dma' = WriteAddr(WriteAddr(SetPage(dma, (a \div Base) \div Base), a % Base),
                              (a \div Base) % Base)
          /\ StartPacket(ReadPacket(p), a)
    BY <1>3 DEF StartRead
  <2>2. dma \in Channels /\ ~dma.flip /\ a \in Cells
    BY DriverAssumption DEF DriverInv, FloppyTypeOK
  <2>3. Address(dma') = a
    <3> DEFINE m == WriteAddr(WriteAddr(SetPage(dma, (a \div Base) \div Base), a % Base),
                              (a \div Base) % Base)
    <3>1. Address(m) = a
      BY <2>2, AddressMade
    <3> HIDE DEF m
    <3> QED BY <2>1, <3>1 DEF m
  <2>4. drv'.phase = "send" /\ drv'.to = a
    BY <1>0, <2>1 DEF StartPacket, Drivers
  <2>5. Address(dma)' = a
    BY <2>3 DEF Address
  <2> QED BY <2>2, <2>4, <2>5 DEF ReadInv, ReadDelivers
<1>4. CASE SendByte
  <2>0. drv.phase = "send" /\ dma' = dma /\ drv.packet \in Packets /\ drv.packet # NoPacket
    BY <1>4, PacketFacts DEF SendByte, WriteFifo, DriverInv, Control, Outgoing
  <2> DEFINE d == [drv EXCEPT !.sent = drv.sent + 1]
  <2>1. d.packet = drv.packet /\ d.phase = drv.phase /\ d.to = drv.to /\ d.sent = drv.sent + 1
    BY <1>0 DEF Drivers
  <2>2. CASE drv.sent + 1 # Len(drv.packet)
    <3>1. drv' = d
      BY <1>4, <2>1, <2>2 DEF SendByte
    <3> HIDE DEF d
    <3>2. drv'.packet = drv.packet /\ drv'.phase = drv.phase /\ drv'.to = drv.to
      BY <2>1, <3>1
    <3> QED BY <2>0, <3>2 DEF ReadInv, ReadDelivers, Reading, Address
  <2>3. CASE drv.sent + 1 = Len(drv.packet)
    <3>1. drv' = AfterPacket(d)
      BY <1>4, <2>1, <2>3 DEF SendByte
    <3>2. CASE drv.packet[1] # READ
      <4>1. drv'.packet \in {drv.packet, NoPacket}
        BY <1>0, <2>1, <3>1 DEF AfterPacket, Drivers
      <4> QED BY <3>2, <4>1, NoRead DEF Reading
    <3>3. CASE drv.packet[1] = READ
      <4>1. Reading(drv) /\ Address(dma) = drv.to /\ drv.to \in Cells
        BY <2>0, <3>3 DEF Reading, ReadInv
      <4>2. PICK p \in ReadPlaces :
              LET n == Position(NHead, NSector, p)
                  q == IF CanRead(0, n) THEN NextPlace(NHead, NSector, p) ELSE p
              IN  /\ drv.packet = ReadPacket(p) /\ image' = image
                  /\ fdc'.fifo[3] = q.c /\ fdc'.fifo[4] = q.h /\ fdc'.fifo[5] = q.s
                  /\ memory' = [memory EXCEPT ![drv.to] =
                                   IF CanRead(0, n) THEN SectorAt(0, n) ELSE Junk]
        BY <1>4, <2>3, <3>3, <4>1, ReadExecuted
      <4> DEFINE n == Position(NHead, NSector, p)
                 x == NextPlace(NHead, NSector, p)
                 r == Rank(0, p)
      <4>3. /\ CanRead(0, n) <=> 0 \in Mounted /\ r < Len(image[0])
            /\ CanRead(0, n) => /\ n = r /\ x.h < HeadsOf(0) /\ x.s \in 1 .. SptOf(0)
                                /\ Rank(0, x) = r + 1
        BY SectorOfPlace
      <4>4. drv'.phase = "wait" /\ drv'.packet = drv.packet /\ drv'.to = drv.to
        <5>1. Promised(READ) = 7 /\ READ \in Interrupting
          BY DEF Promised, Interrupting
        <5>2. drv' = [d EXCEPT !.due = 7, !.sent = 0, !.packet = drv.packet, !.phase = "wait"]
          <6>1. d.packet = drv.packet /\ d.packet[1] = READ /\ 7 > 0
            BY <2>1, <3>3
          <6> HIDE DEF d
          <6>2. drv' = [d EXCEPT !.due = Promised(READ), !.sent = 0,
                           !.packet = IF Promised(READ) > 0 THEN d.packet ELSE NoPacket,
                           !.phase = IF READ \in Interrupting THEN "wait"
                                     ELSE IF Promised(READ) > 0 THEN "results" ELSE "idle"]
            BY <3>1, <6>1 DEF AfterPacket
          <6> QED BY <5>1, <6>1, <6>2
        <5> QED BY <1>0, <5>2 DEF Drivers
      <4>5. Asked(drv') = p
        BY <4>2, <4>4, ReadPlaceFacts DEF Asked
      <4> DEFINE y == [c |-> fdc'.fifo[3], h |-> fdc'.fifo[4], s |-> fdc'.fifo[5]]
      <4>6. y = IF CanRead(0, n) THEN x ELSE p
        <5>1. x = [c |-> x.c, h |-> x.h, s |-> x.s]
          BY DEF NextPlace
        <5>2. p = [c |-> p.c, h |-> p.h, s |-> p.s]
          BY ReadPlaceFacts
        <5> HIDE DEF x, n
        <5> QED BY <4>2, <5>1, <5>2 DEF x, n
      <4>7. CanRead(0, n) => memory'[drv'.to] = image'[0][r + 1]
        <5>1. memory \in [Cells -> Values]
          BY DEF ImagesInv, ImagesTypeOK
        <5> QED BY <4>1, <4>2, <4>3, <4>4, <5>1, <1>0 DEF SectorAt
      <4>8. IF 0 \in Mounted /\ r < Len(image'[0])
            THEN /\ memory'[drv'.to] = image'[0][r + 1]
                 /\ y.h < HeadsOf(0) /\ y.s \in 1 .. SptOf(0) /\ Rank(0, y) = r + 1
            ELSE y = p
        <5> HIDE DEF x, n, r, y
        <5>1. image' = image
          BY <1>0
        <5> QED BY <4>3, <4>6, <4>7, <5>1
      <4>9. ReadDelivers'
        BY <4>5, <4>8 DEF ReadDelivers, Asked
      <4> QED BY <4>4, <4>9 DEF ReadInv
    <3> QED BY <3>2, <3>3
  <2> QED BY <2>2, <2>3
<1>5. CASE ReadResult
  <2>1. CASE drv.due = 1
    BY <1>1, <1>5, <2>1, NoRead DEF ReadResult
  <2>2. CASE drv.due # 1
    <3>1. /\ drv' = [drv EXCEPT !.due = drv.due - 1] /\ memory' = memory /\ drv.phase = "results"
          /\ fdc' = [fdc EXCEPT !.cnt = IF fdc.cnt < fdc.len THEN fdc.cnt + 1 ELSE fdc.len]
      BY <1>5, <2>2 DEF ReadResult, ReadFifo
    <3>2. drv'.phase = drv.phase /\ drv'.packet = drv.packet /\ drv'.to = drv.to
      BY <1>0, <3>1 DEF Drivers
    <3>3. fdc'.fifo = fdc.fifo
      BY <1>0, <3>1 DEF Controllers
    <3> QED BY <1>0, <3>1, <3>2, <3>3 DEF ReadInv, ReadDelivers, Reading, Asked
  <2> QED BY <2>1, <2>2
<1>6. CASE TakeIrq
  <2>1. fdc' = [fdc EXCEPT !.irq = FALSE] /\ memory' = memory /\ drv.phase \in {"wait", "reset"}
    BY <1>6 DEF TakeIrq, TakeRequest, DriverInv, IrqExact
  <2>2. fdc'.fifo = fdc.fifo
    BY <1>0, <2>1 DEF Controllers
  <2>3. PICK ph \in {"results", "idle", "taken"} :
          /\ drv' = [drv EXCEPT !.phase = ph]
          /\ ph = "results" => drv.phase = "wait"
    BY <1>6, <2>1 DEF TakeIrq
  <2>4. drv'.phase = ph /\ drv'.packet = drv.packet /\ drv'.to = drv.to
    BY <1>0, <2>3 DEF Drivers
  <2> QED BY <1>0, <2>1, <2>2, <2>3, <2>4 DEF ReadInv, ReadDelivers, Reading, Asked
<1>7. CASE EnterReset \/ LeaveReset \/ ResetByRate
  <2>1. \E ph, due : Leave(ph, due)
    BY <1>7 DEF EnterReset, LeaveReset, ResetByRate
  <2> QED BY <1>1, <2>1, NoRead
<1>8. CASE Motor
  BY <1>8 DEF Motor, ReadInv, ReadDelivers
<1> QED
  BY <1>2, <1>3, <1>4, <1>5, <1>6, <1>7, <1>8 DEF DriverNext

\* What is known of a READ is inductive beside the invariant of the disk.
LEMMA ReadInductive == DiskInv /\ ReadInv /\ [Next]_vars => ReadInv'
<1> SUFFICES ASSUME DiskInv, ReadInv, [Next]_vars PROVE ReadInv'
  OBVIOUS
<1>1. CASE UNCHANGED vars
  BY <1>1 DEF vars, ReadInv, ReadDelivers, Reading, Asked, Address
<1>2. CASE /\ drv.phase = "off" \/ (Mixed /\ drv.phase = "idle")
           /\ Int13Next /\ UNCHANGED <<fdc, dma, drv>>
  BY <1>2 DEF ReadInv, ReadDelivers
<1>3. CASE call = Idle /\ DriverNext /\ UNCHANGED <<call, writes>>
  BY <1>3, ReadStep DEF DiskInv
<1> QED
  BY <1>1, <1>2, <1>3 DEF Next

\* What is known of a READ holds in every state.
LEMMA ReadInvariant == Spec => [](DiskInv /\ ReadInv)
<1>1. Init => DiskInv /\ ReadInv
  <2>1. ASSUME Init PROVE ~Reading(drv) /\ drv.phase = "off"
    BY <2>1 DEF Init, DriverInit, Reading
  <2> QED BY <2>1, DiskInit0 DEF ReadInv, ReadDelivers
<1> QED
  BY <1>1, DiskInductive, ReadInductive, PTL DEF Spec

\* When the driver is told that a READ is complete, its buffer holds the sector it
\* asked for and the results name the next one; a place that has not moved tells
\* that there is no such sector (dev_FDC.c:14-33, 178-219).
THEOREM ReadDeliversHolds == Spec => []ReadDelivers
<1>1. ReadInv => ReadDelivers
  BY DEF ReadInv
<1> QED
  BY <1>1, ReadInvariant, PTL

-----------------------------------------------------------------------------
(***************************************************************************)
(* The disk of sectors.                                                    *)
(***************************************************************************)
\* The places of a drive are those of the abstract disk.
LEMMA SamePlaces ==
  ASSUME NEW d \in Drives
  PROVE  Sectors!PlacesOf(d) = PlacesOf(d)
BY DEF Sectors!PlacesOf, PlacesOf, Sectors!Places, Places

\* What the view of a drive shows.
LEMMA ViewFacts ==
  ASSUME ImagesInv, NEW d \in Drives
  PROVE  /\ DiskView[d] \in [PlacesOf(d) -> Values \cup {None}]
         /\ \A p \in PlacesOf(d) :
              /\ DiskView[d][p] = IF d \in Mounted /\ Number(d, p) < Len(image[d])
                                  THEN image[d][Number(d, p) + 1] ELSE None
              /\ Sectors!Stored(d, p) <=> d \in Mounted /\ Number(d, p) < Len(image[d])
<1> DEFINE v == [p \in PlacesOf(d) |-> IF d \in Mounted /\ Number(d, p) < Len(image[d])
                                       THEN image[d][Number(d, p) + 1] ELSE None]
<1>1. DiskView[d] = v
  BY DEF DiskView, SectorAt, Number
<1>2. ASSUME NEW p \in PlacesOf(d), d \in Mounted, Number(d, p) < Len(image[d])
      PROVE  image[d][Number(d, p) + 1] \in Values
  <2>1. Number(d, p) \in Nat
    BY PlacesAreSpots, Numbering
  <2>2. image[d] \in Seq(Values)
    BY <1>2 DEF ImagesInv, ImagesTypeOK
  <2>3. Number(d, p) + 1 \in 1 .. Len(image[d])
    BY <1>2, <2>1, <2>2
  <2> QED BY <2>2, <2>3, ElementOfSeq
<1>3. v \in [PlacesOf(d) -> Values \cup {None}]
  BY <1>2
<1>4. ASSUME NEW p \in PlacesOf(d)
      PROVE  Sectors!Stored(d, p) <=> d \in Mounted /\ Number(d, p) < Len(image[d])
  BY <1>1, <1>2, SamePlaces, DiskAssumption DEF Sectors!Stored
<1> QED
  BY <1>1, <1>3, <1>4

\* At the start the disks are dense, and nothing is wanted.
LEMMA SectorsInit == Init => Sectors!Init
<1> SUFFICES ASSUME Init PROVE Sectors!Init
  OBVIOUS
<1>1. ImagesInv
  BY DiskInit0 DEF DiskInv
<1>2. DOMAIN DiskView = Drives
  BY DEF DiskView
<1>3. ASSUME NEW d \in Drives
      PROVE  DiskView[d] \in [Sectors!PlacesOf(d) -> Values \cup {None}] /\ Sectors!Dense(d)
  <2>1. DiskView[d] \in [PlacesOf(d) -> Values \cup {None}]
    BY <1>1, ViewFacts
  <2>2. ASSUME NEW p \in PlacesOf(d), NEW q \in PlacesOf(d),
               Sectors!Precedes(p, q), Sectors!Stored(d, q)
        PROVE  Sectors!Stored(d, p)
    <3>1. p \in SpotsOf(d) /\ q \in SpotsOf(d) /\ Precedes(p, q)
      BY <2>2, PlacesAreSpots DEF Sectors!Precedes, Precedes
    <3>2. Number(d, p) < Number(d, q) /\ Number(d, p) \in Nat /\ Number(d, q) \in Nat
      BY <3>1, Numbering
    <3>3. d \in Mounted /\ Number(d, q) < Len(image[d])
      BY <1>1, <2>2, ViewFacts
    <3>4. Len(image[d]) \in Nat
      BY <1>1, <3>3 DEF ImagesInv, ImagesTypeOK
    <3> QED BY <1>1, <3>2, <3>3, <3>4, ViewFacts
  <2>3. Sectors!Dense(d)
    BY <2>2, SamePlaces DEF Sectors!Dense
  <2> QED BY <2>1, <2>3, SamePlaces
<1>4. memory \in [Cells -> Values]
  BY <1>1 DEF ImagesInv, ImagesTypeOK
<1>5. Wanting = None
  BY DEF Init, Int13Init, DriverInit, Wanting
<1> QED
  BY <1>2, <1>3, <1>4, <1>5 DEF Sectors!Init

WantingOK == Wanting \in Sectors!Wants \cup {None}

\* What the guest waits for is a transfer of one sector.
LEMMA WantingType ==
  ASSUME DiskInv, ReadInv
  PROVE  WantingOK
<1> USE DEF WantingOK
<1>1. CASE call # Idle /\ call.state = "moving" /\ call.counter < call.n
  <2>1. Wanting = [op |-> IF call.op = "read" THEN "fetch" ELSE "store", drive |-> call.drive,
                   cell |-> call.buf + call.counter, place |-> call.place]
    BY <1>1 DEF Wanting
  <2>2. /\ call.drive \in Drives /\ call.place \in [c : Nat, h : Nat, s : Nat]
        /\ call.buf \in Nat /\ call.counter \in Nat /\ call.n \in Nat
        /\ call.buf + call.n <= MemSize /\ MemSize \in Nat
    BY <1>1, UnderWay DEF DiskInv
  <2>3. call.buf + call.counter \in Cells
    BY <1>1, <2>2 DEF Cells
  <2> QED BY <2>1, <2>2, <2>3 DEF Sectors!Wants
<1>2. CASE /\ ~(call # Idle /\ call.state = "moving" /\ call.counter < call.n)
           /\ drv.phase = "send" /\ Reading(drv)
  <2>1. Wanting = [op |-> "fetch", drive |-> 0, cell |-> drv.to, place |-> Asked(drv)]
    BY <1>2 DEF Wanting
  <2>2. drv.to \in Cells /\ drv.packet \in Packets
    BY <1>2 DEF ReadInv, DiskInv, DriverInv, Control, Outgoing
  <2>3. PICK r \in ReadPlaces : drv.packet = ReadPacket(r)
    BY <1>2, <2>2, ReadPackets DEF Reading
  <2>4. Asked(drv) \in [c : Nat, h : Nat, s : Nat]
    BY <2>3, ReadPlaceFacts DEF Asked, Byte
  <2>5. 0 \in Drives
    BY ImagesAssumption
  <2> QED BY <2>1, <2>2, <2>4, <2>5 DEF Sectors!Wants
<1>3. CASE /\ ~(call # Idle /\ call.state = "moving" /\ call.counter < call.n)
           /\ ~(drv.phase = "send" /\ Reading(drv))
  BY <1>3 DEF Wanting
<1> QED
  BY <1>1, <1>2, <1>3

\* What the guest does by itself.
LEMMA GuestStep ==
  ASSUME ImagesInv', image' = image,
         \A a \in Cells : memory'[a] \in {memory[a], Blank, Made[a]},
         Wanting' \in {None, Wanting} \/ (Wanting = None /\ Wanting' \in Sectors!Wants)
  PROVE  Sectors!Next
<1>1. memory' \in [Cells -> Values]
  BY DEF ImagesInv, ImagesTypeOK
<1>2. DiskView' = DiskView
  BY DEF DiskView, SectorAt
<1> QED
  BY <1>1, <1>2 DEF Sectors!Next, Sectors!Guest

\* The place a transfer goes on with is the next one.
LEMMA NextFollows ==
  ASSUME NEW d \in Drives, NEW p \in SpotsOf(d)
  PROVE  Sectors!Follows(d, p, NextPlace(HeadsOf(d), SptOf(d), p))
<1>1. /\ HeadsOf(d) \in Nat \ {0} /\ SptOf(d) \in Nat \ {0}
      /\ p.c \in Nat /\ p.h \in 0 .. HeadsOf(d) - 1 /\ p.s \in 1 .. SptOf(d)
  BY Geometry DEF SpotsOf, Spots
<1> DEFINE h == HeadsOf(d)
           s == SptOf(d)
<1>2. \/ p.s < s /\ NextPlace(h, s, p) = [c |-> p.c, h |-> p.h, s |-> p.s + 1]
      \/ p.s = s /\ p.h < h - 1 /\ NextPlace(h, s, p) = [c |-> p.c, h |-> p.h + 1, s |-> 1]
      \/ p.s = s /\ p.h = h - 1 /\ NextPlace(h, s, p) = [c |-> p.c + 1, h |-> 0, s |-> 1]
  <2> HIDE DEF h, s
  <2>0. h \in Nat \ {0} /\ s \in Nat \ {0} /\ p.c \in Nat /\ p.h \in 0 .. h - 1 /\ p.s \in 1 .. s
    BY <1>1 DEF h, s
  <2>1. CASE p.s < s
    BY <2>0, <2>1 DEF NextPlace
  <2>2. CASE p.s = s /\ p.h < h - 1
    BY <2>0, <2>2 DEF NextPlace
  <2>3. CASE p.s = s /\ p.h = h - 1
    BY <2>0, <2>3 DEF NextPlace
  <2> QED BY <2>0, <2>1, <2>2, <2>3
<1> QED
  BY <1>2 DEF Sectors!Follows

\* All that the refinement of the disk of sectors rests on.
LEMMA ViewInvariant == Spec => [](DiskInv /\ ReadInv /\ WantingOK)
<1>1. DiskInv /\ ReadInv => WantingOK
  BY WantingType
<1> QED
  BY <1>1, ReadInvariant, PTL

\* What a call that moves sectors waits for.
LEMMA CallWants ==
  ASSUME DiskInv, call # Idle, call.state = "moving", call.counter < call.n
  PROVE  /\ Wanting # None
         /\ Wanting.op = (IF call.op = "read" THEN "fetch" ELSE "store")
         /\ Wanting.drive = call.drive /\ Wanting.cell = call.buf + call.counter
         /\ Wanting.place = call.place /\ call.place \in SpotsOf(call.drive)
         /\ Number(call.drive, call.place) = call.pos + call.counter
         /\ call.drive \in Drives /\ call.pos \in Nat /\ call.counter \in Nat
         /\ call.op = "write" => call.place \in PlacesOf(call.drive)
<1>1. Wanting = [op |-> IF call.op = "read" THEN "fetch" ELSE "store", drive |-> call.drive,
                 cell |-> call.buf + call.counter, place |-> call.place]
  BY DEF Wanting
<1>2. /\ CallFacts(call) /\ call.drive \in Drives /\ call.place \in [c : Nat, h : Nat, s : Nat]
      /\ call.buf \in Nat /\ call.counter \in Nat /\ call.n \in Nat /\ call.pos \in Nat
      /\ call.buf + call.n <= MemSize /\ MemSize \in Nat
  BY UnderWay DEF DiskInv
<1>3. call.buf + call.counter \in Cells
  BY <1>2 DEF Cells
<1>4. Wanting # None
  BY <1>1, <1>2, <1>3, DiskAssumption
<1>5. /\ call.place \in SpotsOf(call.drive)
      /\ Number(call.drive, call.place) = call.pos + call.counter
      /\ call.op = "write" => call.pos + call.n <= Size(call.drive)
  BY <1>2 DEF CallFacts
<1>6. call.op = "write" => call.place \in PlacesOf(call.drive)
  BY <1>2, <1>5, Numbering, Geometry
<1> QED
  BY <1>1, <1>2, <1>4, <1>5, <1>6

\* A sector is read: the cell gets what the view shows at the place.
LEMMA FetchStep ==
  ASSUME DiskInv, call # Idle, call.state = "moving", call.counter < call.n,
         call.op = "read", Transfer
  PROVE  /\ Wanting.op = "fetch" /\ Sectors!Stored(Wanting.drive, Wanting.place)
         /\ memory' = [memory EXCEPT ![Wanting.cell] = DiskView[Wanting.drive][Wanting.place]]
         /\ DiskView' = DiskView
<1> DEFINE d == call.drive
           m == call.pos + call.counter
           p == call.place
<1>1. /\ Wanting.op = "fetch" /\ Wanting.drive = d /\ Wanting.cell = call.buf + call.counter
      /\ Wanting.place = p /\ p \in SpotsOf(d) /\ Number(d, p) = m /\ d \in Drives /\ m \in Nat
  BY CallWants
<1>2. CanRead(d, m) /\ image' = image
      /\ memory' = [memory EXCEPT ![call.buf + call.counter] = SectorAt(d, m)]
  BY DEF Transfer, EmuRead
<1>3. d \in Mounted /\ m < Len(image[d])
  BY <1>2 DEF CanRead
<1>4. Len(image[d]) \in Nat /\ Len(image[d]) <= Size(d) /\ ImagesInv
  BY <1>3 DEF DiskInv, ImagesInv, ImagesTypeOK
<1> HIDE DEF d, m, p
<1>5. p \in PlacesOf(d)
  <2>1. Size(d) \in Nat
    BY Geometry
  <2>2. m < Size(d)
    BY <1>1, <1>3, <1>4, <2>1
  <2> QED BY <1>1, <2>2, Numbering
<1>6. Sectors!Stored(d, p) /\ DiskView[d][p] = image[d][m + 1]
  BY <1>1, <1>3, <1>4, <1>5, ViewFacts
<1>7. DiskView' = DiskView
  BY <1>2 DEF DiskView, SectorAt
<1> QED
  BY <1>1, <1>2, <1>6, <1>7 DEF SectorAt

\* A sector is written: the view shows it, and zeros in front of it where there
\* was nothing.
LEMMA StoreStep ==
  ASSUME DiskInv, call # Idle, call.state = "moving", call.counter < call.n,
         call.op = "write", Transfer
  PROVE  /\ Wanting.op = "store" /\ Wanting.place \in Sectors!PlacesOf(Wanting.drive)
         /\ DiskView' = [DiskView EXCEPT ![Wanting.drive] =
              [q \in Sectors!PlacesOf(Wanting.drive) |->
                 IF q = Wanting.place THEN memory[Wanting.cell]
                 ELSE IF ~Sectors!Stored(Wanting.drive, q) /\ Sectors!Precedes(q, Wanting.place)
                 THEN Zero ELSE DiskView[Wanting.drive][q]]]
         /\ memory' = memory
<1> DEFINE d == call.drive
           m == call.pos + call.counter
           p == call.place
           x == call.buf + call.counter
           v == memory[x]
<1>1. /\ Wanting.op = "store" /\ Wanting.drive = d /\ Wanting.cell = x
      /\ Wanting.place = p /\ p \in SpotsOf(d) /\ Number(d, p) = m /\ d \in Drives /\ m \in Nat
      /\ p \in PlacesOf(d)
  BY CallWants
<1>2. CanWrite(d, m) /\ memory' = memory /\ image' = [image EXCEPT ![d] = Written(image[d], m, v)]
  BY DEF Transfer, EmuWrite
<1>3. d \in Mounted /\ ImagesInv /\ ImagesInv'
  BY <1>2, WriteTransfer DEF CanWrite, DiskInv
<1>4. image \in [Mounted -> Seq(Values)] /\ memory \in [Cells -> Values]
  BY <1>3 DEF ImagesInv, ImagesTypeOK
<1>5. x \in Cells
  <2>1. /\ call.buf \in Nat /\ call.counter \in Nat /\ call.n \in Nat
        /\ call.buf + call.n <= MemSize /\ MemSize \in Nat
    BY UnderWay DEF DiskInv
  <2> QED BY <2>1 DEF Cells
<1>6. image[d] \in Seq(Values) /\ v \in Values
  BY <1>3, <1>4, <1>5
<1> DEFINE img == image[d]
           new == image'[d]
<1> HIDE DEF d, m, p, x, v
<1>7. new = Written(img, m, v) /\ \A e \in Mounted \ {d} : image'[e] = image[e]
  BY <1>2, <1>3, <1>4
<1>8. img \in Seq(Values)
  BY <1>6
<1> HIDE DEF img, new
<1>9. /\ Len(new) = Longer(Len(img), m + 1)
      /\ \A i \in 0 .. Longer(Len(img), m + 1) - 1 :
           new[i + 1] = IF i = m THEN v ELSE IF i < Len(img) THEN img[i + 1] ELSE Zero
  <2>0. img \in Seq(Values) /\ m \in Nat /\ v \in Values
    BY <1>1, <1>6, <1>8
  <2>1. Len(Written(img, m, v)) = Longer(Len(img), m + 1)
    BY <2>0, WrittenFacts
  <2>2. \A i \in 0 .. Longer(Len(img), m + 1) - 1 :
          Written(img, m, v)[i + 1] =
            IF i = m THEN v ELSE IF i < Len(img) THEN img[i + 1] ELSE Zero
    BY <2>0, WrittenFacts
  <2> QED BY <1>7, <2>1, <2>2
<1> DEFINE w == [q \in PlacesOf(d) |->
                   IF q = p THEN v
                   ELSE IF ~Sectors!Stored(d, q) /\ Precedes(q, p) THEN Zero ELSE DiskView[d][q]]
           u == [e \in Drives |->
                   [q \in PlacesOf(e) |->
                      IF e \in Mounted /\ Number(e, q) < Len(image'[e])
                      THEN image'[e][Number(e, q) + 1] ELSE None]]
<1>10. DiskView' = u
  BY DEF DiskView, SectorAt, Number
<1>11. ASSUME NEW q \in PlacesOf(d) PROVE u[d][q] = w[q]
  <2>1. u[d][q] = IF Number(d, q) < Len(new) THEN new[Number(d, q) + 1] ELSE None
    BY <1>1, <1>3 DEF new
  <2>2. q \in SpotsOf(d)
    BY PlacesAreSpots
  <2>3. Number(d, q) \in Nat /\ (q = p <=> Number(d, q) = m)
        /\ (Precedes(q, p) <=> Number(d, q) < m)
    BY <1>1, <2>2, Numbering
  <2>4. /\ DiskView[d][q] = IF Number(d, q) < Len(img) THEN img[Number(d, q) + 1] ELSE None
        /\ Sectors!Stored(d, q) <=> Number(d, q) < Len(img)
    BY <1>1, <1>3, ViewFacts DEF img
  <2>5. w[q] = IF q = p THEN v
               ELSE IF ~Sectors!Stored(d, q) /\ Precedes(q, p) THEN Zero ELSE DiskView[d][q]
    OBVIOUS
  <2> DEFINE k == Number(d, q)
             l == Len(img)
  <2>6. l \in Nat /\ k \in Nat
    BY <1>8, <2>3
  <2>7. Len(new) = IF l >= m + 1 THEN l ELSE m + 1
    BY <1>9 DEF Longer
  <2>8. k < Len(new) =>
          new[k + 1] = IF k = m THEN v ELSE IF k < l THEN img[k + 1] ELSE Zero
    <3> SUFFICES ASSUME k < Len(new)
                 PROVE  new[k + 1] = IF k = m THEN v ELSE IF k < l THEN img[k + 1] ELSE Zero
      OBVIOUS
    <3> HIDE DEF k
    <3>1. k \in 0 .. Longer(Len(img), m + 1) - 1
      BY <1>1, <1>9, <2>6, <2>7
    <3> QED BY <1>9, <3>1
  <2> HIDE DEF k, l, w, u
  <2>9. u[d][q] = IF k < Len(new) THEN new[k + 1] ELSE None
    BY <2>1 DEF k
  <2>10. w[q] = IF k = m THEN v
                ELSE IF ~(k < l) /\ k < m THEN Zero
                ELSE IF k < l THEN img[k + 1] ELSE None
    BY <2>3, <2>4, <2>5 DEF k, l
  <2>11. CASE k = m
    BY <1>1, <2>6, <2>7, <2>8, <2>9, <2>10, <2>11
  <2>12. CASE k # m /\ k < l
    BY <1>1, <2>6, <2>7, <2>8, <2>9, <2>10, <2>12
  <2>13. CASE k # m /\ ~(k < l)
    BY <1>1, <2>6, <2>7, <2>8, <2>9, <2>10, <2>13
  <2> QED BY <2>11, <2>12, <2>13
<1>12. u[d] = w
  BY <1>1, <1>11
<1>13. ASSUME NEW e \in Drives \ {d} PROVE u[e] = DiskView[e]
  BY <1>7, <1>13 DEF DiskView, SectorAt, Number
<1> HIDE DEF w
<1>14. u = [DiskView EXCEPT ![d] = w]
  <2>1. DOMAIN u = Drives /\ DiskView = [e \in Drives |-> DiskView[e]] /\ u = [e \in Drives |-> u[e]]
    BY DEF DiskView
  <2> HIDE DEF u
  <2> QED BY <1>1, <1>12, <1>13, <2>1
<1>15. w = [q \in Sectors!PlacesOf(d) |->
              IF q = p THEN memory[x]
              ELSE IF ~Sectors!Stored(d, q) /\ Sectors!Precedes(q, p) THEN Zero ELSE DiskView[d][q]]
  <2>1. \A q : Sectors!Precedes(q, p) <=> Precedes(q, p)
    BY DEF Sectors!Precedes, Precedes
  <2>2. Sectors!PlacesOf(d) = PlacesOf(d)
    BY <1>1, SamePlaces
  <2> QED BY <2>1, <2>2 DEF w, v
<1>16. p \in Sectors!PlacesOf(d)
  BY <1>1, SamePlaces
<1>17. DiskView' = [DiskView EXCEPT ![d] = w]
  BY <1>10, <1>14
<1> QED
  BY <1>1, <1>2, <1>15, <1>16, <1>17

\* A transfer of a sector by a call of the BIOS.
LEMMA TransferStep ==
  ASSUME DiskInv, call # Idle, call.state = "moving", call.counter < call.n, Transfer,
         Sectors!GoesOn
  PROVE  Sectors!Next
<1>1. Wanting # None /\ call.op \in {"read", "write"}
  BY CallWants, UnderWay DEF DiskInv
<1>2. CASE call.op = "read"
  BY <1>1, <1>2, FetchStep DEF Sectors!Next, Sectors!Fetch
<1>3. CASE call.op = "write"
  BY <1>1, <1>3, StoreStep DEF Sectors!Next, Sectors!Store
<1> QED
  BY <1>1, <1>2, <1>3

\* A round of the loop of a handler is a transfer that goes on, or the last one.
LEMMA MoveRefines ==
  ASSUME DiskInv, WantingOK', MoveSector, drv' = drv, drv.phase # "send"
  PROVE  Sectors!Next
<1>1. /\ call.state = "moving" /\ call.counter < call.n /\ Transfer
      /\ call' = [call EXCEPT !.counter = call.counter + 1, !.torn = FALSE,
                    !.place = NextPlace(HeadsOf(call.drive), SptOf(call.drive), call.place)]
  BY DEF MoveSector
<1>2. call # Idle
  BY <1>1 DEF Idle
<1>3. /\ Wanting # None /\ Wanting.op = (IF call.op = "read" THEN "fetch" ELSE "store")
      /\ Wanting.drive = call.drive /\ Wanting.cell = call.buf + call.counter
      /\ Wanting.place = call.place /\ call.place \in SpotsOf(call.drive)
      /\ call.drive \in Drives /\ call.counter \in Nat
  BY <1>1, <1>2, CallWants
<1>4. call \in Transfers /\ call.buf \in Nat /\ call.n \in Nat
  BY <1>1, UnderWay DEF DiskInv
<1> DEFINE q == NextPlace(HeadsOf(call.drive), SptOf(call.drive), call.place)
           k == call.counter + 1
<1> HIDE DEF q, k
<1>5. /\ call'.state = "moving" /\ call'.counter = k /\ call'.n = call.n /\ call'.op = call.op
      /\ call'.drive = call.drive /\ call'.buf = call.buf /\ call'.place = q
  <2>1. call' = [call EXCEPT !.counter = k, !.torn = FALSE, !.place = q]
    BY <1>1 DEF q, k
  <2> QED BY <1>1, <1>4, <2>1 DEF Transfers
<1>6. Wanting' \in Sectors!Wants \cup {None}
  BY DEF WantingOK
<1>7. CASE Wanting' = None
  BY <1>1, <1>2, <1>7, TransferStep DEF Sectors!GoesOn
<1>8. CASE Wanting' # None
  <2>1. drv'.phase # "send" /\ call'.state = "moving"
    BY <1>5
  <2>2. Wanting' = [op |-> IF call'.op = "read" THEN "fetch" ELSE "store", drive |-> call'.drive,
                    cell |-> call'.buf + call'.counter, place |-> call'.place]
    BY <1>8, <2>1 DEF Wanting
  <2>3. /\ Wanting'.op = Wanting.op /\ Wanting'.drive = Wanting.drive
        /\ Wanting'.cell = Wanting.cell + 1 /\ Wanting'.place = q
    BY <1>3, <1>4, <1>5, <2>2 DEF k
  <2>4. Sectors!Follows(Wanting.drive, Wanting.place, q)
    BY <1>3, NextFollows DEF q
  <2>5. Sectors!GoesOn
    BY <1>6, <1>8, <2>3, <2>4 DEF Sectors!GoesOn
  <2> QED BY <1>1, <1>2, <2>5, TransferStep
<1> QED
  BY <1>7, <1>8

\* An interrupted transfer is made again.
LEMMA InterruptedRefines ==
  ASSUME DiskInv, MoveInterrupted, drv' = drv, drv.phase # "send"
  PROVE  Sectors!Next
<1>1. /\ call.state = "moving" /\ call.counter < call.n
      /\ call' = [call EXCEPT !.torn = TRUE]
  BY DEF MoveInterrupted
<1>2. call # Idle
  BY <1>1 DEF Idle
<1>3. call \in Transfers
  BY <1>1, UnderWay DEF DiskInv
<1>4. /\ call'.state = call.state /\ call'.counter = call.counter /\ call'.n = call.n
      /\ call'.op = call.op /\ call'.drive = call.drive /\ call'.buf = call.buf
      /\ call'.place = call.place
  BY <1>1, <1>3, TornFields
<1>5. call' # Idle
  BY <1>1, <1>4 DEF Idle
<1>6. Wanting' = Wanting
  BY <1>1, <1>2, <1>4, <1>5 DEF Wanting
<1>7. CASE Transfer
  BY <1>1, <1>2, <1>6, <1>7, TransferStep DEF Sectors!GoesOn
<1>8. CASE /\ call.op = "read" /\ CanRead(call.drive, call.pos + call.counter)
           /\ memory' = [memory EXCEPT ![call.buf + call.counter] = Junk]
           /\ UNCHANGED image
  <2>1. DiskView' = DiskView
    BY <1>8 DEF DiskView, SectorAt
  <2>2. Wanting # None /\ Wanting.op = "fetch" /\ Wanting.cell = call.buf + call.counter
    BY <1>1, <1>2, <1>8, CallWants
  <2> QED BY <1>6, <1>8, <2>1, <2>2 DEF Sectors!Next, Sectors!Spoil
<1> QED
  BY <1>7, <1>8 DEF MoveInterrupted

\* A call of the BIOS.
LEMMA CallRefines ==
  ASSUME DiskInv, DiskInv', WantingOK', Int13Next, drv' = drv, drv.phase # "send"
  PROVE  Sectors!Next
<1>0. Wanting' \in Sectors!Wants \cup {None} /\ ImagesInv'
  BY DEF DiskInv, WantingOK
<1>1. CASE \E b \in Numbers, n \in Counts, a \in Buffers :
             \/ \E p \in CallPlaces \cap PlacesOf(DriveOf(b)) : Ah02(b, p, n, a) \/ Ah03(b, p, n, a)
             \/ \E lba \in Lbas, sized \in BOOLEAN : Ah42(b, sized, lba, n, a)
  <2>1. PICK op, ok, d, pos, p, n, a : Begin(op, ok, d, pos, p, n, a)
    BY <1>1 DEF Ah02, Ah03, Ah42, ByPlace
  <2>2. /\ call.state = "none" /\ image' = image
        /\ memory' = [x \in Cells |->
                        IF op = "write" /\ x \in a .. a + n - 1 THEN Made[x] ELSE memory[x]]
    BY <2>1 DEF Begin
  <2>3. Wanting = None
    BY <2>2 DEF Wanting
  <2>4. \A x \in Cells : memory'[x] \in {memory[x], Blank, Made[x]}
    BY <2>2
  <2> QED BY <1>0, <2>2, <2>3, <2>4, GuestStep
<1>2. CASE MoveSector
  BY <1>2, MoveRefines
<1>3. CASE MoveInterrupted
  BY <1>3, InterruptedRefines
<1>4. CASE SectorFails \/ CallDone
  <2>1. image' = image /\ memory' = memory /\ call.state = "moving"
    BY <1>4 DEF SectorFails, CallDone
  <2>2. call \in Transfers
    BY <2>1, UnderWay DEF DiskInv
  <2>3. call'.state # "moving"
    BY <1>4, <2>2 DEF SectorFails, CallDone, Transfers
  <2>4. Wanting' = None
    BY <2>3 DEF Wanting
  <2> QED BY <1>0, <2>1, <2>4, GuestStep
<1>5. CASE Resume
  <2>1. call' = Idle /\ image' = image
        /\ memory' = [a \in Cells |->
                        IF a \in call.buf .. call.buf + call.n - 1 THEN Blank ELSE memory[a]]
    BY <1>5 DEF Resume
  <2>2. Wanting' = None
    BY <2>1 DEF Wanting
  <2>3. \A x \in Cells : memory'[x] \in {memory[x], Blank, Made[x]}
    BY <2>1
  <2> QED BY <1>0, <2>1, <2>2, <2>3, GuestStep
<1> QED
  BY <1>1, <1>2, <1>3, <1>4, <1>5 DEF Int13Next

\* What the driver does.
LEMMA DriverRefines ==
  ASSUME DiskInv, ReadInv, DiskInv', WantingOK', DriverNext, call = Idle, call' = Idle
  PROVE  Sectors!Next
<1>0. /\ Wanting' \in Sectors!Wants \cup {None} /\ ImagesInv /\ ImagesInv' /\ DriverInv
      /\ drv \in Drivers /\ memory \in [Cells -> Values]
  BY DEF WantingOK, DiskInv, DriverInv, ImagesInv, ImagesTypeOK
<1>1. image' = image
  BY <1>0, DriverMemory
<1>2. /\ Wanting = IF drv.phase = "send" /\ Reading(drv)
                   THEN [op |-> "fetch", drive |-> 0, cell |-> drv.to, place |-> Asked(drv)]
                   ELSE None
      /\ Wanting' = IF drv'.phase = "send" /\ Reading(drv')
                    THEN [op |-> "fetch", drive |-> 0, cell |-> drv'.to, place |-> Asked(drv')]
                    ELSE None
  BY DEF Wanting, Reading, Asked
<1>3. ASSUME NEW ph, NEW due, Leave(ph, due), ph # "send" PROVE Sectors!Next
  <2>1. drv' = [drv EXCEPT !.phase = ph, !.packet = NoPacket, !.sent = 0, !.due = due, !.to = 0]
    BY <1>3 DEF Leave
  <2>2. drv'.phase = ph
    BY <1>0, <2>1 DEF Drivers
  <2>3. Wanting' = None
    BY <1>2, <1>3, <2>2
  <2>4. \A x \in Cells : memory'[x] \in {memory[x], Blank, Made[x]}
    BY <1>0, <1>3 DEF Leave
  <2> QED BY <1>0, <1>1, <2>3, <2>4, GuestStep
<1>4. CASE StartSimple \/ StartRead
  <2>1. drv.phase = "idle" /\ memory' = memory
    BY <1>4 DEF StartSimple, StartRead
  <2>2. Wanting = None
    BY <1>2, <2>1
  <2> QED BY <1>0, <1>1, <2>1, <2>2, GuestStep
<1>5. CASE SendByte
  <2>0. drv.phase = "send" /\ drv.packet \in Packets /\ drv.packet # NoPacket
    BY <1>0, <1>5, PacketFacts DEF SendByte, DriverInv, Control, Outgoing
  <2> DEFINE d == [drv EXCEPT !.sent = drv.sent + 1]
             f == Put(fdc, drv.packet[drv.sent + 1])
  <2>1. d.packet = drv.packet /\ d.phase = drv.phase /\ d.to = drv.to /\ d.sent = drv.sent + 1
    BY <1>0 DEF Drivers
  <2>2. WriteFifo(drv.packet[drv.sent + 1])
    BY <1>5 DEF SendByte
  <2>3. f.fifo[0] = drv.packet[1] /\ (Complete(f) <=> drv.sent + 1 = Len(drv.packet))
    BY <1>0, <2>0, NextByte
  <2>4. ~(Complete(f) /\ f.fifo[0] = READ) => memory' = memory
    BY <2>2 DEF WriteFifo
  <2> HIDE DEF f
  <2>5. CASE drv.sent + 1 # Len(drv.packet)
    <3>1. drv' = d
      BY <1>5, <2>1, <2>5 DEF SendByte
    <3> HIDE DEF d
    <3>2. drv'.packet = drv.packet /\ drv'.phase = drv.phase /\ drv'.to = drv.to
      BY <2>1, <3>1
    <3>3. Wanting' = Wanting
      BY <1>2, <3>2 DEF Reading, Asked
    <3>4. memory' = memory
      BY <2>3, <2>4, <2>5
    <3> QED BY <1>0, <1>1, <3>3, <3>4, GuestStep
  <2>6. CASE drv.sent + 1 = Len(drv.packet)
    <3>1. drv' = AfterPacket(d)
      BY <1>5, <2>1, <2>6 DEF SendByte
    <3>2. drv'.phase # "send"
      <4>1. d \in [{"phase", "packet", "sent", "due", "to"} ->
                     {d.phase, d.packet, d.sent, d.due, d.to}]
        BY <1>0 DEF Drivers
      <4> QED BY <3>1, <4>1 DEF AfterPacket
    <3>3. Wanting' = None
      BY <1>2, <3>2
    <3>4. CASE drv.packet[1] # READ
      BY <1>0, <1>1, <2>3, <2>4, <3>3, <3>4, GuestStep
    <3>5. CASE drv.packet[1] = READ
      <4>1. Reading(drv) /\ Address(dma) = drv.to /\ drv.to \in Cells
        BY <2>0, <3>5 DEF Reading, ReadInv
      <4>2. PICK p \in ReadPlaces :
              LET n == Position(NHead, NSector, p)
              IN  /\ drv.packet = ReadPacket(p)
                  /\ memory' = [memory EXCEPT ![drv.to] =
                                   IF CanRead(0, n) THEN SectorAt(0, n) ELSE Junk]
        BY <1>0, <1>5, <2>6, <3>5, <4>1, ReadExecuted
      <4> DEFINE n == Position(NHead, NSector, p)
      <4>3. Asked(drv) = p
        BY <4>2, ReadPlaceFacts DEF Asked
      <4>4. Wanting = [op |-> "fetch", drive |-> 0, cell |-> drv.to, place |-> p]
        BY <1>2, <2>0, <4>1, <4>3
      <4>5. Wanting # None
        <5>1. p \in [c : Nat, h : Nat, s : Nat]
          BY ReadPlaceFacts
        <5> QED BY <4>1, <4>4, <5>1, DiskAssumption, ImagesAssumption
      <4>6. DiskView' = DiskView
        BY <1>1 DEF DiskView, SectorAt
      <4>7. CASE CanRead(0, n)
        <5>1. NHead = HeadsOf(0) /\ NSector = SptOf(0)
          BY DiskAssumption DEF HeadsOf, SptOf
        <5>2. p \in SpotsOf(0) /\ n = Number(0, p)
          BY <5>1, ReadPlaceFacts DEF SpotsOf, Spots, Number
        <5>3. 0 \in Mounted /\ n < Len(image[0]) /\ 0 \in Drives
          BY <4>7, ImagesAssumption DEF CanRead
        <5>4. p \in PlacesOf(0)
          <6>1. n \in Nat /\ Size(0) \in Nat /\ (p \in PlacesOf(0) <=> n < Size(0))
            BY <5>2, Numbering, Geometry
          <6>2. Len(image[0]) \in Nat /\ Len(image[0]) <= Size(0)
            BY <1>0, <5>3 DEF ImagesInv, ImagesTypeOK
          <6> HIDE DEF n
          <6> QED BY <5>3, <6>1, <6>2
        <5>5. Sectors!Stored(0, p) /\ DiskView[0][p] = image[0][n + 1]
          BY <1>0, <5>2, <5>3, <5>4, ViewFacts
        <5>6. memory' = [memory EXCEPT ![drv.to] = DiskView[0][p]]
          BY <4>2, <4>7, <5>5 DEF SectorAt
        <5> QED BY <3>3, <4>4, <4>5, <4>6, <5>5, <5>6
                DEF Sectors!Next, Sectors!Fetch, Sectors!GoesOn
      <4>8. CASE ~CanRead(0, n)
        <5>1. memory' = [memory EXCEPT ![drv.to] = Junk]
          BY <4>2, <4>8
        <5> QED BY <3>3, <4>4, <4>5, <4>6, <5>1 DEF Sectors!Next, Sectors!Spoil
      <4> QED BY <4>7, <4>8
    <3> QED BY <3>4, <3>5
  <2> QED BY <2>5, <2>6
<1>6. CASE ReadResult
  <2>1. CASE drv.due = 1
    BY <1>3, <1>6, <2>1 DEF ReadResult
  <2>2. CASE drv.due # 1
    <3>1. drv' = [drv EXCEPT !.due = drv.due - 1] /\ memory' = memory /\ drv.phase = "results"
      BY <1>6, <2>2 DEF ReadResult
    <3>2. drv'.phase = "results"
      BY <1>0, <3>1 DEF Drivers
    <3>3. Wanting' = None
      BY <1>2, <3>2
    <3> QED BY <1>0, <1>1, <3>1, <3>3, GuestStep
  <2> QED BY <2>1, <2>2
<1>7. CASE TakeIrq
  <2>1. memory' = memory /\ drv.phase \in {"wait", "reset"}
    BY <1>0, <1>7 DEF TakeIrq, TakeRequest, DriverInv, IrqExact
  <2>2. PICK ph \in {"results", "idle", "taken"} : drv' = [drv EXCEPT !.phase = ph]
    BY <1>7, <2>1 DEF TakeIrq
  <2>3. drv'.phase = ph
    BY <1>0, <2>2 DEF Drivers
  <2>4. Wanting' = None
    BY <1>2, <2>3
  <2> QED BY <1>0, <1>1, <2>1, <2>4, GuestStep
<1>8. CASE EnterReset \/ LeaveReset \/ ResetByRate
  <2>1. \E ph \in Phases \ {"send"} : \E due : Leave(ph, due)
    BY <1>8 DEF EnterReset, LeaveReset, ResetByRate, Phases
  <2> QED BY <1>3, <2>1
<1>9. CASE Motor
  <2>1. memory' = memory /\ drv' = drv
    BY <1>9 DEF Motor
  <2>2. Wanting' = Wanting
    BY <1>2, <2>1
  <2> QED BY <1>0, <1>1, <2>1, <2>2, GuestStep
<1> QED
  BY <1>4, <1>5, <1>6, <1>7, <1>8, <1>9 DEF DriverNext

\* The BIOS and the driver see the same disks: together they are a disk of sectors
\* that keep what was stored in them last, whichever way it came (int13h.c:310-424,
\* dev_FDC.c:14-33, emu_interface.c).
THEOREM ImplementsDiskOfSectors == Spec => ImplementsSectorDisk
<1>1. Init => Sectors!Init
  BY SectorsInit
<1>2. /\ DiskInv /\ ReadInv /\ DiskInv' /\ WantingOK' /\ [Next]_vars
      => [Sectors!Next]_(Sectors!vars)
  <2> SUFFICES ASSUME DiskInv, ReadInv, DiskInv', WantingOK', [Next]_vars
               PROVE  Sectors!Next \/ UNCHANGED Sectors!vars
    BY DEF Sectors!vars
  <2>1. CASE UNCHANGED vars
    <3>1. UNCHANGED <<image, memory, call, drv>>
      BY <2>1 DEF vars
    <3>2. DiskView' = DiskView /\ Wanting' = Wanting
      BY <3>1 DEF DiskView, SectorAt, Wanting, Reading, Asked
    <3> QED BY <3>1, <3>2 DEF Sectors!vars
  <2>2. CASE /\ drv.phase = "off" \/ (Mixed /\ drv.phase = "idle")
             /\ Int13Next /\ UNCHANGED <<fdc, dma, drv>>
    <3>1. drv' = drv /\ drv.phase # "send"
      BY <2>2
    <3> QED BY <2>2, <3>1, CallRefines
  <2>3. CASE call = Idle /\ DriverNext /\ UNCHANGED <<call, writes>>
    BY <2>3, DriverRefines
  <2> QED BY <2>1, <2>2, <2>3 DEF Next
<1> QED
  BY <1>1, <1>2, ViewInvariant, PTL DEF Spec, ImplementsSectorDisk, Sectors!Spec
=============================================================================
