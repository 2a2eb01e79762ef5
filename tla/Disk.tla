-------------------------------- MODULE Disk --------------------------------
(***************************************************************************)
(* The disks of a guest.  Its programs reach the same image files by the   *)
(* disk calls of the BIOS and, drive A, by the floppy controller; there is *)
(* one processor, so a call of the BIOS and the driver take turns.         *)
(***************************************************************************)
EXTENDS Int13, FloppyDriver, FiniteSets

CONSTANTS
    InitialImages,  \* what the image files may be when ex86 starts
    Mixed,          \* bound: the guest still calls the BIOS after its driver ran
    None            \* no sector

ASSUME DiskAssumption ==
    /\ InitialImages \subseteq [Mounted -> Seq(Values)]
    /\ \A img \in InitialImages : \A d \in Mounted : Len(img[d]) <= Size(d)
    /\ Mixed \in BOOLEAN
    /\ NHead = FHeads /\ NSector = FSpt
    /\ None \notin Values
    /\ None \notin [op : {"fetch", "store"}, drive : Drives, cell : Cells,
                    place : [c : Nat, h : Nat, s : Nat]]

vars == <<image, memory, call, writes, fdc, dma, drv>>

Init ==
    /\ image \in InitialImages /\ memory = [a \in Cells |-> Blank]
    /\ Int13Init /\ FloppyInit /\ DriverInit

\* A call of the BIOS is made while the driver has no command under way, and
\* nothing else runs before it has returned.
Next ==
    \/ /\ drv.phase = "off" \/ (Mixed /\ drv.phase = "idle")
       /\ Int13Next /\ UNCHANGED <<fdc, dma, drv>>
    \/ call = Idle /\ DriverNext /\ UNCHANGED <<call, writes>>

Spec == Init /\ [][Next]_vars

-----------------------------------------------------------------------------
\* The sector a place names: it comes behind all the places before it.
Rank(d, p) == Cardinality({q \in PlacesOf(d) : Precedes(q, p)})

\* A call of the BIOS that returns without an error has moved exactly the
\* sectors it was asked for, from the place on and across the ends of tracks,
\* and nothing else anywhere; one that returns with an error has moved those in
\* front of the first that cannot be moved; and a page fault in between, after
\* which the OUT is executed again, makes no difference (int13h.c:310-424).
CallExact ==
    call # Idle =>
      LET first == Rank(call.drive, call.first)
          old == call.image0[call.drive]
          k == call.counter
          done == k + IF call.torn THEN 1 ELSE 0
      IN  /\ call.state = "ok" => k = call.n
          /\ call.state = "error" =>
                /\ k < call.n
                /\ \/ call.drive \notin Mounted
                   \/ call.op = "write" /\ call.drive \in ReadOnly
                   \/ call.op = "read" /\ first + k >= Len(old)
          /\ call.state = "refused" => k = 0
          /\ call.op = "write" =>
                /\ memory = call.memory0
                /\ \A d \in Mounted \ {call.drive} : image[d] = call.image0[d]
                /\ call.drive \in Mounted =>
                      LET new == image[call.drive]
                      IN  /\ Len(new) = IF done = 0 THEN Len(old)
                                        ELSE Longer(Len(old), first + done)
                          /\ \A i \in 0 .. Len(new) - 1 :
                                new[i + 1] =
                                   IF i \in first .. first + done - 1
                                   THEN call.memory0[call.buf + i - first]
                                   ELSE IF i < Len(old) THEN old[i + 1] ELSE Zero
          /\ call.op = "read" =>
                /\ image = call.image0
                /\ \A a \in Cells :
                      IF a \in call.buf .. call.buf + k - 1
                      THEN memory[a] = old[first + a - call.buf + 1]
                      ELSE (a = call.buf + k /\ call.torn) \/ memory[a] = call.memory0[a]

\* When the driver is told that a READ is complete, the buffer it programmed
\* holds the sector it asked for, and the place in the results is the next one;
\* a sector that is not there is told by a place that has not moved
\* (dev_FDC.c:14-33, 178-219).
ReadDelivers ==
    Reading(drv) /\ drv.phase \in {"wait", "results"} =>
      LET p == Asked(drv)
          q == [c |-> fdc.fifo[3], h |-> fdc.fifo[4], s |-> fdc.fifo[5]]
          n == Rank(0, p)
      IN  IF 0 \in Mounted /\ n < Len(image[0])
          THEN /\ memory[drv.to] = image[0][n + 1]
               /\ q.h < HeadsOf(0) /\ q.s \in 1 .. SptOf(0) /\ Rank(0, q) = n + 1
          ELSE q = p

\* The two ways to the disks are ways to the same disks: what is stored at a
\* place by one is what the other fetches there.
DiskView ==
    [d \in Drives |->
        [p \in PlacesOf(d) |->
            IF d \in Mounted /\ Position(HeadsOf(d), SptOf(d), p) < Len(image[d])
            THEN SectorAt(d, Position(HeadsOf(d), SptOf(d), p)) ELSE None]]

\* The transfer a guest waits for.
Wanting ==
    IF call # Idle /\ call.state = "moving" /\ call.counter < call.n
    THEN [op |-> IF call.op = "read" THEN "fetch" ELSE "store", drive |-> call.drive,
          cell |-> call.buf + call.counter, place |-> call.place]
    ELSE IF drv.phase = "send" /\ Reading(drv)
    THEN [op |-> "fetch", drive |-> 0, cell |-> drv.to, place |-> Asked(drv)]
    ELSE None

Sectors == INSTANCE SectorDisk WITH
    disk <- DiskView,
    want <- Wanting,
    NoWant <- None,
    Cylinders <- [d \in Drives |-> Cylinders],
    Heads <- [d \in Drives |-> HeadsOf(d)],
    Spt <- [d \in Drives |-> SptOf(d)],
    Made <- {Made[a] : a \in Cells} \cup {Blank}

ImplementsSectorDisk == Sectors!Spec
=============================================================================
