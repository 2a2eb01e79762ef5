----------------------------- MODULE SectorDisk -----------------------------
(***************************************************************************)
(* What a guest may rely on of its disks, whichever way it takes to them:  *)
(* sectors that are named by cylinder, head and sector and keep what was   *)
(* stored in them last; and transfers that move the sector that was asked  *)
(* for, and after it, if at all, the one behind it.  A disk may end early; *)
(* storing behind its end makes it longer, up to there.                    *)
(***************************************************************************)
EXTENDS CHS

CONSTANTS
    Drives,
    Cylinders, Heads, Spt,  \* of each drive
    Cells,                  \* the buffers in memory, each of one sector
    Values,                 \* what a sector may hold
    Zero,                   \* what the host puts into a gap
    Junk,                   \* what nobody meant to be there
    None,                   \* no sector: behind the end of the disk
    Made,                   \* what the guest itself may put into a buffer
    NoWant

VARIABLES
    disk,       \* of each drive, what each place holds
    memory,
    want        \* the transfer the guest waits for: NoWant, or one of Wants

vars == <<disk, memory, want>>

PlacesOf(d) == Places(Cylinders[d], Heads[d], Spt[d])

Wants ==
    [op : {"fetch", "store"}, drive : Drives, cell : Cells,
     place : [c : Nat, h : Nat, s : Nat]]

Stored(d, p) == p \in PlacesOf(d) /\ disk[d][p] # None

\* No sector is missing in front of one that is there.
Dense(d) ==
    \A p, q \in PlacesOf(d) : Precedes(p, q) /\ Stored(d, q) => Stored(d, p)

Init ==
    /\ DOMAIN disk = Drives
    /\ \A d \in Drives :
          disk[d] \in [PlacesOf(d) -> Values \cup {None}] /\ Dense(d)
    /\ memory \in [Cells -> Values]
    /\ want = NoWant

\* The next sector of the track, or the first one of the next track.
Follows(d, p, q) ==
    \/ /\ p.s < Spt[d]
       /\ q = [c |-> p.c, h |-> p.h, s |-> p.s + 1]
    \/ /\ p.s = Spt[d] /\ p.h < Heads[d] - 1
       /\ q = [c |-> p.c, h |-> p.h + 1, s |-> 1]
    \/ /\ p.s = Spt[d] /\ p.h = Heads[d] - 1
       /\ q = [c |-> p.c + 1, h |-> 0, s |-> 1]

\* A transfer is over, or goes on with the next sector and buffer, or has to
\* be made again.
GoesOn ==
    \/ want' \in {want, NoWant}
    \/ /\ want' \in Wants
       /\ want'.op = want.op /\ want'.drive = want.drive /\ want'.cell = want.cell + 1
       /\ Follows(want.drive, want.place, want'.place)

Fetch ==
    /\ want # NoWant /\ want.op = "fetch" /\ Stored(want.drive, want.place)
    /\ memory' = [memory EXCEPT ![want.cell] = disk[want.drive][want.place]]
    /\ GoesOn
    /\ UNCHANGED disk

\* A store behind the end fills the gap.
Store ==
    /\ want # NoWant /\ want.op = "store" /\ want.place \in PlacesOf(want.drive)
    /\ disk' = [disk EXCEPT ![want.drive] =
          [q \in PlacesOf(want.drive) |->
             IF q = want.place THEN memory[want.cell]
             ELSE IF ~Stored(want.drive, q) /\ Precedes(q, want.place) THEN Zero
             ELSE disk[want.drive][q]]]
    /\ GoesOn
    /\ UNCHANGED memory

\* A fetch that does not succeed, or not yet, leaves junk in its buffer.
Spoil ==
    /\ want # NoWant /\ want.op = "fetch"
    /\ memory' = [memory EXCEPT ![want.cell] = Junk]
    /\ want' \in {want, NoWant}
    /\ UNCHANGED disk

\* The guest fills buffers, and asks for a transfer or gives up.
Guest ==
    /\ memory' \in [Cells -> Values]
    /\ \A a \in Cells : memory'[a] = memory[a] \/ memory'[a] \in Made
    /\ want' = NoWant \/ want' = want \/ (want = NoWant /\ want' \in Wants)
    /\ UNCHANGED disk

Next == Fetch \/ Store \/ Spoil \/ Guest

Spec == Init /\ [][Next]_vars
=============================================================================
