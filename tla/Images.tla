------------------------------- MODULE Images -------------------------------
(***************************************************************************)
(* The image files of the host and the guest's memory.  A drive is a file  *)
(* name given on the command line; the emulator opens the file for each    *)
(* sector it transfers (src/env_unix.c), and neither the BIOS nor the      *)
(* floppy controller keeps anything of it.                                 *)
(*                                                                         *)
(* A sector is one value and a buffer one cell of the memory.  Files are   *)
(* whole sectors long, and the host's disk is never full.                  *)
(***************************************************************************)
EXTENDS Sequences, CHS

CONSTANTS
    Drives,     \* A, B and C are 0, 1 and 2
    Mounted,    \* the drives whose image file exists
    ReadOnly,   \* those whose image the host does not let ex86 write
    MemSize,    \* cells of the memory
    Values,     \* what a sector or a buffer may hold
    Zero,       \* what the host puts into a gap of a file
    Junk,       \* what nobody meant to be there
    Blank       \* what the guest leaves in a buffer not in use

ASSUME ImagesAssumption ==
    /\ Mounted \subseteq Drives /\ ReadOnly \subseteq Drives
    /\ {0, 1, 2} \subseteq Drives
    /\ MemSize \in Nat
    /\ Zero \in Values /\ Junk \in Values /\ Blank \in Values

VARIABLES
    image,      \* of each mounted drive, its sectors
    memory

Cells == 0 .. MemSize - 1

ImagesTypeOK ==
    /\ image \in [Mounted -> Seq(Values)]
    /\ memory \in [Cells -> Values]

\* readDriveSector gets 512 bytes.  A negative sector number fails in fseek.
CanRead(d, n) == d \in Mounted /\ n >= 0 /\ n < Len(image[d])

SectorAt(d, n) == image[d][n + 1]

\* writeDriveSector opens the file for an update and lets it grow.
CanWrite(d, n) == d \in Mounted \ ReadOnly /\ n >= 0

Longer(a, b) == IF a >= b THEN a ELSE b

Written(img, n, v) ==
    [i \in 1 .. Longer(Len(img), n + 1) |->
        IF i = n + 1 THEN v ELSE IF i <= Len(img) THEN img[i] ELSE Zero]

\* The emulator interface moves one sector between an image and a buffer.
EmuRead(d, n, a) ==
    /\ CanRead(d, n)
    /\ memory' = [memory EXCEPT ![a] = SectorAt(d, n)]
    /\ UNCHANGED image

EmuWrite(d, n, a) ==
    /\ CanWrite(d, n)
    /\ image' = [image EXCEPT ![d] = Written(@, n, memory[a])]
    /\ UNCHANGED memory
=============================================================================
