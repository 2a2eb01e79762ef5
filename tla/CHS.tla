-------------------------------- MODULE CHS --------------------------------
(***************************************************************************)
(* Cylinder, head and sector: the two users of an image file count its     *)
(* sectors with these, the disk calls of the BIOS (bios/src/int13h.c) and  *)
(* the floppy controller (src/dev_FDC.c), which also steps to the next.    *)
(***************************************************************************)
EXTENDS Integers

\* Cylinders and heads count from 0, sectors from 1.
Places(cylinders, heads, spt) ==
    [c : 0 .. cylinders - 1, h : 0 .. heads - 1, s : 1 .. spt]

\* The number of a sector in the image file.
Position(heads, spt, p) == ((p.c * heads + p.h) * spt) + p.s - 1

\* Mutant: the last sector of a track is skipped.
NextPlace_SkipsLast(heads, spt, p) ==
    LET s == p.s + 1
        h == IF s >= spt THEN p.h + 1 ELSE p.h
    IN  [c |-> IF h >= heads THEN p.c + 1 ELSE p.c,
         h |-> IF h >= heads THEN 0 ELSE h,
         s |-> IF s >= spt THEN 1 ELSE s]

\* The sector behind p, in the order of readFDD.
NextPlace(heads, spt, p) ==
    LET s == p.s + 1
        h == IF s > spt THEN p.h + 1 ELSE p.h
    IN  [c |-> IF h >= heads THEN p.c + 1 ELSE p.c,
         h |-> IF h >= heads THEN 0 ELSE h,
         s |-> IF s > spt THEN 1 ELSE s]

\* What Position should be: the order of the places, cylinder first.
Precedes(p, q) ==
    \/ p.c < q.c
    \/ p.c = q.c /\ p.h < q.h
    \/ p.c = q.c /\ p.h = q.h /\ p.s < q.s
=============================================================================
