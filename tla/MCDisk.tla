------------------------------- MODULE MCDisk -------------------------------
(***************************************************************************)
(* Two cylinders.  Drive A has tracks of two sectors and an image that     *)
(* ends in the middle of a track; B's image is one sector and read-only;   *)
(* C has three heads and one sector per track, told by the second entry of *)
(* its partition table.  Each sector starts with a value of its own.       *)
(***************************************************************************)
EXTENDS Disk

MCDrives == {0, 1, 2}
MCReadOnly == {1}
MCZero == 0
MCJunk == -1
MCBlank == -2
MCMade == [a \in 0 .. MemSize - 1 |-> 30 + a]
MCValues == -2 .. 40
MCMbr == <<[cyl |-> 0, head |-> 1, sec |-> 2], [cyl |-> 1, head |-> 2, sec |-> 1],
           [cyl |-> 1, head |-> 1, sec |-> 2], [cyl |-> 0, head |-> 0, sec |-> 0]>>
MCInitialImages ==
    {[d \in MCDrives |-> CASE d = 0 -> <<1, 2, 3, 4, 5>>
                           [] d = 1 -> <<21>>
                           [] d = 2 -> <<11, 12, 13, 14, 15, 16>>]}
MCNumbers == {0, 1, 128, 129}
At(c, h, s) == [c |-> c, h |-> h, s |-> s]
MCCallPlaces == {At(0, 1, 2), At(1, 1, 1)}
MCReadPlaces == {At(0, 1, 2), At(1, 1, 1)}
=============================================================================
