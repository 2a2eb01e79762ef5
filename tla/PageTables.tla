----------------------------- MODULE PageTables -----------------------------
(***************************************************************************)
(* The two-level page tables of the emulated 386, as the guest's memory    *)
(* holds them, and what the guest does to them.  Paging (what a correct    *)
(* MMU may do) and TLB (what src/src/mem.c does) both extend this module.  *)
(*                                                                         *)
(* A linear page is <<d, i>>: d is the directory index (linear >> 22, also *)
(* the TLB set it falls in) and i the table index.  Offsets inside a page  *)
(* and the bits of an entry the MMU ignores are abstracted.  Accesses are  *)
(* those made while CR0.PG is set; the others go to memory as they are.    *)
(***************************************************************************)
EXTENDS Naturals

CONSTANTS Spaces,      \* page directories CR3 may point at
          Dirs, Idxs,  \* directory and table indices
          Tables,      \* page tables a directory entry may point at
          Frames,      \* physical page frames
          PTEWrites,   \* the entries the guest writes into a table
          PDEWrites    \* the entries the guest writes into a directory

PTE == [p: BOOLEAN, rw: BOOLEAN, us: BOOLEAN, a: BOOLEAN, d: BOOLEAN,
        frame: Frames]
PDE == [p: BOOLEAN, rw: BOOLEAN, us: BOOLEAN, a: BOOLEAN, table: Tables]

ASSUME GuestWritesAssumption ==
  /\ PTEWrites \subseteq PTE
  /\ PDEWrites \subseteq PDE

Pages == Dirs \X Idxs

VARIABLES paging, \* CR0.PG
          cr3,   \* the current directory
          pd,    \* pd[s][d]: the directory entries in memory
          pt,    \* pt[t][i]: the table entries in memory
          seen,  \* history: effective entries each page had since the last flush
          res    \* what the last access left: a frame, or CR2 and the error code

memVars == <<paging, cr3, pd, pt, seen>>

(***************************************************************************)
(* The walk.                                                               *)
(***************************************************************************)
PDEOf(pg) == pd[cr3][pg[1]]
PTEOf(pg) == pt[PDEOf(pg).table][pg[2]]

\* An entry with the rights its directory entry leaves it.
Restrained(pte, pde) ==
  [pte EXCEPT !.rw = pte.rw /\ pde.rw, !.us = pte.us /\ pde.us]

\* The A bit, and for a write the D bit, that an access sets in a PTE.
Touched(pte, write) == [pte EXCEPT !.a = TRUE, !.d = pte.d \/ write]

\* The present effective entry of pg in the current tables, as a set of at most one.
Mapped(pg) ==
  IF PDEOf(pg).p /\ PTEOf(pg).p THEN {Restrained(PTEOf(pg), PDEOf(pg))} ELSE {}

(***************************************************************************)
(* Rights: the supervisor (CPL 0-2) may do anything with a present page.   *)
(***************************************************************************)
Allowed(eff, write, user) == user => eff.us /\ (write => eff.rw)

ErrorCode(user, write, present) ==
  (IF user THEN 4 ELSE 0) + (IF write THEN 2 ELSE 0) + (IF present THEN 1 ELSE 0)

Done(frame) == [fault |-> FALSE, frame |-> frame]
PageFault(pg, write, user, present) ==
  [fault |-> TRUE, cr2 |-> pg, code |-> ErrorCode(user, write, present)]

\* The result of an access that goes through the present entry eff.
Through(eff, pg, write, user) ==
  IF Allowed(eff, write, user) THEN Done(eff.frame)
                               ELSE PageFault(pg, write, user, TRUE)

(***************************************************************************)
(* The guest: stores into its tables, loads of CR3 (MOV or task switch)    *)
(* and of CR0.                                                             *)
(***************************************************************************)
Remember == seen' = [pg \in Pages |-> seen[pg] \cup Mapped(pg)']

WritePTE(t, i, pte) ==
  /\ pt' = [pt EXCEPT ![t][i] = pte]
  /\ UNCHANGED <<paging, cr3, pd, res>>
  /\ Remember

WritePDE(s, d, pde) ==
  /\ pd' = [pd EXCEPT ![s][d] = pde]
  /\ UNCHANGED <<paging, cr3, pt, res>>
  /\ Remember

LoadCR3(s) ==
  /\ cr3' = s
  /\ UNCHANGED <<paging, pd, pt, res>>
  /\ seen' = [pg \in Pages |-> Mapped(pg)']

\* Paging is switched: nothing is flushed.
SwitchPaging ==
  /\ paging' = ~paging
  /\ UNCHANGED <<cr3, pd, pt, seen, res>>

InitTables ==
  /\ paging = FALSE
  /\ cr3 \in Spaces
  /\ pd \in [Spaces -> [Dirs -> PDEWrites]]
  /\ pt \in [Tables -> [Idxs -> PTEWrites]]
  /\ seen = [pg \in Pages |-> Mapped(pg)]
  /\ res = [fault |-> FALSE, frame |-> CHOOSE f \in Frames : TRUE]

TablesTypeOK ==
  /\ paging \in BOOLEAN
  /\ cr3 \in Spaces
  /\ pd \in [Spaces -> [Dirs -> PDE]]
  /\ pt \in [Tables -> [Idxs -> PTE]]
  /\ seen \in [Pages -> SUBSET PTE]
  /\ res \in [fault: {FALSE}, frame: Frames]
             \cup [fault: {TRUE}, cr2: Pages, code: 0..7]
=============================================================================
