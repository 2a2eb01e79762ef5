-------------------------------- MODULE TLB --------------------------------
(***************************************************************************)
(* Address translation of the emulator: getPhysFromLinear and flushTLB of  *)
(* src/src/mem.c.  The TLB is a table of sets, one per directory index, of *)
(* NASOC ways.  A way is free when its PTE word is 0; a flush also clears  *)
(* the address of every way, so a free way carries the address of Page0.   *)
(***************************************************************************)
EXTENDS PageTables, FiniteSets

CONSTANTS NASOC,   \* ways of a set (TLB_NASOC)
          NoPTE,   \* the PTE word 0 of a free way
          Page0,   \* the linear page at address 0
          MaxSeen  \* bound: the guest edits no table once a page was seen in
                   \* this many forms, until it flushes

ASSUME TLBAssumption ==
  /\ NASOC \in Nat \ {0}
  /\ NoPTE \notin PTE
  /\ Page0 \in Pages
  /\ MaxSeen \in Nat

VARIABLE tlb  \* tlb[d][w]: the w-th way of set d

vars == <<paging, cr3, pd, pt, seen, res, tlb>>

Ways == 1..NASOC
Entry == [page: Pages, pte: PTE \cup {NoPTE}]
FreeWay == [page |-> Page0, pte |-> NoPTE]

First(S) == CHOOSE w \in S : \A v \in S : w <= v

Live(pg, w) == tlb[pg[1]][w].pte # NoPTE /\ tlb[pg[1]][w].page = pg

\* Mutant: a write is served by a clean entry too.
Hits_AnyEntry(pg, write) == {w \in Ways : Live(pg, w)}

\* The ways that serve the access: a write needs an entry that is already dirty.
Hits(pg, write) ==
  {w \in Ways : Live(pg, w) /\ (write => tlb[pg[1]][w].pte.d)}

\* Mutant: the rights of the table entry alone are cached.
Refresh_PageRights(pg, eff) ==
  IF \E w \in Ways : Live(pg, w) THEN tlb
  ELSE [tlb EXCEPT ![pg[1]][1] =
          [page |-> pg, pte |-> [eff EXCEPT !.rw = PTEOf(pg).rw,
                                            !.us = PTEOf(pg).us]]]

\* Where the entry goes: nowhere if the first way that is free or carries the
\* page's address carries it, else that free way, else way 1 of a shifted set.
Refresh(pg, eff) ==
  LET set  == tlb[pg[1]]
      ends == {w \in Ways : set[w].page = pg \/ set[w].pte = NoPTE}
      new  == [page |-> pg, pte |-> eff]
  IN  IF ends = {}
      THEN [tlb EXCEPT ![pg[1]] =
              [w \in Ways |-> IF w = 1 THEN new ELSE set[w - 1]]]
      ELSE IF set[First(ends)].page = pg THEN tlb
      ELSE [tlb EXCEPT ![pg[1]][First(ends)] = new]

(***************************************************************************)
(* An access, atomic because the emulator is a single thread: the lookup,  *)
(* the walk on a miss, the checks, the A and D bits and the refresh.       *)
(***************************************************************************)
AccessHit(pg, write, user) ==
  /\ Hits(pg, write) # {}
  /\ LET eff == tlb[pg[1]][First(Hits(pg, write))].pte
     IN  /\ res' = Through(eff, pg, write, user)
         /\ tlb' = IF Allowed(eff, write, user) THEN Refresh(pg, eff) ELSE tlb
  /\ UNCHANGED memVars

AccessNoTable(pg, write, user) ==
  /\ Hits(pg, write) = {}
  /\ ~PDEOf(pg).p
  /\ res' = PageFault(pg, write, user, FALSE)
  /\ UNCHANGED <<memVars, tlb>>

\* Mutant: the A and D bits are written before the rights are checked.
AccessWalk_TouchFirst(pg, write, user) ==
  LET new == Touched(PTEOf(pg), write)
      eff == Restrained(new, PDEOf(pg))
  IN  /\ Hits(pg, write) = {}
      /\ PDEOf(pg).p
      /\ pd' = [pd EXCEPT ![cr3][pg[1]].a = TRUE]
      /\ pt' = [pt EXCEPT ![PDEOf(pg).table][pg[2]] = new]
      /\ UNCHANGED <<paging, cr3>>
      /\ IF new.p /\ Allowed(eff, write, user)
         THEN res' = Done(eff.frame) /\ tlb' = Refresh(pg, eff)
         ELSE res' = PageFault(pg, write, user, new.p) /\ UNCHANGED tlb
      /\ Remember

AccessWalk(pg, write, user) ==
  LET pte == PTEOf(pg)
      new == Touched(pte, write)
      eff == Restrained(new, PDEOf(pg))
  IN  /\ Hits(pg, write) = {}
      /\ PDEOf(pg).p
      /\ pd' = [pd EXCEPT ![cr3][pg[1]].a = TRUE]
      /\ UNCHANGED <<paging, cr3>>
      /\ IF pte.p /\ Allowed(eff, write, user)
         THEN /\ res' = Done(eff.frame)
              /\ pt' = [pt EXCEPT ![PDEOf(pg).table][pg[2]] = new]
              /\ tlb' = Refresh(pg, eff)
         ELSE /\ res' = PageFault(pg, write, user, pte.p)
              /\ UNCHANGED <<pt, tlb>>
      /\ Remember

Access(pg, write, user) ==
  /\ paging
  /\ \/ AccessHit(pg, write, user)
     \/ AccessNoTable(pg, write, user)
     \/ AccessWalk(pg, write, user)

\* Stores into the tables reach memory only.
WithinBound == \A pg \in Pages : Cardinality(seen[pg]) < MaxSeen

GuestPTE(t, i, pte) == WithinBound /\ WritePTE(t, i, pte) /\ UNCHANGED tlb
GuestPDE(s, d, pde) == WithinBound /\ WritePDE(s, d, pde) /\ UNCHANGED tlb

\* Mutant: the flush clears the first way of each set only.
flushTLB_OneWay ==
  tlb' = [d \in Dirs |-> [tlb[d] EXCEPT ![1] = FreeWay]]

flushTLB == tlb' = [d \in Dirs |-> [w \in Ways |-> FreeWay]]

\* Mutant: CR3 is loaded and nothing is flushed.
MovCR3_NoFlush(s) == LoadCR3(s) /\ UNCHANGED tlb

\* MOV CR3 and a task switch load CR3 and flush.
MovCR3(s) == LoadCR3(s) /\ flushTLB

\* MOV CR0 flushes nothing: the entries are there when PG is set again.
MovCR0 == SwitchPaging /\ UNCHANGED tlb

Init == InitTables /\ tlb = [d \in Dirs |-> [w \in Ways |-> FreeWay]]

Next ==
  \/ \E pg \in Pages, write, user \in BOOLEAN : Access(pg, write, user)
  \/ \E t \in Tables, i \in Idxs, pte \in PTEWrites : GuestPTE(t, i, pte)
  \/ \E s \in Spaces, d \in Dirs, pde \in PDEWrites : GuestPDE(s, d, pde)
  \/ \E s \in Spaces : MovCR3(s)
  \/ MovCR0

Spec == Init /\ [][Next]_vars
-----------------------------------------------------------------------------
(***************************************************************************)
(* Properties.                                                             *)
(***************************************************************************)
TypeOK == TablesTypeOK /\ tlb \in [Dirs -> [Ways -> Entry]]

\* A live way sits in the set of its page, no two ways of a set hold the same
\* page, and free ways come last: the search order of the lookup and of the
\* refresh would otherwise disagree (mem.c:97-105 against 166-174).
WayDiscipline ==
  \A d \in Dirs, w \in Ways :
    /\ tlb[d][w].pte # NoPTE =>
         /\ tlb[d][w].page[1] = d
         /\ \A v \in Ways : tlb[d][v].pte # NoPTE /\ v # w
                              => tlb[d][v].page # tlb[d][w].page
         /\ \A v \in 1..w : tlb[d][v].pte # NoPTE
    /\ tlb[d][w].pte = NoPTE => tlb[d][w].page = Page0

\* Every cached entry is one the page really had in memory since CR3 was last
\* loaded, with the rights of its directory entry folded in, already accessed,
\* and dirty only if the tables recorded the write.
Coherent ==
  \A pg \in Pages, w \in Ways :
    Live(pg, w) => tlb[pg[1]][w].pte \in seen[pg] /\ tlb[pg[1]][w].pte.a

\* The TLB never shows the guest anything a walk, or an entry it has not yet
\* flushed, could not show: translation refines Paging.
MMU == INSTANCE Paging
ImplementsPaging == MMU!Spec

\* The guest has not changed what pg maps to since the last flush: whatever the
\* page was seen as agrees with what the tables say now.
Undisturbed(pg) ==
  \A e \in seen[pg] : \E m \in Mapped(pg) :
    /\ e.frame = m.frame /\ e.rw = m.rw /\ e.us = m.us
    /\ (e.a => m.a) /\ (e.d => m.d)

\* What the architecture asks of an access, computed from the tables alone.
Architected(pg, write, user) ==
  IF Mapped(pg) = {} THEN PageFault(pg, write, user, FALSE)
  ELSE Through(CHOOSE m \in Mapped(pg) : TRUE, pg, write, user)

\* Without an unflushed change the access ends exactly as a walk would end it,
\* the fault code and CR2 included; in particular a page that was absent and
\* is now mapped needs no flush (nothing negative is cached).
ExactWhenUndisturbed ==
  [][\A pg \in Pages, write, user \in BOOLEAN :
       Access(pg, write, user) /\ Undisturbed(pg)
         => res' = Architected(pg, write, user)]_vars

\* A completed write to an undisturbed page is recorded in the tables: the D
\* bit of its PTE is set, however the access was served, so that the guest
\* pages out nothing it still needs to save.
WritesAreRecorded ==
  [][\A pg \in Pages, user \in BOOLEAN :
       Access(pg, TRUE, user) /\ Undisturbed(pg) /\ ~res'.fault
         => \A m \in Mapped(pg)' : m.a /\ m.d]_vars

\* A faulting access leaves the TLB and the PTEs alone: the handler that fixes
\* the page and restarts the instruction does not find a half-done access.
FaultLeavesNoTrace ==
  [][\A pg \in Pages, write, user \in BOOLEAN :
       Access(pg, write, user) /\ res'.fault => UNCHANGED <<pt, tlb>>]_vars

=============================================================================
