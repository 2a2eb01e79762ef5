------------------------------ MODULE TLBProofs ------------------------------
(***************************************************************************)
(* Proofs about TLB, for every number of ways, pages, tables and frames.   *)
(***************************************************************************)
EXTENDS TLB, WellFoundedInduction, TLAPS

\* Bookkeeping of the history: what a page maps to now has been seen.
SeenNow == \A pg \in Pages : Mapped(pg) \subseteq seen[pg]

\* The inductive invariant.
IInv == TypeOK /\ WayDiscipline /\ Coherent /\ SeenNow

-----------------------------------------------------------------------------
(***************************************************************************)
(* Lemmas about the operators.                                             *)
(***************************************************************************)

\* A non-empty set of naturals has a least element.
LEMMA LeastNatural ==
  ASSUME NEW S \in SUBSET Nat, S # {}
  PROVE  \E w \in S : \A v \in S : w <= v
<1> DEFINE R == OpToRel(<, Nat)
<1>1. IsWellFoundedOn(R, Nat)
  BY NatLessThanWellFounded
<1>2. \A x, y \in Nat : y < x => <<y, x>> \in R
  BY DEF OpToRel
<1> HIDE DEF R
<1>3. PICK x \in S : \A y \in S : ~(<<y, x>> \in R)
  BY <1>1, WFMin
<1>4. ASSUME NEW v \in S
      PROVE  ~(v < x)
  BY <1>2, <1>3, Zenon
<1>5. ASSUME NEW v \in S
      PROVE  x <= v
  BY <1>4
<1> QED
  BY <1>5

\* The search of the lookup and of the refresh stops at a member, the first.
LEMMA FirstWay ==
  ASSUME NEW S \in SUBSET Ways, S # {}
  PROVE  First(S) \in S /\ \A v \in S : First(S) <= v
<1>1. S \subseteq Nat
  BY TLBAssumption DEF Ways
<1>2. \E w \in S : \A v \in S : w <= v
  BY <1>1, LeastNatural
<1> QED
  BY <1>2 DEF First

\* The PTE an access leaves, and the entry it caches, are entries.
LEMMA EntryTypes ==
  ASSUME NEW pte \in PTE, NEW pde \in PDE, NEW write \in BOOLEAN
  PROVE  /\ Touched(pte, write) \in PTE
         /\ Restrained(pte, pde) \in PTE
         /\ Touched(pte, write).p = pte.p
         /\ Touched(pte, write).a
         /\ write => Touched(pte, write).d
         /\ Restrained(pte, pde).a = pte.a
         /\ Restrained(pte, pde).d = pte.d
         /\ Restrained(pte, pde).p = pte.p
         /\ Restrained(pte, [pde EXCEPT !.a = TRUE]) = Restrained(pte, pde)
         /\ [pde EXCEPT !.a = TRUE] \in PDE
  BY DEF Touched, Restrained, PTE, PDE

\* Every result an access can leave has its type.
LEMMA ResultTypes ==
  ASSUME NEW eff \in PTE, NEW pg \in Pages,
         NEW write \in BOOLEAN, NEW user \in BOOLEAN, NEW present \in BOOLEAN
  PROVE  LET R == [fault: {FALSE}, frame: Frames]
                  \cup [fault: {TRUE}, cr2: Pages, code: 0..7]
         IN  /\ Through(eff, pg, write, user) \in R
             /\ PageFault(pg, write, user, present) \in R
             /\ Done(eff.frame) \in R
<1>1. ErrorCode(user, write, present) \in 0..7
  BY DEF ErrorCode
<1>2. ErrorCode(user, write, TRUE) \in 0..7
  BY DEF ErrorCode
<1> QED
  BY <1>1, <1>2 DEF Through, PageFault, Done, PTE

\* Where the two levels of a walk lead, in any tables.
LEMMA WalkTypes ==
  ASSUME NEW c \in Spaces, NEW dirs \in [Spaces -> [Dirs -> PDE]],
         NEW tabs \in [Tables -> [Idxs -> PTE]], NEW pg \in Pages
  PROVE  LET pde == dirs[c][pg[1]]
             pte == tabs[pde.table][pg[2]]
         IN  /\ pg[1] \in Dirs /\ pg[2] \in Idxs
             /\ pde \in PDE /\ pde.table \in Tables /\ pde.p \in BOOLEAN
             /\ pte \in PTE /\ pte.p \in BOOLEAN
             /\ Restrained(pte, pde) \in PTE
<1> DEFINE pde == dirs[c][pg[1]]
           pte == tabs[pde.table][pg[2]]
<1>1. pg[1] \in Dirs /\ pg[2] \in Idxs
  BY DEF Pages
<1>2. pde \in PDE
  BY <1>1
<1>3. pde.table \in Tables /\ pde.p \in BOOLEAN
  BY <1>2 DEF PDE
<1>4. pte \in PTE
  BY <1>1, <1>3
<1>5. pte.p \in BOOLEAN
  BY <1>4 DEF PTE
<1>6. Restrained(pte, pde) \in PTE
  BY <1>2, <1>4, EntryTypes
<1> QED
  BY <1>1, <1>2, <1>3, <1>4, <1>5, <1>6

\* Tables that stay well-typed keep the history well-typed and complete.
LEMMA Remembering ==
  ASSUME seen \in [Pages -> SUBSET PTE], Remember,
         cr3' \in Spaces, pd' \in [Spaces -> [Dirs -> PDE]],
         pt' \in [Tables -> [Idxs -> PTE]]
  PROVE  /\ seen' \in [Pages -> SUBSET PTE]
         /\ \A pg \in Pages : seen[pg] \subseteq seen'[pg]
         /\ SeenNow'
<1>1. ASSUME NEW pg \in Pages
      PROVE  Mapped(pg)' \subseteq PTE
  BY WalkTypes DEF Mapped, PDEOf, PTEOf
<1>2. \A pg \in Pages : seen'[pg] = seen[pg] \cup Mapped(pg)'
  BY DEF Remember
<1> QED
  BY <1>1, <1>2 DEF Remember, SeenNow

\* The refresh keeps the ways disciplined and adds no entry but the new one.
LEMMA RefreshDiscipline ==
  ASSUME TypeOK, WayDiscipline, NEW pg \in Pages, NEW eff \in PTE,
         tlb' = Refresh(pg, eff)
  PROVE  /\ tlb' \in [Dirs -> [Ways -> Entry]]
         /\ WayDiscipline'
         /\ \A q \in Pages, w \in Ways :
              Live(q, w)' => \/ \E v \in Ways :
                                  /\ Live(q, v)
                                  /\ tlb'[q[1]][w].pte = tlb[q[1]][v].pte
                             \/ q = pg /\ tlb'[q[1]][w].pte = eff
<1> DEFINE D == pg[1]
           set == tlb[D]
           ends == {w \in Ways : set[w].page = pg \/ set[w].pte = NoPTE}
           new == [page |-> pg, pte |-> eff]
           f == First(ends)
<1>1. D \in Dirs /\ eff # NoPTE /\ new \in Entry /\ Ways \subseteq Nat
      /\ set \in [Ways -> Entry]
  <2>1. D \in Dirs
    BY DEF Pages
  <2>2. eff # NoPTE /\ new \in Entry /\ Ways \subseteq Nat
    BY TLBAssumption DEF Entry, Ways
  <2> QED
    BY <2>1, <2>2 DEF TypeOK
<1>2. CASE ends = {}
  <2>1. tlb' = [tlb EXCEPT ![D] =
                  [w \in Ways |-> IF w = 1 THEN new ELSE set[w - 1]]]
    BY <1>2 DEF Refresh
  <2>2. \A w \in Ways : w # 1 => w - 1 \in Ways
    BY TLBAssumption DEF Ways
  <2>3. tlb' \in [Dirs -> [Ways -> Entry]]
    BY <1>1, <2>1, <2>2 DEF TypeOK
  <2>4. \A w \in Ways : set[w].pte # NoPTE /\ set[w].page # pg
    BY <1>2
  <2>5. \A d \in Dirs, w \in Ways :
          tlb'[d][w] = IF d # D THEN tlb[d][w]
                       ELSE IF w = 1 THEN new ELSE tlb[D][w - 1]
    BY <1>1, <2>1 DEF TypeOK
  <2>6. WayDiscipline'
    <3> SUFFICES ASSUME NEW d \in Dirs, NEW w \in Ways
                 PROVE  /\ tlb'[d][w].pte # NoPTE =>
                             /\ tlb'[d][w].page[1] = d
                             /\ \A v \in Ways :
                                  tlb'[d][v].pte # NoPTE /\ v # w
                                    => tlb'[d][v].page # tlb'[d][w].page
                             /\ \A v \in 1..w : tlb'[d][v].pte # NoPTE
                        /\ tlb'[d][w].pte = NoPTE => tlb'[d][w].page = Page0
      BY DEF WayDiscipline
    <3>1. 1..w \subseteq Ways
      BY TLBAssumption DEF Ways
    <3>2. CASE d # D
      BY <2>5, <3>1, <3>2 DEF WayDiscipline
    <3>3. CASE d = D
      <4>1. tlb'[D][w].pte # NoPTE
        BY <1>1, <2>2, <2>4, <2>5
      <4>2. \A v \in 1..w : tlb'[D][v].pte # NoPTE
        BY <1>1, <2>2, <2>4, <2>5, <3>1
      <4>3. tlb'[D][w].page[1] = D
        BY <1>1, <2>2, <2>4, <2>5 DEF WayDiscipline
      <4>4. ASSUME NEW v \in Ways, v # w
            PROVE  tlb'[D][v].page # tlb'[D][w].page
        <5>1. CASE v = 1
          BY <1>1, <2>2, <2>4, <2>5, <4>4, <5>1
        <5>2. CASE w = 1
          BY <1>1, <2>2, <2>4, <2>5, <4>4, <5>2
        <5>3. CASE v # 1 /\ w # 1
          <6>1. v - 1 \in Ways /\ w - 1 \in Ways /\ v - 1 # w - 1
            BY <1>1, <2>2, <4>4, <5>3
          <6>2. tlb[D][v - 1].page # tlb[D][w - 1].page
            BY <1>1, <2>4, <6>1 DEF WayDiscipline
          <6> QED
            BY <1>1, <2>5, <5>3, <6>2
        <5> QED
          BY <5>1, <5>2, <5>3
      <4> QED
        BY <3>3, <4>1, <4>2, <4>3, <4>4
    <3> QED
      BY <3>2, <3>3
  <2>7. ASSUME NEW q \in Pages, NEW w \in Ways, Live(q, w)'
        PROVE  \/ \E v \in Ways : /\ Live(q, v)
                                  /\ tlb'[q[1]][w].pte = tlb[q[1]][v].pte
               \/ q = pg /\ tlb'[q[1]][w].pte = eff
    <3>1. q[1] \in Dirs
      BY DEF Pages
    <3>2. CASE q[1] = D /\ w = 1
      BY <2>5, <2>7, <3>1, <3>2 DEF Live
    <3>3. CASE q[1] = D /\ w # 1
      BY <2>2, <2>5, <2>7, <3>1, <3>3 DEF Live
    <3>4. CASE q[1] # D
      BY <2>5, <2>7, <3>1, <3>4 DEF Live
    <3> QED
      BY <3>2, <3>3, <3>4
  <2> QED
    BY <2>3, <2>6, <2>7
<1>3. CASE ends # {}
  <2>1. f \in ends /\ \A v \in ends : f <= v
    <3> HIDE DEF ends
    <3> QED
      BY <1>3, FirstWay DEF ends
  <2> HIDE DEF f
  <2>2. CASE set[f].page = pg
    <3>1. tlb' = tlb
      BY <1>3, <2>2 DEF Refresh, f
    <3> QED
      BY <3>1 DEF TypeOK, WayDiscipline, Live
  <2>3. CASE set[f].page # pg
    <3>1. tlb' = [tlb EXCEPT ![D][f] = new]
      BY <1>3, <2>3 DEF Refresh, f
    <3>2. f \in Ways /\ set[f].pte = NoPTE
      BY <2>1, <2>3
    <3>3. \A w \in Ways : w < f => set[w].pte # NoPTE /\ set[w].page # pg
      <4>1. \A w \in ends : ~(w < f)
        BY <1>1, <2>1, <3>2
      <4> QED
        BY <4>1
    <3>4. \A w \in Ways : f < w => set[w].pte = NoPTE
      <4> SUFFICES ASSUME NEW w \in Ways, f < w, set[w].pte # NoPTE
                   PROVE  FALSE
        OBVIOUS
      <4>1. f \in 1..w
        BY <1>1, <3>2 DEF Ways
      <4> QED
        BY <1>1, <3>2, <4>1 DEF WayDiscipline
    <3>5. tlb' \in [Dirs -> [Ways -> Entry]]
      BY <1>1, <3>1, <3>2 DEF TypeOK
    <3>6. \A d \in Dirs, w \in Ways :
            tlb'[d][w] = IF d = D /\ w = f THEN new ELSE tlb[d][w]
      BY <1>1, <3>1, <3>2 DEF TypeOK
    <3> HIDE DEF ends
    <3>7. WayDiscipline'
      <4> SUFFICES ASSUME NEW d \in Dirs, NEW w \in Ways
                   PROVE  /\ tlb'[d][w].pte # NoPTE =>
                               /\ tlb'[d][w].page[1] = d
                               /\ \A v \in Ways :
                                    tlb'[d][v].pte # NoPTE /\ v # w
                                      => tlb'[d][v].page # tlb'[d][w].page
                               /\ \A v \in 1..w : tlb'[d][v].pte # NoPTE
                          /\ tlb'[d][w].pte = NoPTE => tlb'[d][w].page = Page0
        BY DEF WayDiscipline
      <4>1. 1..w \subseteq Ways
        BY TLBAssumption DEF Ways
      <4>2. CASE d # D
        BY <3>6, <4>1, <4>2 DEF WayDiscipline
      <4>3. CASE d = D /\ w = f
        <5>1. \A v \in 1..w : v = f \/ v < f
          BY <1>1, <3>2, <4>3
        <5>2. \A v \in Ways : v = f \/ v < f \/ f < v
          BY <1>1, <3>2
        <5> QED
          BY <1>1, <3>2, <3>3, <3>4, <3>6, <4>1, <4>3, <5>1, <5>2
      <4>4. CASE d = D /\ w # f
        <5>1. w < f \/ f < w
          BY <1>1, <3>2, <4>4
        <5>2. w < f => f \notin 1..w
          BY <1>1, <3>2
        <5> QED
          BY <1>1, <3>2, <3>3, <3>4, <3>6, <4>1, <4>4, <5>1, <5>2
             DEF WayDiscipline
      <4> QED
        BY <4>2, <4>3, <4>4
    <3>8. ASSUME NEW q \in Pages, NEW w \in Ways, Live(q, w)'
          PROVE  \/ \E v \in Ways : /\ Live(q, v)
                                    /\ tlb'[q[1]][w].pte = tlb[q[1]][v].pte
                 \/ q = pg /\ tlb'[q[1]][w].pte = eff
      <4>1. q[1] \in Dirs
        BY DEF Pages
      <4>2. CASE q[1] = D /\ w = f
        BY <3>6, <3>8, <4>1, <4>2 DEF Live
      <4>3. CASE ~(q[1] = D /\ w = f)
        BY <3>6, <3>8, <4>1, <4>3 DEF Live
      <4> QED
        BY <4>2, <4>3
    <3> QED
      BY <3>5, <3>7, <3>8
  <2> QED
    BY <2>2, <2>3
<1> QED
  BY <1>2, <1>3

-----------------------------------------------------------------------------
(***************************************************************************)
(* The invariant, step by step.                                            *)
(***************************************************************************)
\* The invariant holds at power-on: all ways free, nothing seen but the tables.
LEMMA InitIInv == Init => IInv
<1> SUFFICES ASSUME Init
             PROVE  IInv
  OBVIOUS
<1> USE DEF Init, InitTables
<1>1. /\ cr3 \in Spaces /\ pd \in [Spaces -> [Dirs -> PDE]]
      /\ pt \in [Tables -> [Idxs -> PTE]]
  BY GuestWritesAssumption
<1>2. \A pg \in Pages : Mapped(pg) \subseteq PTE
  BY <1>1, WalkTypes DEF Mapped, PDEOf, PTEOf
<1>3. seen \in [Pages -> SUBSET PTE] /\ SeenNow
  BY <1>2 DEF SeenNow
<1>4. Frames # {}
  <2>1. PICK pg \in Pages : TRUE
    BY TLBAssumption
  <2>2. PICK e \in PTE : TRUE
    BY <1>1, <2>1, WalkTypes
  <2> QED
    BY <2>2 DEF PTE
<1>5. TablesTypeOK
  BY <1>1, <1>3, <1>4 DEF TablesTypeOK
<1>6. tlb \in [Dirs -> [Ways -> Entry]]
  BY TLBAssumption DEF Entry, FreeWay
<1>7. \A d \in Dirs, w \in Ways : tlb[d][w] = FreeWay
  OBVIOUS
<1>8. WayDiscipline
  BY <1>7 DEF WayDiscipline, FreeWay
<1>9. Coherent
  <2>1. \A pg \in Pages : pg[1] \in Dirs
    BY DEF Pages
  <2> QED
    BY <1>7, <2>1 DEF Coherent, Live, FreeWay
<1> QED
  BY <1>3, <1>5, <1>6, <1>8, <1>9 DEF IInv, TypeOK

\* An entry that serves a hit is a real, accessed entry the page was seen with.
LEMMA HitEntry ==
  ASSUME IInv, NEW pg \in Pages, NEW write \in BOOLEAN, Hits(pg, write) # {}
  PROVE  LET eff == tlb[pg[1]][First(Hits(pg, write))].pte
         IN  /\ eff \in PTE /\ eff \in seen[pg] /\ eff.a
             /\ write => eff.d
<1>1. Hits(pg, write) \in SUBSET Ways
  BY DEF Hits
<1> DEFINE f == First(Hits(pg, write))
<1>2. f \in Hits(pg, write)
  BY <1>1, FirstWay
<1> HIDE DEF f
<1>3. f \in Ways /\ Live(pg, f) /\ (write => tlb[pg[1]][f].pte.d)
  BY <1>2 DEF Hits
<1>4. tlb[pg[1]][f].pte \in seen[pg] /\ tlb[pg[1]][f].pte.a
  BY <1>3 DEF IInv, Coherent
<1>5. seen[pg] \subseteq PTE
  BY DEF IInv, TypeOK, TablesTypeOK
<1> QED
  BY <1>3, <1>4, <1>5 DEF f

\* A hit keeps the invariant: it can at most refresh an entry already held.
LEMMA AccessHitIInv ==
  ASSUME IInv, NEW pg \in Pages, NEW write \in BOOLEAN, NEW user \in BOOLEAN,
         AccessHit(pg, write, user)
  PROVE  IInv'
<1> DEFINE eff == tlb[pg[1]][First(Hits(pg, write))].pte
<1>1. eff \in PTE /\ eff \in seen[pg] /\ eff.a
  BY HitEntry DEF AccessHit
<1>2. /\ res' = Through(eff, pg, write, user)
      /\ tlb' = IF Allowed(eff, write, user) THEN Refresh(pg, eff) ELSE tlb
      /\ UNCHANGED memVars
  BY DEF AccessHit
<1> HIDE DEF eff
<1>3. TablesTypeOK'
  BY <1>1, <1>2, ResultTypes DEF IInv, TypeOK, TablesTypeOK, memVars
<1>4. SeenNow'
  BY <1>2 DEF IInv, SeenNow, memVars, Mapped, PDEOf, PTEOf
<1>5. CASE tlb' = tlb
  BY <1>2, <1>3, <1>4, <1>5 DEF IInv, TypeOK, WayDiscipline, Coherent, Live, memVars
<1>6. CASE tlb' = Refresh(pg, eff)
  <2>1. /\ tlb' \in [Dirs -> [Ways -> Entry]]
        /\ WayDiscipline'
        /\ \A q \in Pages, w \in Ways :
             Live(q, w)' => \/ \E v \in Ways :
                                 /\ Live(q, v)
                                 /\ tlb'[q[1]][w].pte = tlb[q[1]][v].pte
                            \/ q = pg /\ tlb'[q[1]][w].pte = eff
    BY <1>1, <1>6, RefreshDiscipline DEF IInv
  <2>2. Coherent'
    BY <1>1, <1>2, <2>1 DEF IInv, Coherent, memVars
  <2> QED
    BY <1>3, <1>4, <2>1, <2>2 DEF IInv, TypeOK
<1> QED
  BY <1>2, <1>5, <1>6

\* A walk that finds no table changes nothing the invariant speaks of.
LEMMA AccessNoTableIInv ==
  ASSUME IInv, NEW pg \in Pages, NEW write \in BOOLEAN, NEW user \in BOOLEAN,
         AccessNoTable(pg, write, user)
  PROVE  IInv'
<1>1. ErrorCode(user, write, FALSE) \in 0..7
  BY DEF ErrorCode
<1>2. TablesTypeOK'
  BY <1>1 DEF AccessNoTable, IInv, TypeOK, TablesTypeOK, memVars, PageFault
<1>3. UNCHANGED <<memVars, tlb>>
  BY DEF AccessNoTable
<1> QED
  BY <1>2, <1>3 DEF IInv, TypeOK, WayDiscipline, Coherent, SeenNow, Live,
                    memVars, Mapped, PDEOf, PTEOf

\* What a walk that finds its table does to the tables and the history.
LEMMA WalkEffect ==
  ASSUME IInv, NEW pg \in Pages, NEW write \in BOOLEAN, NEW user \in BOOLEAN,
         AccessWalk(pg, write, user)
  PROVE  LET new == Touched(PTEOf(pg), write)
             eff == Restrained(new, PDEOf(pg))
         IN  /\ TablesTypeOK' /\ SeenNow'
             /\ \A q \in Pages : seen[q] \subseteq seen'[q]
             /\ eff \in PTE /\ eff.a /\ (write => eff.d)
             /\ tlb' # tlb => eff \in seen'[pg]
<1> DEFINE pte == PTEOf(pg)
           pde == PDEOf(pg)
           new == Touched(pte, write)
           eff == Restrained(new, pde)
<1>1. /\ cr3 \in Spaces /\ pd \in [Spaces -> [Dirs -> PDE]] /\ paging \in BOOLEAN
      /\ pt \in [Tables -> [Idxs -> PTE]] /\ seen \in [Pages -> SUBSET PTE]
  BY DEF IInv, TypeOK, TablesTypeOK
<1>2. /\ pg[1] \in Dirs /\ pg[2] \in Idxs /\ pde \in PDE /\ pde.table \in Tables
      /\ pte \in PTE /\ pte.p \in BOOLEAN
  BY <1>1, WalkTypes DEF PDEOf, PTEOf
<1>3. /\ new \in PTE /\ new.p = pte.p /\ new.a /\ (write => new.d)
      /\ [pde EXCEPT !.a = TRUE] \in PDE
  BY <1>2, EntryTypes
<1>4. /\ eff \in PTE /\ eff.a /\ (write => eff.d) /\ eff.p = pte.p
      /\ Restrained(new, [pde EXCEPT !.a = TRUE]) = eff
  BY <1>2, <1>3, EntryTypes
<1>5. /\ pde.p
      /\ pd' = [pd EXCEPT ![cr3][pg[1]].a = TRUE]
      /\ cr3' = cr3 /\ paging' = paging /\ Remember
      /\ IF pte.p /\ Allowed(eff, write, user)
         THEN /\ res' = Done(eff.frame)
              /\ pt' = [pt EXCEPT ![pde.table][pg[2]] = new]
              /\ tlb' = Refresh(pg, eff)
         ELSE /\ res' = PageFault(pg, write, user, pte.p)
              /\ UNCHANGED <<pt, tlb>>
  BY DEF AccessWalk
<1>6. pd' = [pd EXCEPT ![cr3] = [pd[cr3] EXCEPT ![pg[1]] = [pde EXCEPT !.a = TRUE]]]
  BY <1>5 DEF PDEOf
<1> HIDE DEF pte, pde, new, eff
<1>7. pd' \in [Spaces -> [Dirs -> PDE]]
  BY <1>1, <1>2, <1>3, <1>6
<1>8. pt' \in [Tables -> [Idxs -> PTE]]
  <2>1. CASE pt' = [pt EXCEPT ![pde.table][pg[2]] = new]
    BY <1>1, <1>2, <1>3, <2>1
  <2>2. CASE pt' = pt
    BY <1>1, <2>2
  <2> QED
    BY <1>5, <2>1, <2>2
<1>9. /\ seen' \in [Pages -> SUBSET PTE] /\ SeenNow'
      /\ \A q \in Pages : seen[q] \subseteq seen'[q]
  BY <1>1, <1>5, <1>7, <1>8, Remembering
<1>10. TablesTypeOK'
  <2>1. res' \in [fault: {FALSE}, frame: Frames]
                 \cup [fault: {TRUE}, cr2: Pages, code: 0..7]
    <3>1. res' = Done(eff.frame) \/ res' = PageFault(pg, write, user, pte.p)
      BY <1>5
    <3>2. /\ Done(eff.frame) \in [fault: {FALSE}, frame: Frames]
                 \cup [fault: {TRUE}, cr2: Pages, code: 0..7]
          /\ PageFault(pg, write, user, pte.p) \in [fault: {FALSE}, frame: Frames]
                 \cup [fault: {TRUE}, cr2: Pages, code: 0..7]
      BY <1>2, <1>4, ResultTypes
    <3> QED
      BY <3>1, <3>2
  <2> QED
    BY <1>1, <1>5, <1>7, <1>8, <1>9, <2>1 DEF TablesTypeOK
<1>11. ASSUME tlb' # tlb
       PROVE  eff \in seen'[pg]
  <2>1. pte.p /\ pt' = [pt EXCEPT ![pde.table][pg[2]] = new]
    BY <1>5, <1>11
  <2>2. PDEOf(pg)' = [pde EXCEPT !.a = TRUE]
    <3>1. cr3' = cr3
      BY <1>5
    <3>2. pd'[cr3] = [pd[cr3] EXCEPT ![pg[1]] = [pde EXCEPT !.a = TRUE]]
      BY <1>1, <1>6
    <3>3. pd'[cr3][pg[1]] = [pde EXCEPT !.a = TRUE]
      BY <1>1, <1>2, <3>2
    <3> QED
      BY <3>1, <3>3 DEF PDEOf
  <2>3. PDEOf(pg)'.p /\ PDEOf(pg)'.table = pde.table
    BY <1>2, <1>5, <2>2 DEF PDE
  <2>4. PTEOf(pg)' = new
    BY <1>1, <1>2, <2>1, <2>3 DEF PTEOf
  <2>5. eff \in Mapped(pg)'
    BY <1>3, <1>4, <2>1, <2>2, <2>3, <2>4 DEF Mapped
  <2> QED
    BY <1>9, <2>5 DEF SeenNow
<1> QED
  BY <1>4, <1>9, <1>10, <1>11 DEF pte, pde, new, eff

\* A walk keeps the invariant: what it caches it has just written to memory.
LEMMA AccessWalkIInv ==
  ASSUME IInv, NEW pg \in Pages, NEW write \in BOOLEAN, NEW user \in BOOLEAN,
         AccessWalk(pg, write, user)
  PROVE  IInv'
<1> DEFINE eff == Restrained(Touched(PTEOf(pg), write), PDEOf(pg))
<1>1. /\ TablesTypeOK' /\ SeenNow'
      /\ \A q \in Pages : seen[q] \subseteq seen'[q]
      /\ eff \in PTE /\ eff.a
      /\ tlb' # tlb => eff \in seen'[pg]
  BY WalkEffect
<1>2. tlb' = tlb \/ tlb' = Refresh(pg, eff)
  BY DEF AccessWalk
<1> HIDE DEF eff
<1>3. CASE tlb' = tlb
  BY <1>1, <1>3 DEF IInv, TypeOK, WayDiscipline, Coherent, Live
<1>4. CASE tlb' # tlb
  <2>1. /\ tlb' \in [Dirs -> [Ways -> Entry]]
        /\ WayDiscipline'
        /\ \A q \in Pages, w \in Ways :
             Live(q, w)' => \/ \E v \in Ways :
                                 /\ Live(q, v)
                                 /\ tlb'[q[1]][w].pte = tlb[q[1]][v].pte
                            \/ q = pg /\ tlb'[q[1]][w].pte = eff
    BY <1>1, <1>2, <1>4, RefreshDiscipline DEF IInv
  <2>2. Coherent'
    BY <1>1, <1>4, <2>1 DEF IInv, Coherent
  <2> QED
    BY <1>1, <2>1, <2>2 DEF IInv, TypeOK
<1> QED
  BY <1>3, <1>4

\* The guest's own steps, and the flush.
LEMMA GuestIInv ==
  ASSUME IInv,
         \/ \E t \in Tables, i \in Idxs, pte \in PTEWrites : GuestPTE(t, i, pte)
         \/ \E s \in Spaces, d \in Dirs, pde \in PDEWrites : GuestPDE(s, d, pde)
  PROVE  IInv'
<1>1. /\ cr3' \in Spaces /\ pd' \in [Spaces -> [Dirs -> PDE]]
      /\ pt' \in [Tables -> [Idxs -> PTE]]
      /\ paging' = paging /\ res' = res /\ tlb' = tlb /\ Remember
  <2>1. CASE \E t \in Tables, i \in Idxs, pte \in PTEWrites : GuestPTE(t, i, pte)
    BY <2>1, GuestWritesAssumption
       DEF GuestPTE, WritePTE, IInv, TypeOK, TablesTypeOK
  <2>2. CASE \E s \in Spaces, d \in Dirs, pde \in PDEWrites : GuestPDE(s, d, pde)
    BY <2>2, GuestWritesAssumption
       DEF GuestPDE, WritePDE, IInv, TypeOK, TablesTypeOK
  <2> QED
    BY <2>1, <2>2
<1>2. /\ seen' \in [Pages -> SUBSET PTE] /\ SeenNow'
      /\ \A pg \in Pages : seen[pg] \subseteq seen'[pg]
  BY <1>1, Remembering DEF IInv, TypeOK, TablesTypeOK
<1>3. TypeOK'
  BY <1>1, <1>2 DEF IInv, TypeOK, TablesTypeOK
<1>4. WayDiscipline'
  BY <1>1 DEF IInv, WayDiscipline
<1>5. Coherent'
  BY <1>1, <1>2 DEF IInv, Coherent, Live
<1> QED
  BY <1>2, <1>3, <1>4, <1>5 DEF IInv

\* Loading CR3 keeps the invariant because nothing stays cached.
LEMMA MovCR3IInv ==
  ASSUME IInv, NEW s \in Spaces, MovCR3(s)
  PROVE  IInv'
<1>1. /\ cr3' \in Spaces /\ pd' \in [Spaces -> [Dirs -> PDE]]
      /\ pt' \in [Tables -> [Idxs -> PTE]] /\ paging' = paging /\ res' = res
      /\ seen' = [pg \in Pages |-> Mapped(pg)']
      /\ tlb' = [d \in Dirs |-> [w \in Ways |-> FreeWay]]
  BY DEF MovCR3, LoadCR3, flushTLB, IInv, TypeOK, TablesTypeOK
<1>2. \A pg \in Pages : Mapped(pg)' \subseteq PTE
  BY <1>1, WalkTypes DEF Mapped, PDEOf, PTEOf
<1>3. TablesTypeOK' /\ SeenNow'
  BY <1>1, <1>2 DEF TablesTypeOK, SeenNow, IInv, TypeOK
<1>4. tlb' \in [Dirs -> [Ways -> Entry]]
  BY <1>1, TLBAssumption DEF Entry, FreeWay
<1>5. \A d \in Dirs, w \in Ways : tlb'[d][w] = FreeWay
  BY <1>1
<1>6. WayDiscipline'
  BY <1>5 DEF WayDiscipline, FreeWay
<1>7. \A pg \in Pages : pg[1] \in Dirs
  BY DEF Pages
<1>8. Coherent'
  BY <1>5, <1>7 DEF Coherent, Live, FreeWay
<1> QED
  BY <1>3, <1>4, <1>6, <1>8 DEF IInv, TypeOK

\* Switching paging keeps it: neither the tables nor the entries change.
LEMMA MovCR0IInv ==
  ASSUME IInv, MovCR0
  PROVE  IInv'
<1>1. paging' \in BOOLEAN /\ UNCHANGED <<cr3, pd, pt, seen, res, tlb>>
  BY DEF MovCR0, SwitchPaging
<1>2. TypeOK'
  BY <1>1 DEF IInv, TypeOK, TablesTypeOK
<1>3. WayDiscipline' /\ Coherent'
  BY <1>1 DEF IInv, WayDiscipline, Coherent, Live
<1>4. SeenNow'
  BY <1>1 DEF IInv, SeenNow, Mapped, PDEOf, PTEOf
<1> QED
  BY <1>2, <1>3, <1>4 DEF IInv

\* IInv is inductive.
THEOREM IInvInductive == Spec => []IInv
<1>1. IInv /\ [Next]_vars => IInv'
  <2> SUFFICES ASSUME IInv, [Next]_vars
               PROVE  IInv'
    OBVIOUS
  <2>1. ASSUME NEW pg \in Pages, NEW write \in BOOLEAN, NEW user \in BOOLEAN,
               Access(pg, write, user)
        PROVE  IInv'
    BY <2>1, AccessHitIInv, AccessNoTableIInv, AccessWalkIInv DEF Access
  <2>2. CASE \/ \E t \in Tables, i \in Idxs, pte \in PTEWrites : GuestPTE(t, i, pte)
             \/ \E s \in Spaces, d \in Dirs, pde \in PDEWrites : GuestPDE(s, d, pde)
    BY <2>2, GuestIInv
  <2>3. ASSUME NEW s \in Spaces, MovCR3(s)
        PROVE  IInv'
    BY <2>3, MovCR3IInv
  <2>4. CASE UNCHANGED vars
    <3>1. TypeOK'
      BY <2>4 DEF vars, IInv, TypeOK, TablesTypeOK
    <3>2. WayDiscipline' /\ Coherent'
      BY <2>4 DEF vars, IInv, WayDiscipline, Coherent, Live
    <3>3. SeenNow'
      BY <2>4 DEF vars, IInv, SeenNow, Mapped, PDEOf, PTEOf
    <3> QED
      BY <3>1, <3>2, <3>3 DEF IInv
  <2>5. CASE MovCR0
    BY <2>5, MovCR0IInv
  <2> QED
    BY <2>1, <2>2, <2>3, <2>4, <2>5 DEF Next
<1> QED
  BY <1>1, InitIInv, PTL DEF Spec

-----------------------------------------------------------------------------
(***************************************************************************)
(* Results.                                                                *)
(***************************************************************************)

\* Every variable keeps its type: translation never caches a malformed entry
\* and never leaves a result getPhysFromLinear cannot return.
THEOREM TypeCorrect == Spec => []TypeOK
  BY IInvInductive, PTL DEF IInv

\* The lookup and the refresh of mem.c agree on every set, whatever the number
\* of ways: no page is cached twice and free ways come last.
THEOREM WaysDisciplined == Spec => []WayDiscipline
  BY IInvInductive, PTL DEF IInv

\* The TLB holds only what the tables said since the last flush.
THEOREM CacheCoherent == Spec => []Coherent
  BY IInvInductive, PTL DEF IInv

\* An access that goes through the TLB is an access Paging allows.
LEMMA AccessRefines ==
  ASSUME IInv, NEW pg \in Pages, NEW write \in BOOLEAN, NEW user \in BOOLEAN,
         Access(pg, write, user)
  PROVE  MMU!Access(pg, write, user)
<1> SUFFICES MMU!Walk(pg, write, user) \/ MMU!Remembered(pg, write, user)
  BY DEF Access, MMU!Access
<1> USE DEF MMU!memVars, memVars
<1>1. CASE AccessHit(pg, write, user)
  <2> DEFINE eff == tlb[pg[1]][First(Hits(pg, write))].pte
  <2>1. eff \in seen[pg] /\ eff.a /\ (write => eff.d)
    BY <1>1, HitEntry DEF AccessHit
  <2>2. res' = Through(eff, pg, write, user) /\ UNCHANGED memVars
    BY <1>1 DEF AccessHit
  <2>3. \A e : MMU!Through(e, pg, write, user) = Through(e, pg, write, user)
    BY DEF MMU!Through, Through, MMU!Allowed, Allowed, MMU!Done, Done,
           MMU!PageFault, PageFault, MMU!ErrorCode, ErrorCode
  <2> HIDE DEF eff
  <2>4. MMU!Remembered(pg, write, user)
    BY <2>1, <2>2, <2>3 DEF MMU!Remembered
  <2> QED
    BY <2>4
<1>2. CASE AccessNoTable(pg, write, user)
  <2>1. MMU!Walk(pg, write, user)
    BY <1>2 DEF MMU!Walk, AccessNoTable, MMU!PDEOf, PDEOf, MMU!PageFault,
                PageFault, MMU!ErrorCode, ErrorCode
  <2> QED
    BY <2>1
<1>3. CASE AccessWalk(pg, write, user)
  <2> DEFINE pte == PTEOf(pg)
             pde == PDEOf(pg)
             new == Touched(pte, write)
             eff == Restrained(new, pde)
  <2>1. pte.p \in BOOLEAN
    BY WalkTypes DEF IInv, TypeOK, TablesTypeOK, PTEOf, PDEOf
  <2>2. /\ pde.p
        /\ pd' = [pd EXCEPT ![cr3][pg[1]].a = TRUE]
        /\ cr3' = cr3 /\ paging' = paging /\ Remember
        /\ IF pte.p /\ Allowed(eff, write, user)
           THEN /\ res' = Done(eff.frame)
                /\ pt' = [pt EXCEPT ![pde.table][pg[2]] = new]
           ELSE /\ res' = PageFault(pg, write, user, pte.p)
                /\ pt' = pt
    BY <1>3 DEF AccessWalk
  <2>3. /\ MMU!PDEOf(pg) = pde /\ MMU!PTEOf(pg) = pte
        /\ MMU!Touched(pte, write) = new /\ MMU!Restrained(new, pde) = eff
    BY DEF MMU!PDEOf, PDEOf, MMU!PTEOf, PTEOf, MMU!Touched, Touched,
           MMU!Restrained, Restrained
  <2>4. MMU!Remember
    <3>1. \A q : MMU!Mapped(q)' = Mapped(q)'
      BY DEF MMU!Mapped, Mapped, MMU!PDEOf, PDEOf, MMU!PTEOf, PTEOf,
             MMU!Restrained, Restrained
    <3>2. MMU!Pages = Pages
      BY DEF MMU!Pages, Pages
    <3> QED
      BY <2>2, <3>1, <3>2 DEF MMU!Remember, Remember
  <2>5. /\ MMU!Allowed(eff, write, user) = Allowed(eff, write, user)
        /\ \A b : MMU!PageFault(pg, write, user, b) = PageFault(pg, write, user, b)
        /\ MMU!Done(eff.frame) = Done(eff.frame)
    BY DEF MMU!Allowed, Allowed, MMU!Done, Done, MMU!PageFault, PageFault,
           MMU!ErrorCode, ErrorCode
  <2> HIDE DEF pte, pde, new, eff
  <2>6. CASE ~pte.p
    BY <2>1, <2>2, <2>3, <2>4, <2>5, <2>6 DEF MMU!Walk
  <2>7. CASE pte.p
    <3>1. pte.p = TRUE
      BY <2>1, <2>7
    <3>2. res' = MMU!Through(eff, pg, write, user)
      BY <2>2, <2>5, <3>1 DEF MMU!Through
    <3>3. pt' = IF MMU!Allowed(eff, write, user)
                THEN [pt EXCEPT ![pde.table][pg[2]] = new] ELSE pt
      BY <2>2, <2>5, <3>1
    <3> QED
      BY <2>2, <2>3, <2>4, <3>1, <3>2, <3>3 DEF MMU!Walk
  <2> QED
    BY <2>6, <2>7
<1> QED
  BY <1>1, <1>2, <1>3 DEF Access

\* Translation through the TLB implements Paging: the guest cannot tell it from
\* an MMU that walks, except by not flushing what it changed.
THEOREM TLBImplementsPaging == Spec => ImplementsPaging
<1>1. Init => MMU!InitTables
  BY DEF Init, InitTables, MMU!InitTables, MMU!Mapped, Mapped, MMU!PDEOf, PDEOf,
         MMU!PTEOf, PTEOf, MMU!Restrained, Restrained, MMU!Pages, Pages
<1>2. IInv /\ [Next]_vars => [MMU!Next]_MMU!vars
  <2> SUFFICES ASSUME IInv, [Next]_vars
               PROVE  [MMU!Next]_MMU!vars
    OBVIOUS
  <2>1. MMU!Pages = Pages
    BY DEF MMU!Pages, Pages
  <2>2. \A q : MMU!Mapped(q)' = Mapped(q)'
    BY DEF MMU!Mapped, Mapped, MMU!PDEOf, PDEOf, MMU!PTEOf, PTEOf,
           MMU!Restrained, Restrained
  <2>3. Remember => MMU!Remember
    BY <2>1, <2>2 DEF MMU!Remember, Remember
  <2>4. ASSUME NEW pg \in Pages, NEW write \in BOOLEAN, NEW user \in BOOLEAN,
               Access(pg, write, user)
        PROVE  MMU!Next
    BY <2>1, <2>4, AccessRefines DEF MMU!Next
  <2>5. ASSUME NEW t \in Tables, NEW i \in Idxs, NEW pte \in PTEWrites,
               GuestPTE(t, i, pte)
        PROVE  MMU!Next
    <3>1. MMU!WritePTE(t, i, pte)
      BY <2>3, <2>5 DEF GuestPTE, WritePTE, MMU!WritePTE
    <3> QED
      BY <3>1 DEF MMU!Next
  <2>6. ASSUME NEW s \in Spaces, NEW d \in Dirs, NEW pde \in PDEWrites,
               GuestPDE(s, d, pde)
        PROVE  MMU!Next
    <3>1. MMU!WritePDE(s, d, pde)
      BY <2>3, <2>6 DEF GuestPDE, WritePDE, MMU!WritePDE
    <3> QED
      BY <3>1 DEF MMU!Next
  <2>7. ASSUME NEW s \in Spaces, MovCR3(s)
        PROVE  MMU!Next
    <3>1. MMU!LoadCR3(s)
      BY <2>1, <2>2, <2>7 DEF MovCR3, LoadCR3, MMU!LoadCR3
    <3> QED
      BY <3>1 DEF MMU!Next
  <2>8. CASE MovCR0
    BY <2>8 DEF MovCR0, SwitchPaging, MMU!SwitchPaging, MMU!Next
  <2>9. CASE UNCHANGED vars
    BY <2>9 DEF vars, MMU!vars
  <2> QED
    BY <2>4, <2>5, <2>6, <2>7, <2>8, <2>9 DEF Next
<1> QED
  BY <1>1, <1>2, IInvInductive, PTL DEF Spec, ImplementsPaging, MMU!Spec

\* Two entries that agree on frame and rights serve an access alike.
LEMMA SameService ==
  ASSUME NEW e, NEW m, e.frame = m.frame, e.rw = m.rw, e.us = m.us,
         NEW pg, NEW write, NEW user
  PROVE  Through(e, pg, write, user) = Through(m, pg, write, user)
  BY DEF Through, Allowed, Done

\* A page maps to one effective entry at most.
LEMMA MappedUnique ==
  ASSUME NEW pg, NEW m \in Mapped(pg)
  PROVE  /\ PDEOf(pg).p /\ PTEOf(pg).p
         /\ m = Restrained(PTEOf(pg), PDEOf(pg))
         /\ \A write, user \in BOOLEAN :
              Architected(pg, write, user) = Through(m, pg, write, user)
  BY DEF Mapped, Architected

\* Without an unflushed change an access ends as the architecture's walk ends,
\* for any tables and any number of ways (mem.c:97-159).
LEMMA AccessExact ==
  ASSUME IInv, NEW pg \in Pages, NEW write \in BOOLEAN, NEW user \in BOOLEAN,
         Access(pg, write, user), Undisturbed(pg)
  PROVE  res' = Architected(pg, write, user)
<1>1. CASE AccessHit(pg, write, user)
  <2> DEFINE eff == tlb[pg[1]][First(Hits(pg, write))].pte
  <2>1. eff \in seen[pg] /\ res' = Through(eff, pg, write, user)
    BY <1>1, HitEntry DEF AccessHit
  <2> HIDE DEF eff
  <2>2. PICK m \in Mapped(pg) :
               eff.frame = m.frame /\ eff.rw = m.rw /\ eff.us = m.us
    BY <2>1 DEF Undisturbed
  <2>3. Through(eff, pg, write, user) = Through(m, pg, write, user)
    BY <2>2, SameService
  <2>4. Architected(pg, write, user) = Through(m, pg, write, user)
    BY MappedUnique
  <2> QED
    BY <2>1, <2>3, <2>4
<1>2. CASE AccessNoTable(pg, write, user)
  BY <1>2 DEF AccessNoTable, Architected, Mapped
<1>3. CASE AccessWalk(pg, write, user)
  <2> DEFINE pte == PTEOf(pg)
             pde == PDEOf(pg)
             eff == Restrained(Touched(pte, write), pde)
             m == Restrained(pte, pde)
  <2>1. /\ pte \in PTE /\ pte.p \in BOOLEAN /\ pde \in PDE
    BY WalkTypes DEF IInv, TypeOK, TablesTypeOK, PTEOf, PDEOf
  <2>2. /\ pde.p
        /\ res' = IF pte.p /\ Allowed(eff, write, user)
                  THEN Done(eff.frame) ELSE PageFault(pg, write, user, pte.p)
    BY <1>3 DEF AccessWalk
  <2>3. CASE ~pte.p
    <3>1. Architected(pg, write, user) = PageFault(pg, write, user, FALSE)
      BY <2>3 DEF Architected, Mapped
    <3>2. pte.p = FALSE
      BY <2>1, <2>3
    <3> QED
      BY <2>2, <3>1, <3>2
  <2>4. CASE pte.p
    <3>1. Mapped(pg) = {m}
      BY <2>2, <2>4 DEF Mapped
    <3>2. Architected(pg, write, user) = Through(m, pg, write, user)
      <4> HIDE DEF m
      <4>1. m \in Mapped(pg)
        BY <3>1
      <4> QED
        BY <4>1, MappedUnique
    <3>3. eff.frame = m.frame /\ eff.rw = m.rw /\ eff.us = m.us
      BY <2>1 DEF Restrained, Touched, PTE
    <3>4. pte.p = TRUE
      BY <2>1, <2>4
    <3>5. res' = Through(eff, pg, write, user)
      BY <2>2, <3>4 DEF Through
    <3> HIDE DEF eff, m
    <3> QED
      BY <3>2, <3>3, <3>5, SameService
  <2> QED
    BY <2>3, <2>4
<1> QED
  BY <1>1, <1>2, <1>3 DEF Access

\* An access to a page whose mapping the guest has not changed since the last
\* flush ends exactly as a walk of the tables would end it.
THEOREM TranslationExact == Spec => ExactWhenUndisturbed
<1>1. IInv /\ [Next]_vars =>
        [\A pg \in Pages, write, user \in BOOLEAN :
           Access(pg, write, user) /\ Undisturbed(pg)
             => res' = Architected(pg, write, user)]_vars
  BY AccessExact
<1> QED
  BY <1>1, IInvInductive, PTL DEF Spec, ExactWhenUndisturbed

\* A completed write to an undisturbed page is recorded in its PTE, whether a
\* dirty way served it or a walk did (mem.c:100, 128, 161-163).
LEMMA WriteRecorded ==
  ASSUME IInv, NEW pg \in Pages, NEW user \in BOOLEAN,
         Access(pg, TRUE, user), Undisturbed(pg), ~res'.fault,
         NEW m \in Mapped(pg)'
  PROVE  m.a /\ m.d
<1>1. CASE AccessHit(pg, TRUE, user)
  <2> DEFINE eff == tlb[pg[1]][First(Hits(pg, TRUE))].pte
  <2>1. eff \in seen[pg] /\ eff.a /\ eff.d
    BY <1>1, HitEntry DEF AccessHit
  <2> HIDE DEF eff
  <2>2. PICK n \in Mapped(pg) : n.a /\ n.d
    BY <2>1 DEF Undisturbed
  <2>3. m \in Mapped(pg)
    BY <1>1 DEF AccessHit, memVars, Mapped, PDEOf, PTEOf
  <2>4. m = n
    BY <2>2, <2>3, MappedUnique
  <2> QED
    BY <2>2, <2>4
<1>2. CASE AccessNoTable(pg, TRUE, user)
  BY <1>2 DEF AccessNoTable, PageFault
<1>3. CASE AccessWalk(pg, TRUE, user)
  <2> DEFINE pte == PTEOf(pg)
             pde == PDEOf(pg)
             new == Touched(pte, TRUE)
             eff == Restrained(new, pde)
  <2>1. /\ cr3 \in Spaces /\ pd \in [Spaces -> [Dirs -> PDE]]
        /\ pt \in [Tables -> [Idxs -> PTE]]
        /\ pg[1] \in Dirs /\ pg[2] \in Idxs
        /\ pte \in PTE /\ pde \in PDE /\ pde.table \in Tables
    BY WalkTypes DEF IInv, TypeOK, TablesTypeOK, PTEOf, PDEOf
  <2>2. new.a /\ new.d
    BY <2>1, EntryTypes
  <2>3. new \in PTE
    BY <2>1, EntryTypes
  <2>4. /\ pd' = [pd EXCEPT ![cr3][pg[1]].a = TRUE] /\ cr3' = cr3
        /\ pte.p /\ Allowed(eff, TRUE, user) =>
             pt' = [pt EXCEPT ![pde.table][pg[2]] = new]
        /\ ~(pte.p /\ Allowed(eff, TRUE, user)) =>
             res' = PageFault(pg, TRUE, user, pte.p)
    BY <1>3 DEF AccessWalk
  <2>5. pt' = [pt EXCEPT ![pde.table][pg[2]] = new]
    <3>1. PageFault(pg, TRUE, user, pte.p).fault
      BY DEF PageFault
    <3> HIDE DEF pte, pde, new, eff
    <3>2. pte.p /\ Allowed(eff, TRUE, user)
      BY <2>4, <3>1
    <3> QED
      BY <2>4, <3>2
  <2>6. pd' = [pd EXCEPT ![cr3] = [pd[cr3] EXCEPT ![pg[1]] = [pde EXCEPT !.a = TRUE]]]
    BY <2>4 DEF PDEOf
  <2>7. PDEOf(pg)'.table = pde.table
    <3> HIDE DEF pde
    <3>1. pd'[cr3] = [pd[cr3] EXCEPT ![pg[1]] = [pde EXCEPT !.a = TRUE]]
      BY <2>1, <2>6
    <3>2. pd'[cr3][pg[1]] = [pde EXCEPT !.a = TRUE]
      BY <2>1, <3>1
    <3>3. [pde EXCEPT !.a = TRUE].table = pde.table
      BY <2>1 DEF PDE
    <3> QED
      BY <2>4, <3>2, <3>3 DEF PDEOf
  <2>8. PTEOf(pg)' = new
    <3> HIDE DEF new, pde
    <3> QED
      BY <2>1, <2>5, <2>7 DEF PTEOf
  <2>9. m = Restrained(new, PDEOf(pg)')
    <3> HIDE DEF new
    <3> QED
      BY <2>8 DEF Mapped
  <2> HIDE DEF new
  <2> QED
    BY <2>2, <2>3, <2>9 DEF Restrained, PTE
<1> QED
  BY <1>1, <1>2, <1>3 DEF Access

\* A completed write to such a page leaves the D bit of its table entry set, also
\* when the TLB served it.
THEOREM WritesRecorded == Spec => WritesAreRecorded
<1>1. IInv /\ [Next]_vars =>
        [\A pg \in Pages, user \in BOOLEAN :
           Access(pg, TRUE, user) /\ Undisturbed(pg) /\ ~res'.fault
             => \A m \in Mapped(pg)' : m.a /\ m.d]_vars
  BY WriteRecorded
<1> QED
  BY <1>1, IInvInductive, PTL DEF Spec, WritesAreRecorded

-----------------------------------------------------------------------------
\* Whichever way an access ends in a fault, the table entries and the ways of the
\* TLB are those before it (mem.c:118-126, 146-159 return before the stores).
LEMMA FaultKeeps ==
  ASSUME NEW pg \in Pages, NEW write \in BOOLEAN, NEW user \in BOOLEAN,
         Access(pg, write, user), res'.fault
  PROVE  UNCHANGED <<pt, tlb>>
<1>1. \A frame : ~Done(frame).fault
  BY DEF Done
<1>2. CASE AccessHit(pg, write, user)
  <2> DEFINE eff == tlb[pg[1]][First(Hits(pg, write))].pte
  <2>1. /\ res' = Through(eff, pg, write, user)
        /\ tlb' = IF Allowed(eff, write, user) THEN Refresh(pg, eff) ELSE tlb
        /\ pt' = pt
    BY <1>2 DEF AccessHit, memVars
  <2> HIDE DEF eff
  <2>2. ~Allowed(eff, write, user)
    BY <1>1, <2>1 DEF Through
  <2> QED
    BY <2>1, <2>2
<1>3. CASE AccessNoTable(pg, write, user)
  BY <1>3 DEF AccessNoTable, memVars
<1>4. CASE AccessWalk(pg, write, user)
  BY <1>1, <1>4 DEF AccessWalk
<1> QED
  BY <1>2, <1>3, <1>4 DEF Access

\* A faulting access leaves no trace in the TLB or in the page table entries.
THEOREM FaultsLeaveNoTrace == Spec => FaultLeavesNoTrace
<1>1. [Next]_vars =>
        [\A pg \in Pages, write, user \in BOOLEAN :
           Access(pg, write, user) /\ res'.fault => UNCHANGED <<pt, tlb>>]_vars
  BY FaultKeeps
<1> QED
  BY <1>1, PTL DEF Spec, FaultLeavesNoTrace
=============================================================================
