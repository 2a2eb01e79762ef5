------------------------------- MODULE Paging -------------------------------
(***************************************************************************)
(* What the 386's MMU promises, with no cache in sight: an access goes     *)
(* through the tables in memory, or through an entry the page has had      *)
(* since CR3 was last loaded.  TLB is shown to implement this.             *)
(***************************************************************************)
EXTENDS PageTables

\* A walk: the directory entry's A bit is set even when the access faults later.
Walk(pg, write, user) ==
  IF ~PDEOf(pg).p
  THEN /\ res' = PageFault(pg, write, user, FALSE)
       /\ UNCHANGED memVars
  ELSE LET pte == PTEOf(pg)
           eff == Restrained(Touched(pte, write), PDEOf(pg))
       IN  /\ pd' = [pd EXCEPT ![cr3][pg[1]].a = TRUE]
           /\ UNCHANGED <<paging, cr3>>
           /\ IF ~pte.p
              THEN res' = PageFault(pg, write, user, FALSE) /\ UNCHANGED pt
              ELSE /\ res' = Through(eff, pg, write, user)
                   /\ pt' = IF Allowed(eff, write, user)
                            THEN [pt EXCEPT ![PDEOf(pg).table][pg[2]] =
                                              Touched(pte, write)]
                            ELSE pt
           /\ Remember

\* An entry seen since the last flush serves, if its A (and D) bits already say so.
Remembered(pg, write, user) ==
  /\ \E eff \in seen[pg] :
       /\ eff.a
       /\ write => eff.d
       /\ res' = Through(eff, pg, write, user)
  /\ UNCHANGED memVars

Access(pg, write, user) ==
  paging /\ (Walk(pg, write, user) \/ Remembered(pg, write, user))

Next ==
  \/ \E pg \in Pages, write, user \in BOOLEAN : Access(pg, write, user)
  \/ \E t \in Tables, i \in Idxs, pte \in PTEWrites : WritePTE(t, i, pte)
  \/ \E s \in Spaces, d \in Dirs, pde \in PDEWrites : WritePDE(s, d, pde)
  \/ \E s \in Spaces : LoadCR3(s)
  \/ SwitchPaging

vars == <<paging, cr3, pd, pt, seen, res>>
Spec == InitTables /\ [][Next]_vars
=============================================================================
