------------------------------- MODULE MCTLB -------------------------------
(***************************************************************************)
(* Two small instances of TLB in one run, told apart by the last page of   *)
(* the table, which is absent for ever in the first.  Rights: one space,   *)
(* one page, every mix of page and directory rights, and two frames.       *)
(* Spaces: two directories that share a table of three pages, whose D bits *)
(* the guest clears and sets.                                              *)
(***************************************************************************)
EXTENDS TLB

MCPage0 == <<0, 0>>

Leaf(p, rw, us, a, d, f) ==
  [p |-> p, rw |-> rw, us |-> us, a |-> a, d |-> d, frame |-> f]
Dir(p, rw, us, t) == [p |-> p, rw |-> rw, us |-> us, a |-> FALSE, table |-> t]

F1 == CHOOSE f \in Frames : TRUE
F2 == CHOOSE f \in Frames : f # F1
S1 == CHOOSE s \in Spaces : TRUE
T1 == CHOOSE t \in Tables : TRUE

AbsentPTE == Leaf(FALSE, FALSE, FALSE, FALSE, FALSE, F1)
AbsentPDE == Dir(FALSE, TRUE, TRUE, T1)

RightsPTEs == {AbsentPTE,
               Leaf(TRUE, TRUE, TRUE, FALSE, FALSE, F1),
               Leaf(TRUE, FALSE, TRUE, FALSE, FALSE, F2),
               Leaf(TRUE, TRUE, FALSE, FALSE, FALSE, F2)}
RightsPDEs == {AbsentPDE, Dir(TRUE, TRUE, TRUE, T1),
               Dir(TRUE, FALSE, TRUE, T1), Dir(TRUE, TRUE, FALSE, T1)}
SpacesPTEs == {Leaf(TRUE, TRUE, TRUE, TRUE, FALSE, F1),
               Leaf(TRUE, TRUE, TRUE, TRUE, TRUE, F1)}
SpacesPDEs == {AbsentPDE, Dir(TRUE, TRUE, TRUE, T1)}

MCPTEs == RightsPTEs \cup SpacesPTEs
MCPDEs == RightsPDEs \cup SpacesPDEs

Rights == ~pt[T1][2].p

MCInit ==
  /\ Init
  /\ \/ /\ pt \in [Tables -> [Idxs -> RightsPTEs]]
        /\ cr3 = S1 /\ \A s \in Spaces \ {S1} : pd[s][0] = AbsentPDE
        /\ pt[T1][1] = AbsentPTE /\ pt[T1][2] = AbsentPTE
     \/ /\ pt \in [Tables -> [Idxs -> SpacesPTEs]]
        /\ pd \in [Spaces -> [Dirs -> SpacesPDEs]]

\* Bound: in the second instance the guest edits no table once a page was seen
\* in two forms.
FewSeen == \A pg \in Pages : Cardinality(seen[pg]) < 2

MCNext ==
  \/ \E write, user \in BOOLEAN :
       \E pg \in IF Rights THEN {MCPage0} ELSE Pages : Access(pg, write, user)
  \/ Rights /\ \E pte \in RightsPTEs : GuestPTE(T1, 0, pte)
  \/ Rights /\ \E pde \in RightsPDEs : GuestPDE(S1, 0, pde)
  \/ Rights /\ (MovCR3(S1) \/ MovCR0)
  \/ ~Rights /\ FewSeen /\ \E i \in Idxs, pte \in SpacesPTEs : GuestPTE(T1, i, pte)
  \/ ~Rights /\ FewSeen /\ \E s \in Spaces, pde \in SpacesPDEs : GuestPDE(s, 0, pde)
  \/ ~Rights /\ \E s \in Spaces : MovCR3(s)
  \/ ~Rights /\ ~paging /\ MovCR0

MCSpec == MCInit /\ [][MCNext]_vars
=============================================================================
