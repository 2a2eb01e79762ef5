--------------------------- MODULE ProtectedProofs ---------------------------
(***************************************************************************)
(* Proofs about Protected, for every set of tasks and every guest.         *)
(*                                                                         *)
(* Which TSS descriptors are marked busy: all that interrupts, returns and *)
(* the loads of segment registers do leaves TR and the marks alone; a      *)
(* switch moves the mark, or leaves it to a task that waits.               *)
(*                                                                         *)
(* What is cached: whatever writes a selector, CR3, VM or LDTR loads the   *)
(* cache that belongs to it.  The lemmas on fields say which registers     *)
(* each of the model's operators changes, and which it leaves alone.       *)
(*                                                                         *)
(* Contexts: the frames on a kernel stack are the contexts that wait there.*)
(* An interrupt adds one, which says what the registers were; a return     *)
(* finds it on top and restores it; a switch moves no frame.  So Protected *)
(* implements ContextStacks.                                               *)
(***************************************************************************)
EXTENDS Protected, NaturalsInduction, WellFoundedInduction, TLAPS

-----------------------------------------------------------------------------
(***************************************************************************)
(* What leaves TR and the marks alone.                                     *)
(***************************************************************************)
HasTR(r) == "tr" \in DOMAIN r
SameTR(r, s) == HasTR(s) /\ s.tr = r.tr

IsMachine(m) == {"reg", "stack", "tss", "busy", "link"} \subseteq DOMAIN m /\ HasTR(m.reg)
SameMarks(m, n) == IsMachine(n) /\ n.busy = m.busy /\ n.reg.tr = m.reg.tr

\* Loading a segment register leaves the task register alone.
LEMMA SegRegKeepsTR ==
  ASSUME NEW r, HasTR(r), NEW seg, NEW s
  PROVE  /\ SameTR(r, updateSegReg(r, seg, s))
         /\ SameTR(r, updateSegRegNP(r, seg, s))
         /\ SameTR(r, Nulled(r, seg))
<1>1. SameTR(r, updateSegReg(r, seg, s)) /\ SameTR(r, updateSegReg(r, seg, "null"))
  BY DEF updateSegReg, SameTR, HasTR
<1>2. SameTR(r, updateSegRegNP(r, seg, s))
  BY DEF updateSegRegNP, SameTR, HasTR
<1>3. SameTR(r, r)
  BY DEF SameTR, HasTR
<1> QED
  BY <1>1, <1>2, <1>3 DEF Nulled

\* The changes of the other registers.
LEMMA FieldsKeepTR ==
  ASSUME NEW r, HasTR(r), NEW x, NEW y, NEW z
  PROVE  /\ SameTR(r, [r EXCEPT !.ip = x])
         /\ SameTR(r, [r EXCEPT !.sp = x])
         /\ SameTR(r, [r EXCEPT !.cpl = x])
         /\ SameTR(r, [r EXCEPT !.nt = x])
         /\ SameTR(r, [r EXCEPT !.if = x, !.nt = y, !.ip = z])
         /\ SameTR(r, Gated(r, x))
         /\ SameTR(r, SetFlags(r, x))
BY DEF SameTR, HasTR, Gated, SetFlags

\* Steps that leave the task register alone can be put together.
LEMMA TRTransitive ==
  ASSUME NEW r, NEW s, NEW t, SameTR(r, s), SameTR(s, t)
  PROVE  SameTR(r, t)
BY DEF SameTR

\* Going to an inner stack leaves the task register alone.
LEMMA InnerStackKeepsTR ==
  ASSUME NEW r, HasTR(r)
  PROVE  SameTR(r, InnerStack(r))
<1> DEFINE r1 == [r EXCEPT !.cpl = 0]
           r2 == updateSegReg(r1, "ss", "KDS")
           r3 == [r2 EXCEPT !.sp = <<r.dtr, 0>>]
<1>1. SameTR(r, r1)
  BY FieldsKeepTR
<1>2. InnerStack(r) = r3
  BY DEF InnerStack
<1> HIDE DEF r1
<1>3. SameTR(r1, r2)
  BY <1>1, SegRegKeepsTR DEF SameTR
<1> HIDE DEF r2
<1>4. SameTR(r2, r3)
  BY <1>3, FieldsKeepTR DEF SameTR
<1> HIDE DEF r3
<1> QED
  BY <1>1, <1>2, <1>3, <1>4, TRTransitive

\* A machine whose registers change, but for TR.
LEMMA RegKeepsMarks ==
  ASSUME NEW m, IsMachine(m), NEW r, SameTR(m.reg, r)
  PROVE  SameMarks(m, [m EXCEPT !.reg = r])
BY DEF SameMarks, IsMachine, SameTR

\* Steps that leave the marks alone can be put together.
LEMMA MarksTransitive ==
  ASSUME NEW m, NEW n, NEW o, SameMarks(m, n), SameMarks(n, o)
  PROVE  SameMarks(m, o)
BY DEF SameMarks

\* A push leaves the marks alone.
LEMMA PushKeepsMarks ==
  ASSUME NEW m, IsMachine(m), NEW ws
  PROVE  SameMarks(m, PushAll(m, ws))
BY DEF PushAll, SameMarks, IsMachine, HasTR

\* A pop leaves the marks alone.
LEMMA PopKeepsMarks ==
  ASSUME NEW m, IsMachine(m), NEW i
  PROVE  SameMarks(m, Forget(m, i)) /\ SameMarks(m, Pop(m, i))
BY DEF Forget, Pop, SameMarks, IsMachine, HasTR

\* The state is a machine.
LEMMA StateIsMachine == ASSUME HasTR(reg) PROVE IsMachine(State) /\ SameMarks(State, State)
BY DEF State, IsMachine, SameMarks

-----------------------------------------------------------------------------
(***************************************************************************)
(* Interrupts and returns.                                                 *)
(***************************************************************************)
LEMMA SaveVmKeepsMarks ==
  ASSUME NEW m, IsMachine(m)
  PROVE  SameMarks(m, SaveVmSegments(m))
<1> DEFINE n == PushAll(m, << <<"ds", m.reg.sel["ds"]>>, <<"es", m.reg.sel["es"]>> >>)
           r1 == updateSegReg(n.reg, "ds", "null")
           r2 == updateSegReg(r1, "es", "null")
<1>1. SameMarks(m, n) /\ IsMachine(n) /\ HasTR(n.reg)
  BY PushKeepsMarks DEF SameMarks, IsMachine
<1>2. SaveVmSegments(m) = [n EXCEPT !.reg = r2]
  BY DEF SaveVmSegments
<1> HIDE DEF n
<1>3. SameTR(n.reg, r1)
  BY <1>1, SegRegKeepsTR
<1> HIDE DEF r1
<1>4. SameTR(r1, r2)
  BY <1>3, SegRegKeepsTR DEF SameTR
<1> HIDE DEF r2
<1>5. SameTR(n.reg, r2)
  BY <1>3, <1>4, TRTransitive
<1> QED
  BY <1>1, <1>2, <1>5, RegKeepsMarks, MarksTransitive

\* Entering a handler leaves the marks alone.
LEMMA EnterKeepsMarks ==
  ASSUME NEW m, IsMachine(m), NEW gate, NEW codes
  PROVE  SameMarks(m, EnterINT(m, gate, codes))
<1> DEFINE r == m.reg
           inner == [m EXCEPT !.reg = InnerStack(Gated(r, gate))]
           entered == IF r.vm THEN SaveVmSegments(inner) ELSE inner
           words == << <<"ss", r.sel["ss"]>>, <<"esp", r.sp>> >>
           same == [m EXCEPT !.reg = Gated(r, gate)]
           based == CASE r.cpl = 0 -> same [] OTHER -> PushAll(entered, words)
           frame == << <<"eflags", Flags(r)>>, <<"cs", r.sel["cs"]>>, <<"eip", r.ip>> >>
           pushed == PushAll(based, frame \o codes)
           last == [updateSegReg(pushed.reg, "cs", "KCS") EXCEPT !.ip = 0]
<1>0. HasTR(r)
  BY DEF IsMachine
<1>1. EnterINT(m, gate, codes) = [pushed EXCEPT !.reg = last]
  BY DEF EnterINT
<1>2. SameTR(r, Gated(r, gate)) /\ SameTR(r, InnerStack(Gated(r, gate)))
  <2>1. SameTR(r, Gated(r, gate))
    BY <1>0, FieldsKeepTR
  <2>2. SameTR(Gated(r, gate), InnerStack(Gated(r, gate)))
    BY <2>1, InnerStackKeepsTR DEF SameTR
  <2> QED
    BY <2>1, <2>2, TRTransitive
<1>3. SameMarks(m, same) /\ SameMarks(m, inner)
  BY <1>2, RegKeepsMarks
<1> HIDE DEF inner, same
<1>4. SameMarks(m, entered)
  <2>1. IsMachine(inner)
    BY <1>3 DEF SameMarks
  <2>2. SameMarks(inner, SaveVmSegments(inner))
    BY <2>1, SaveVmKeepsMarks
  <2> QED
    BY <1>3, <2>2, MarksTransitive
<1> HIDE DEF entered, words
<1>5. SameMarks(m, PushAll(entered, words))
  BY <1>4, PushKeepsMarks, MarksTransitive DEF SameMarks
<1>6. SameMarks(m, based)
  BY <1>3, <1>5
<1> HIDE DEF based, frame
<1>7. SameMarks(m, pushed) /\ IsMachine(pushed) /\ HasTR(pushed.reg)
  <2>1. IsMachine(based)
    BY <1>6 DEF SameMarks
  <2>2. SameMarks(based, pushed)
    BY <2>1, PushKeepsMarks
  <2> QED
    BY <1>6, <2>2, MarksTransitive DEF SameMarks, IsMachine
<1> HIDE DEF pushed
<1>8. SameTR(pushed.reg, last)
  <2> DEFINE s == updateSegReg(pushed.reg, "cs", "KCS")
  <2>1. SameTR(pushed.reg, s)
    BY <1>7, SegRegKeepsTR
  <2> HIDE DEF s
  <2>2. SameTR(s, [s EXCEPT !.ip = 0])
    BY <2>1, FieldsKeepTR DEF SameTR
  <2>3. last = [s EXCEPT !.ip = 0]
    BY DEF s
  <2> HIDE DEF last
  <2> QED
    BY <2>1, <2>2, <2>3, TRTransitive
<1> HIDE DEF last
<1> QED
  BY <1>1, <1>7, <1>8, RegKeepsMarks, MarksTransitive

\* Faults leave the marks alone.
LEMMA FaultsKeepMarks ==
  ASSUME NEW m, IsMachine(m)
  PROVE  SameMarks(m, Faults(m))
BY EnterKeepsMarks DEF Faults

\* IRET to virtual 8086 mode leaves the marks alone.
LEMMA IretVMKeepsMarks ==
  ASSUME NEW m, IsMachine(m)
  PROVE  SameMarks(m, IretToVM(m))
<1> DEFINE w(i) == Word(m, i)[2]
           a0 == SetFlags(m.reg, w(2))
           r0 == updateSegReg(a0, "cs", w(1))
           a1 == [r0 EXCEPT !.ip = w(0)]
           r1 == updateSegReg(a1, "ss", w(4))
           a2 == [r1 EXCEPT !.sp = w(3)]
           r2 == updateSegReg(a2, "es", w(5))
           r3 == updateSegReg(r2, "ds", w(6))
           r4 == [r3 EXCEPT !.cpl = 3]
<1>1. IretToVM(m) = [Forget(m, 7) EXCEPT !.reg = r4]
  BY DEF IretToVM
<1> HIDE DEF w
<1>2. SameTR(m.reg, a0)
  BY FieldsKeepTR DEF IsMachine
<1> HIDE DEF a0
<1>3. SameTR(a0, r0)
  BY <1>2, SegRegKeepsTR DEF SameTR
<1> HIDE DEF r0
<1>4. SameTR(r0, a1)
  BY <1>3, FieldsKeepTR DEF SameTR
<1> HIDE DEF a1
<1>5. SameTR(a1, r1)
  BY <1>4, SegRegKeepsTR DEF SameTR
<1> HIDE DEF r1
<1>6. SameTR(r1, a2)
  BY <1>5, FieldsKeepTR DEF SameTR
<1> HIDE DEF a2
<1>7. SameTR(a2, r2)
  BY <1>6, SegRegKeepsTR DEF SameTR
<1> HIDE DEF r2
<1>8. SameTR(r2, r3)
  BY <1>7, SegRegKeepsTR DEF SameTR
<1> HIDE DEF r3
<1>9. SameTR(r3, r4)
  BY <1>8, FieldsKeepTR DEF SameTR
<1> HIDE DEF r4
<1>10. SameTR(m.reg, r4)
  BY <1>2, <1>3, <1>4, <1>5, <1>6, <1>7, <1>8, <1>9 DEF SameTR
<1>11. IsMachine(Forget(m, 7)) /\ SameMarks(m, Forget(m, 7)) /\ Forget(m, 7).reg = m.reg
  BY PopKeepsMarks DEF Forget, SameMarks, IsMachine
<1> QED
  BY <1>1, <1>10, <1>11, RegKeepsMarks, MarksTransitive

\* IRET to an outer ring leaves the marks alone.
LEMMA IretOuterKeepsMarks ==
  ASSUME NEW m, IsMachine(m)
  PROVE  SameMarks(m, IretOuter(m))
<1> DEFINE w(i) == Word(m, i)[2]
           r0 == [m.reg EXCEPT !.if = w(2).if, !.nt = w(2).nt, !.ip = w(0)]
           a0 == updateSegReg(r0, "cs", w(1))
           r1 == updateSegReg(a0, "ss", w(4))
           r2 == [r1 EXCEPT !.sp = w(3)]
           a2 == Nulled(r2, "es")
           r3 == Nulled(a2, "ds")
<1>1. IretOuter(m) = [Forget(m, 5) EXCEPT !.reg = r3]
  BY DEF IretOuter
<1>2. SameTR(m.reg, r0)
  BY FieldsKeepTR DEF IsMachine
<1> HIDE DEF w, r0
<1>3. SameTR(r0, a0)
  BY <1>2, SegRegKeepsTR DEF SameTR
<1> HIDE DEF a0
<1>4. SameTR(a0, r1)
  BY <1>3, SegRegKeepsTR DEF SameTR
<1> HIDE DEF r1
<1>5. SameTR(r1, r2)
  BY <1>4, FieldsKeepTR DEF SameTR
<1> HIDE DEF r2
<1>6. SameTR(r2, a2)
  BY <1>5, SegRegKeepsTR DEF SameTR
<1> HIDE DEF a2
<1>7. SameTR(a2, r3)
  BY <1>6, SegRegKeepsTR DEF SameTR
<1> HIDE DEF r3
<1>8. SameTR(m.reg, r3)
  BY <1>2, <1>3, <1>4, <1>5, <1>6, <1>7 DEF SameTR
<1>9. IsMachine(Forget(m, 5)) /\ SameMarks(m, Forget(m, 5)) /\ Forget(m, 5).reg = m.reg
  BY PopKeepsMarks DEF Forget, SameMarks, IsMachine
<1> QED
  BY <1>1, <1>8, <1>9, RegKeepsMarks, MarksTransitive

\* IRET to the same ring leaves the marks alone.
LEMMA IretSameKeepsMarks ==
  ASSUME NEW m, IsMachine(m)
  PROVE  SameMarks(m, IretSame(m))
<1> DEFINE w(i) == Word(m, i)[2]
           r0 == [m.reg EXCEPT !.if = w(2).if, !.nt = w(2).nt, !.ip = w(0)]
           r1 == updateSegReg(r0, "cs", w(1))
           n == [m EXCEPT !.reg = r1]
<1>1. IretSame(m) = Pop(n, 3)
  BY DEF IretSame
<1>2. SameTR(m.reg, r0)
  BY FieldsKeepTR DEF IsMachine
<1> HIDE DEF w, r0
<1>3. SameTR(r0, r1)
  BY <1>2, SegRegKeepsTR DEF SameTR
<1> HIDE DEF r1
<1>4. SameTR(m.reg, r1)
  BY <1>2, <1>3, TRTransitive
<1>5. SameMarks(m, n)
  BY <1>4, RegKeepsMarks
<1> HIDE DEF n
<1>6. SameMarks(n, Pop(n, 3))
  BY <1>5, PopKeepsMarks DEF SameMarks
<1> QED
  BY <1>1, <1>5, <1>6, MarksTransitive

\* An IRET that is no task return leaves the marks alone.
LEMMA IretKeepsMarks ==
  ASSUME NEW m, IsMachine(m)
  PROVE  SameMarks(m, exIRET(m))
<1>1. exIRET(m) \in {IretToVM(m), IretOuter(m), IretSame(m)}
  BY DEF exIRET
<1> QED
  BY <1>1, IretVMKeepsMarks, IretOuterKeepsMarks, IretSameKeepsMarks

-----------------------------------------------------------------------------
(***************************************************************************)
(* The task switch.                                                        *)
(***************************************************************************)
LEMMA LoadStateKeepsTR ==
  ASSUME NEW r, HasTR(r), NEW T
  PROVE  SameTR(r, loadTaskState(r, T))
<1> DEFINE r0 == [SetFlags(r, T.flags) EXCEPT !.cr3 = r.dtr, !.tlb = {r.dtr},
                      !.ldtr = r.dtr, !.dldt = r.dtr, !.ax = T.ax, !.sp = T.sp]
           a0 == updateSegReg(r0, "es", T.sel["es"])
           r1 == updateSegReg(a0, "cs", T.sel["cs"])
           a1 == updateSegReg(r1, "ss", T.sel["ss"])
           r2 == updateSegReg(a1, "ds", T.sel["ds"])
           r3 == [r2 EXCEPT !.ip = T.ip]
<1>1. loadTaskState(r, T) = r3
  BY DEF loadTaskState
<1>2. SameTR(r, r0)
  BY DEF SetFlags, SameTR, HasTR
<1> HIDE DEF r0
<1>3. SameTR(r0, a0)
  BY <1>2, SegRegKeepsTR DEF SameTR
<1> HIDE DEF a0
<1>4. SameTR(a0, r1)
  BY <1>3, SegRegKeepsTR DEF SameTR
<1> HIDE DEF r1
<1>5. SameTR(r1, a1)
  BY <1>4, SegRegKeepsTR DEF SameTR
<1> HIDE DEF a1
<1>6. SameTR(a1, r2)
  BY <1>5, SegRegKeepsTR DEF SameTR
<1> HIDE DEF r2
<1>7. SameTR(r2, r3)
  BY <1>6, FieldsKeepTR DEF SameTR
<1> HIDE DEF r3
<1> QED
  BY <1>1, <1>2, <1>3, <1>4, <1>5, <1>6, <1>7 DEF SameTR

\* After a switch the new task runs and nothing else has been marked.
LEMMA NewTaskRuns ==
  ASSUME NEW m, IsMachine(m), NEW t
  PROVE  LET n == NewTask(m, t)
         IN  IsMachine(n) /\ n.busy = m.busy /\ n.reg.tr = t
<1> DEFINE r == [m.reg EXCEPT !.tr = t, !.dtr = t, !.ts = TRUE]
           r1 == loadTaskState(r, m.tss[t])
<1>1. HasTR(r) /\ r.tr = t
  BY DEF IsMachine, HasTR
<1>2. NewTask(m, t) = [m EXCEPT !.reg = r1, !.tss[t] = Forgotten(t)]
  BY DEF NewTask
<1> HIDE DEF r
<1>3. SameTR(r, r1)
  BY <1>1, LoadStateKeepsTR
<1>4. HasTR(r1) /\ r1.tr = t
  BY <1>1, <1>3 DEF SameTR
<1> HIDE DEF r1
<1> QED
  BY <1>2, <1>4 DEF IsMachine

\* unloadTaskRegister, which clears the mark or keeps it.
LEMMA UnloadTRMarks ==
  ASSUME NEW m, IsMachine(m), NEW ip, NEW clear \in BOOLEAN, NEW clearNT \in BOOLEAN
  PROVE  /\ IsMachine(unloadTaskRegister(m, ip, clear, clearNT))
         /\ unloadTaskRegister(m, ip, clear, clearNT).busy =
               IF clear THEN m.busy \ {m.reg.tr} ELSE m.busy
<1> DEFINE r == [m.reg EXCEPT !.nt = @ /\ ~clearNT]
<1>1. HasTR(r) /\ r.tr = m.reg.tr
  BY DEF IsMachine, HasTR
<1> DEFINE saved == [flags |-> Flags(r), ax |-> r.ax, ip |-> ip, sp |-> r.sp, sel |-> r.sel]
           left == IF clear THEN m.busy \ {r.tr} ELSE m.busy
<1>2. unloadTaskRegister(m, ip, clear, clearNT) =
        [m EXCEPT !.busy = left, !.reg = r, !.tss[r.dtr] = saved]
  BY DEF unloadTaskRegister
<1> HIDE DEF r, saved
<1> QED
  BY <1>1, <1>2 DEF IsMachine

\* JMP moves the mark, CALL adds one, IRET takes one away.
LEMMA SwitchMarks ==
  ASSUME NEW m, IsMachine(m), NEW t
  PROVE  /\ LET n == SwitchByJMP(m, t)
            IN n.reg.tr = t /\ n.busy = (m.busy \cup {t}) \ {m.reg.tr} /\ HasTR(n.reg)
         /\ LET n == SwitchByCALL(m, t)
            IN n.reg.tr = t /\ n.busy = m.busy \cup {t} /\ HasTR(n.reg)
         /\ LET n == SwitchByIRET(m, t)
            IN n.reg.tr = t /\ n.busy = m.busy \ {m.reg.tr} /\ HasTR(n.reg)
<1>1. LET n == SwitchByJMP(m, t)
      IN n.reg.tr = t /\ n.busy = (m.busy \cup {t}) \ {m.reg.tr} /\ HasTR(n.reg)
  <2> DEFINE a == loadTaskRegister(m, t, TRUE, None)
             b == unloadTaskRegister(a, Next1(m.reg.ip), TRUE, FALSE)
             c == NewTask(b, t)
  <2>1. IsMachine(a) /\ a.reg = m.reg /\ a.busy = m.busy \cup {t}
    BY DEF loadTaskRegister, IsMachine, HasTR
  <2> HIDE DEF a
  <2>2. IsMachine(b) /\ b.busy = a.busy \ {a.reg.tr}
    BY <2>1, UnloadTRMarks
  <2> HIDE DEF b
  <2>3. IsMachine(c) /\ c.busy = b.busy /\ c.reg.tr = t
    BY <2>2, NewTaskRuns
  <2>4. SwitchByJMP(m, t) = [c EXCEPT !.reg.nt = FALSE]
    BY DEF SwitchByJMP, a, b, c
  <2> HIDE DEF c
  <2> QED
    BY <2>1, <2>2, <2>3, <2>4 DEF IsMachine, HasTR
<1>2. LET n == SwitchByCALL(m, t)
      IN n.reg.tr = t /\ n.busy = m.busy \cup {t} /\ HasTR(n.reg)
  <2> DEFINE a == loadTaskRegister(m, t, TRUE, m.reg.tr)
             b == unloadTaskRegister(a, Next1(m.reg.ip), FALSE, FALSE)
             c == NewTask(b, t)
  <2>1. IsMachine(a) /\ a.busy = m.busy \cup {t}
    BY DEF loadTaskRegister, IsMachine, HasTR
  <2> HIDE DEF a
  <2>2. IsMachine(b) /\ b.busy = a.busy
    BY <2>1, UnloadTRMarks
  <2> HIDE DEF b
  <2>3. IsMachine(c) /\ c.busy = b.busy /\ c.reg.tr = t
    BY <2>2, NewTaskRuns
  <2>4. SwitchByCALL(m, t) = [c EXCEPT !.reg.nt = TRUE]
    BY DEF SwitchByCALL, a, b, c
  <2> HIDE DEF c
  <2> QED
    BY <2>1, <2>2, <2>3, <2>4 DEF IsMachine, HasTR
<1>3. LET n == SwitchByIRET(m, t)
      IN n.reg.tr = t /\ n.busy = m.busy \ {m.reg.tr} /\ HasTR(n.reg)
  <2> DEFINE a == loadTaskRegister(m, t, FALSE, None)
             b == unloadTaskRegister(a, Next1(m.reg.ip), TRUE, TRUE)
  <2>1. IsMachine(a) /\ a.reg = m.reg /\ a.busy = m.busy
    BY DEF loadTaskRegister, IsMachine, HasTR
  <2> HIDE DEF a
  <2>2. IsMachine(b) /\ b.busy = a.busy \ {a.reg.tr}
    BY <2>1, UnloadTRMarks
  <2>3. SwitchByIRET(m, t) = NewTask(b, t)
    BY DEF SwitchByIRET, a, b
  <2> HIDE DEF b
  <2> QED
    BY <2>1, <2>2, <2>3, NewTaskRuns DEF IsMachine
<1> QED
  BY <1>1, <1>2, <1>3

-----------------------------------------------------------------------------
(***************************************************************************)
(* The marks.                                                              *)
(***************************************************************************)

\* Until LTR nothing is marked; from then on the running task is none of those
\* that wait or were left marked, and no task is both.
MarksInv ==
    /\ HasTR(reg)
    /\ waiting \cap refused = {}
    /\ reg.tr = None => busy = {} /\ waiting = {} /\ refused = {}
    /\ reg.tr # None => reg.tr \notin waiting \cup refused
    /\ OneBusy

MarksUnchanged == HasTR(reg') /\ reg'.tr = reg.tr /\ UNCHANGED <<busy, waiting, refused>>

\* A step that changes nothing keeps the marks.
LEMMA MarksStutter == MarksInv /\ MarksUnchanged => MarksInv'
BY DEF MarksInv, MarksUnchanged, OneBusy, HasTR

\* The marks at the start.
LEMMA MarksInit == Init => MarksInv
BY DEF Init, MarksInv, OneBusy, HasTR

\* A step to a machine with the same marks leaves the marks of the state alone.
LEMMA SetKeepsMarks ==
  ASSUME HasTR(reg), NEW m, SameMarks(State, m), Set(m), UNCHANGED <<waiting, refused>>
  PROVE  MarksUnchanged
BY DEF Set, SameMarks, State, MarksUnchanged, IsMachine, HasTR

\* Every step keeps the marks consistent.
LEMMA MarksStep == MarksInv /\ [Next]_vars => MarksInv'
<1> SUFFICES ASSUME MarksInv, [Next]_vars PROVE MarksInv'
  OBVIOUS
<1>0. HasTR(reg) /\ IsMachine(State) /\ SameMarks(State, State)
  BY StateIsMachine DEF MarksInv
<1>1. CASE Ltr
  <2> DEFINE m == loadTaskRegister(State, Boot, TRUE, None)
  <2>1. IsMachine(m) /\ m.reg = reg /\ m.busy = busy \cup {Boot}
    BY <1>0 DEF loadTaskRegister, IsMachine, HasTR, State
  <2>2. Set([m EXCEPT !.reg.dtr = Boot, !.reg.tr = Boot]) /\ reg.tr = None
        /\ UNCHANGED <<waiting, refused>>
    BY <1>1 DEF Ltr, guest
  <2> HIDE DEF m
  <2>3. busy' = busy \cup {Boot} /\ HasTR(reg') /\ reg'.tr = Boot
    BY <2>1, <2>2 DEF Set, IsMachine, HasTR
  <2> QED
    BY <2>2, <2>3, ProtectedAssumption DEF MarksInv, OneBusy
<1>2. CASE Lldt \/ Compute \/ Clts
  <2>1. HasTR(reg') /\ reg'.tr = reg.tr
    BY <1>0, <1>2 DEF Lldt, Compute, Clts, HasTR
  <2>2. UNCHANGED <<busy, waiting, refused>>
    BY <1>2 DEF Lldt, Compute, Clts, memory, guest
  <2> QED
    BY <2>1, <2>2, MarksStutter DEF MarksUnchanged
<1>3. CASE LoadAbsent
  <2> DEFINE r == updateSegRegNP(reg, "es", "UXS")
             m == [State EXCEPT !.reg = r]
  <2>1. SameMarks(State, m)
    <3>1. SameTR(State.reg, r)
      BY <1>0, SegRegKeepsTR DEF State
    <3> QED
      BY <3>1, <1>0, RegKeepsMarks
  <2>2. m = [State EXCEPT !.reg = updateSegRegNP(@, "es", "UXS")]
    BY DEF State
  <2>3. Set(Faults(m)) /\ UNCHANGED <<waiting, refused>>
    BY <1>3, <2>2 DEF LoadAbsent
  <2> HIDE DEF m
  <2>4. SameMarks(m, Faults(m))
    BY <2>1, FaultsKeepMarks DEF SameMarks
  <2> QED
    BY <1>0, <2>1, <2>3, <2>4, MarksTransitive, SetKeepsMarks, MarksStutter
<1>4. CASE SetPresence
  BY <1>0, <1>4, MarksStutter DEF SetPresence, memory, MarksUnchanged
<1>5. ASSUME NEW seg \in {"ds", "es"}, NEW s \in Selectors, LoadSegment(seg, s) PROVE MarksInv'
  <2> DEFINE r == updateSegReg(reg, seg, s)
  <2>1. SameTR(reg, r)
    BY <1>0, SegRegKeepsTR
  <2>2. reg' = [r EXCEPT !.ip = Next1(@)] /\ UNCHANGED <<busy, waiting, refused>>
    BY <1>5 DEF LoadSegment, memory
  <2> HIDE DEF r
  <2>3. SameTR(reg, reg')
    BY <2>1, <2>2 DEF SameTR, HasTR
  <2> QED
    BY <2>2, <2>3, MarksStutter DEF MarksUnchanged, SameTR
<1>6. ASSUME NEW gate \in {"int", "trap"}, Interrupt(gate) PROVE MarksInv'
  <2>1. Set(EnterINT(State, gate, << >>)) /\ UNCHANGED <<waiting, refused>>
    BY <1>6 DEF Interrupt, guest
  <2> QED
    BY <1>0, <2>1, EnterKeepsMarks, SetKeepsMarks, MarksStutter
<1>7. CASE DropCode
  <2> DEFINE m == Pop(State, 1)
  <2>1. SameMarks(State, m)
    BY <1>0, PopKeepsMarks
  <2>2. Set([m EXCEPT !.reg.ip = Next1(@)]) /\ UNCHANGED <<waiting, refused>>
    BY <1>7 DEF DropCode, guest
  <2> HIDE DEF m
  <2>3. SameMarks(State, [m EXCEPT !.reg.ip = Next1(@)])
    BY <2>1 DEF SameMarks, IsMachine, HasTR
  <2> QED
    BY <1>0, <2>2, <2>3, SetKeepsMarks, MarksStutter
<1>8. CASE Iret
  <2>1. Set(exIRET(State)) /\ UNCHANGED <<waiting, refused>>
    BY <1>8 DEF Iret, guest
  <2> QED
    BY <1>0, <2>1, IretKeepsMarks, SetKeepsMarks, MarksStutter
<1>9. CASE IretNTFaults
  <2>1. Set(Faults(State)) /\ UNCHANGED <<waiting, refused>>
    BY <1>9 DEF IretNTFaults, guest
  <2> QED
    BY <1>0, <2>1, FaultsKeepMarks, SetKeepsMarks, MarksStutter
<1>10. CASE RepairLink
  BY <1>0, <1>10, MarksStutter DEF RepairLink, guest, MarksUnchanged
<1>11. ASSUME NEW t \in Tasks, Jmp(t) PROVE MarksInv'
  <2> DEFINE n == SwitchByJMP(State, t)
  <2>1. n.reg.tr = t /\ n.busy = (busy \cup {t}) \ {reg.tr} /\ HasTR(n.reg)
    BY <1>0, SwitchMarks DEF State
  <2>2. Set(n) /\ UNCHANGED <<waiting, refused>> /\ t \notin busy /\ reg.tr # None
    BY <1>11 DEF Jmp, guest, MaySwitchTo, Kernel, Booted
  <2> HIDE DEF n
  <2> QED
    BY <2>1, <2>2, ProtectedAssumption DEF Set, MarksInv, OneBusy
<1>12. ASSUME NEW t \in Tasks, Call(t) PROVE MarksInv'
  <2> DEFINE n == SwitchByCALL(State, t)
  <2>1. n.reg.tr = t /\ n.busy = busy \cup {t} /\ HasTR(n.reg)
    BY <1>0, SwitchMarks DEF State
  <2>2. Set(n) /\ waiting' = waiting \cup {reg.tr} /\ refused' = refused
        /\ t \notin busy /\ reg.tr # None
    BY <1>12 DEF Call, MaySwitchTo, Kernel, Booted
  <2> HIDE DEF n
  <2> QED
    BY <2>1, <2>2, ProtectedAssumption DEF Set, MarksInv, OneBusy
<1>13. ASSUME NEW t \in Tasks, IretNT(t) PROVE MarksInv'
  <2> DEFINE n == SwitchByIRET(State, t)
  <2>1. n.reg.tr = t /\ n.busy = busy \ {reg.tr} /\ HasTR(n.reg)
    BY <1>0, SwitchMarks DEF State
  <2>2. Set(n) /\ waiting' = waiting \ {t} /\ refused' = refused
        /\ t \in waiting /\ reg.tr # None
    BY <1>13 DEF IretNT, Kernel, Booted
  <2> HIDE DEF n
  <2> QED
    BY <2>1, <2>2, ProtectedAssumption DEF Set, MarksInv, OneBusy
<1>14. ASSUME NEW t \in Tasks, JmpRefused(t) PROVE MarksInv'
  <2>1. CASE t \in busy
    <3>1. Set(Faults(State)) /\ UNCHANGED <<waiting, refused>>
      BY <1>14, <2>1 DEF JmpRefused
    <3> QED
      BY <1>0, <3>1, FaultsKeepMarks, SetKeepsMarks, MarksStutter
  <2>2. CASE t \notin busy
    <3> DEFINE m == loadTaskRegister(State, t, TRUE, None)
               n == Faults(m)
    <3>1. IsMachine(m) /\ m.reg = reg /\ m.busy = busy \cup {t}
      BY <1>0 DEF loadTaskRegister, IsMachine, HasTR, State
    <3>2. Set(n) /\ waiting' = waiting /\ refused' = refused \cup {t} /\ reg.tr # None
      BY <1>14, <2>2 DEF JmpRefused, User, Booted
    <3> HIDE DEF m
    <3>3. SameMarks(m, n)
      BY <3>1, FaultsKeepMarks
    <3> HIDE DEF n
    <3>4. busy' = busy \cup {t} /\ HasTR(reg') /\ reg'.tr = reg.tr
      BY <3>1, <3>2, <3>3 DEF Set, SameMarks, IsMachine
    <3> QED
      BY <2>2, <3>2, <3>4 DEF MarksInv, OneBusy
  <2> QED
    BY <2>1, <2>2
<1>15. ASSUME NEW t \in Tasks, JmpBusy(t) PROVE MarksInv'
  <2> DEFINE r == [reg EXCEPT !.ip = 0]
  <2>1. SameTR(reg, r)
    BY <1>0, FieldsKeepTR
  <2>2. reg' = updateSegReg(r, "cs", t) /\ UNCHANGED <<busy, waiting, refused>>
    BY <1>15 DEF JmpBusy, memory
  <2> HIDE DEF r
  <2>3. SameTR(reg, reg')
    BY <2>1, <2>2, SegRegKeepsTR, TRTransitive DEF SameTR
  <2> QED
    BY <2>2, <2>3, MarksStutter DEF MarksUnchanged, SameTR
<1>16. ASSUME NEW t \in Tasks, CallBusy(t) PROVE MarksInv'
  BY <1>0, <1>16, MarksStutter DEF CallBusy, memory, MarksUnchanged
<1>17. CASE UNCHANGED vars
  BY <1>0, <1>17, MarksStutter DEF vars, MarksUnchanged
<1> QED
  BY <1>1, <1>2, <1>3, <1>4, <1>5, <1>6, <1>7, <1>8, <1>9, <1>10, <1>11, <1>12, <1>13,
     <1>14, <1>15, <1>16, <1>17 DEF Next

\* The TSS of the running task is marked busy, and beside it only those of tasks
\* that wait and of those a refused JMP has left marked (loadTaskRegister,
\* unloadTaskRegister).
THEOREM OneBusyHolds == Spec => []OneBusy
<1>1. MarksInv => OneBusy
  BY DEF MarksInv
<1> QED
  BY MarksInit, MarksStep, <1>1, PTL DEF Spec

-----------------------------------------------------------------------------
(***************************************************************************)
(* What the operators change.                                              *)
(***************************************************************************)
RegNames == {"sel", "desc", "cpl", "if", "nt", "vm", "ip", "sp", "ax", "ldtr", "dldt",
             "tr", "dtr", "cr3", "tlb", "ts"}
IsRegs(r) ==
    RegNames \subseteq DOMAIN r /\ SegRegs \subseteq DOMAIN r.sel /\ SegRegs \subseteq DOMAIN r.desc

Agrees(r, seg) == r.desc[seg] = DescOf(r, r.sel[seg])

\* What a load of a segment register leaves alone, and what DescOf looks at.
Others(r) == <<r.if, r.nt, r.vm, r.ip, r.sp, r.ax, r.ldtr, r.dldt, r.tr, r.dtr, r.cr3, r.tlb, r.ts>>

\* What a load of a segment register changes.
LEMMA LoadFields ==
  ASSUME NEW r, IsRegs(r), NEW seg \in SegRegs, NEW s, NEW q, q = updateSegReg(r, seg, s)
  PROVE  /\ IsRegs(q) /\ Others(q) = Others(r)
         /\ q.cpl = IF seg = "cs" /\ ~r.vm THEN RPL(s) ELSE r.cpl
         /\ q.sel[seg] = s /\ Agrees(q, seg)
         /\ \A o \in SegRegs \ {seg} : q.sel[o] = r.sel[o] /\ q.desc[o] = r.desc[o]
         /\ \A o \in SegRegs : Agrees(r, o) => Agrees(q, o)
<1> DEFINE d == DescOf(r, s)
           c == IF seg = "cs" /\ ~r.vm THEN RPL(s) ELSE r.cpl
<1>1. q = [r EXCEPT !.sel[seg] = s, !.desc[seg] = d, !.cpl = c]
  BY DEF updateSegReg
<1> HIDE DEF d, c
<1>2. /\ IsRegs(q) /\ Others(q) = Others(r) /\ q.cpl = c
      /\ q.sel[seg] = s /\ q.desc[seg] = d
      /\ \A o \in SegRegs \ {seg} : q.sel[o] = r.sel[o] /\ q.desc[o] = r.desc[o]
  BY <1>1 DEF IsRegs, Others, RegNames
<1>3. q.vm = r.vm /\ q.dldt = r.dldt
  BY <1>2 DEF Others
<1>4. \A t : DescOf(q, t) = DescOf(r, t)
  BY <1>3 DEF DescOf
<1>5. Agrees(q, seg)
  BY <1>2, <1>4 DEF Agrees, d
<1>6. \A o \in SegRegs : Agrees(r, o) => Agrees(q, o)
  BY <1>2, <1>4, <1>5 DEF Agrees
<1> QED
  BY <1>2, <1>5, <1>6 DEF c

IsFun(f) == f = [x \in DOMAIN f |-> f[x]]
IsMac(m) ==
    {"reg", "stack", "tss", "busy", "link"} \subseteq DOMAIN m /\ IsRegs(m.reg) /\ IsFun(m.stack)

\* Everything of the registers but the segment registers, CPL and ESP.
Ids(r) == <<r.ldtr, r.dldt, r.tr, r.dtr, r.cr3, r.tlb>>
General(r) == <<r.ax, r.ts>>

GatedTo(r, g) ==
    /\ IsRegs(g) /\ g.vm = FALSE /\ g.nt = FALSE
    /\ g.sel = r.sel /\ g.desc = r.desc /\ g.cpl = r.cpl
    /\ g.ip = r.ip /\ g.sp = r.sp /\ Ids(g) = Ids(r) /\ General(g) = General(r)

\* What entering by a gate changes first.
LEMMA GatedFields ==
  ASSUME NEW r, IsRegs(r), NEW gate
  PROVE  GatedTo(r, Gated(r, gate))
<1> DEFINE i == r.if /\ gate = "trap"
           g == Gated(r, gate)
<1>1. g = [r EXCEPT !.if = i, !.nt = FALSE, !.vm = FALSE]
  BY DEF Gated
<1> HIDE DEF i, g
<1>2. GatedTo(r, g)
  BY <1>1 DEF GatedTo, IsRegs, RegNames, Ids, General
<1> QED
  BY <1>2 DEF g

Pushed(m, ws, n) ==
    /\ IsMac(n)
    /\ n.reg = [m.reg EXCEPT !.sp = <<m.reg.sp[1], m.reg.sp[2] + Len(ws)>>]
    /\ n.stack = [m.stack EXCEPT ![m.reg.sp[1]] = @ \o ws]
    /\ n.tss = m.tss /\ n.busy = m.busy /\ n.link = m.link

\* A push.
LEMMA PushFields ==
  ASSUME NEW m, IsMac(m), NEW ws, NEW n, n = PushAll(m, ws)
  PROVE  Pushed(m, ws, n)
<1> DEFINE t == m.reg.sp[1]
           x == m.stack[t] \o ws
           y == <<t, m.reg.sp[2] + Len(ws)>>
<1>1. n = [m EXCEPT !.stack[t] = x, !.reg.sp = y]
  BY DEF PushAll
<1> HIDE DEF t, x, y
<1>2. n.reg = [m.reg EXCEPT !.sp = y] /\ n.stack = [m.stack EXCEPT ![t] = x]
      /\ n.tss = m.tss /\ n.busy = m.busy /\ n.link = m.link
      /\ {"reg", "stack", "tss", "busy", "link"} \subseteq DOMAIN n
  BY <1>1 DEF IsMac
<1>3. IsRegs(n.reg)
  BY <1>2 DEF IsMac, IsRegs, RegNames
<1>4. IsFun(n.stack)
  BY <1>2 DEF IsMac, IsFun
<1> QED
  BY <1>2, <1>3, <1>4 DEF IsMac, x, y, t, Pushed

\* A change of ESP or EIP alone.
Moved(r, q) ==
    /\ IsRegs(q) /\ q.sel = r.sel /\ q.desc = r.desc /\ q.cpl = r.cpl
    /\ q.vm = r.vm /\ q.nt = r.nt /\ q.if = r.if
    /\ Ids(q) = Ids(r) /\ General(q) = General(r)
MovedSP(r, x, q) == Moved(r, q) /\ q.sp = x /\ q.ip = r.ip
MovedIP(r, x, q) == Moved(r, q) /\ q.ip = x /\ q.sp = r.sp

\* A change of ESP changes ESP alone.
LEMMA SPFields ==
  ASSUME NEW r, IsRegs(r), NEW x, NEW q, q = [r EXCEPT !.sp = x]
  PROVE  MovedSP(r, x, q)
BY DEF IsRegs, RegNames, Ids, General, Moved, MovedSP

\* A change of EIP changes EIP alone.
LEMMA IPFields ==
  ASSUME NEW r, IsRegs(r), NEW x, NEW q, q = [r EXCEPT !.ip = x]
  PROVE  MovedIP(r, x, q)
BY DEF IsRegs, RegNames, Ids, General, Moved, MovedIP

\* The inner stack.
LEMMA InnerFields ==
  ASSUME NEW r, IsRegs(r), NEW q, q = InnerStack(r)
  PROVE  /\ IsRegs(q) /\ q.cpl = 0 /\ q.sp = <<r.dtr, 0>> /\ q.sel["ss"] = "KDS"
         /\ q.vm = r.vm /\ q.nt = r.nt /\ q.if = r.if /\ q.ip = r.ip
         /\ Ids(q) = Ids(r) /\ General(q) = General(r)
         /\ \A o \in {"cs", "ds", "es"} : q.sel[o] = r.sel[o] /\ q.desc[o] = r.desc[o]
         /\ Agrees(q, "ss")
         /\ \A o \in SegRegs : Agrees(r, o) => Agrees(q, o)
<1> DEFINE r1 == [r EXCEPT !.cpl = 0]
           r2 == updateSegReg(r1, "ss", "KDS")
<1>1. /\ IsRegs(r1) /\ r1.cpl = 0 /\ r1.sel = r.sel /\ r1.desc = r.desc /\ r1.sp = r.sp
      /\ r1.vm = r.vm /\ r1.nt = r.nt /\ r1.if = r.if /\ r1.ip = r.ip
      /\ Ids(r1) = Ids(r) /\ General(r1) = General(r) /\ r1.dtr = r.dtr /\ r1.dldt = r.dldt
  BY DEF IsRegs, RegNames, Ids, General
<1>2. q = [r2 EXCEPT !.sp = <<r.dtr, 0>>]
  BY DEF InnerStack
<1>3. \A o \in SegRegs : Agrees(r, o) => Agrees(r1, o)
  BY <1>1 DEF Agrees, DescOf
<1> HIDE DEF r1
<1>4. /\ IsRegs(r2) /\ Others(r2) = Others(r1) /\ r2.cpl = r1.cpl
      /\ r2.sel["ss"] = "KDS" /\ Agrees(r2, "ss")
      /\ \A o \in SegRegs \ {"ss"} : r2.sel[o] = r1.sel[o] /\ r2.desc[o] = r1.desc[o]
      /\ \A o \in SegRegs : Agrees(r1, o) => Agrees(r2, o)
  BY <1>1, LoadFields DEF SegRegs
<1> HIDE DEF r2
<1>5. /\ IsRegs(q) /\ q.sel = r2.sel /\ q.desc = r2.desc /\ q.cpl = r2.cpl
      /\ q.vm = r2.vm /\ q.nt = r2.nt /\ q.if = r2.if
      /\ Ids(q) = Ids(r2) /\ General(q) = General(r2) /\ q.sp = <<r.dtr, 0>> /\ q.ip = r2.ip
  <2> DEFINE y == <<r.dtr, 0>>
  <2> HIDE DEF y
  <2>1. MovedSP(r2, y, q)
    BY <1>2, <1>4, SPFields DEF y
  <2> QED
    BY <2>1 DEF Moved, MovedSP, y
<1>6. \A o : Agrees(r2, o) => Agrees(q, o)
  BY <1>5 DEF Agrees, DescOf, Ids
<1>7. Ids(r2) = Ids(r1) /\ General(r2) = General(r1) /\ r2.vm = r1.vm /\ r2.nt = r1.nt
      /\ r2.if = r1.if /\ r2.ip = r1.ip
  BY <1>4 DEF Others, Ids, General
<1> QED
  BY <1>1, <1>3, <1>4, <1>5, <1>6, <1>7 DEF SegRegs

Remaining(m) == <<m.tss, m.busy, m.link>>
Mode(r) == <<r.cpl, r.vm, r.nt, r.if, r.ip>>

VmWords(r) == << <<"ds", r.sel["ds"]>>, <<"es", r.sel["es"]>> >>
StackWords(r) == << <<"ss", r.sel["ss"]>>, <<"esp", r.sp>> >>
FrameWords(r) == << <<"eflags", Flags(r)>>, <<"cs", r.sel["cs"]>>, <<"eip", r.ip>> >>

SavedVm(m, n) ==
    /\ IsMac(n) /\ Remaining(n) = Remaining(m)
    /\ n.stack = [m.stack EXCEPT ![m.reg.sp[1]] = @ \o VmWords(m.reg)]
    /\ n.reg.sp = <<m.reg.sp[1], m.reg.sp[2] + 2>>
    /\ Mode(n.reg) = Mode(m.reg)
    /\ Ids(n.reg) = Ids(m.reg) /\ General(n.reg) = General(m.reg)
    /\ \A o \in {"ds", "es"} : n.reg.sel[o] = "null" /\ Agrees(n.reg, o)
    /\ \A o \in {"cs", "ss"} : n.reg.sel[o] = m.reg.sel[o] /\ n.reg.desc[o] = m.reg.desc[o]
    /\ \A o \in SegRegs : Agrees(m.reg, o) => Agrees(n.reg, o)

\* Saving the data segments of virtual 8086 mode.
LEMMA SaveVmFields ==
  ASSUME NEW m, IsMac(m), NEW n, n = SaveVmSegments(m)
  PROVE  SavedVm(m, n)
<1> DEFINE p == PushAll(m, VmWords(m.reg))
           r1 == updateSegReg(p.reg, "ds", "null")
           r2 == updateSegReg(r1, "es", "null")
<1>1. n = [p EXCEPT !.reg = r2]
  BY DEF SaveVmSegments, VmWords
<1>2. Pushed(m, VmWords(m.reg), p)
  BY PushFields
<1>3. Len(VmWords(m.reg)) = 2
  BY DEF VmWords
<1> HIDE DEF p
<1>4. /\ IsRegs(p.reg) /\ p.reg.sel = m.reg.sel /\ p.reg.desc = m.reg.desc
      /\ Mode(p.reg) = Mode(m.reg) /\ p.reg.sp = <<m.reg.sp[1], m.reg.sp[2] + 2>>
      /\ Ids(p.reg) = Ids(m.reg) /\ General(p.reg) = General(m.reg)
  <2>1. IsRegs(m.reg)
    BY DEF IsMac
  <2>2. p.reg = [m.reg EXCEPT !.sp = <<m.reg.sp[1], m.reg.sp[2] + 2>>]
    BY <1>2, <1>3 DEF Pushed
  <2> QED
    <3> DEFINE y == <<m.reg.sp[1], m.reg.sp[2] + 2>>
               q == p.reg
    <3>1. q = [m.reg EXCEPT !.sp = y]
      BY <2>2
    <3> HIDE DEF y, q
    <3>2. MovedSP(m.reg, y, q)
      BY <2>1, <3>1, SPFields
    <3> QED
      BY <3>2 DEF Mode, Moved, MovedSP, y, q
<1>5. \A o \in SegRegs : Agrees(m.reg, o) => Agrees(p.reg, o)
  BY <1>4 DEF Agrees, DescOf, Ids, Mode
<1>6. /\ IsRegs(r1) /\ Others(r1) = Others(p.reg) /\ r1.cpl = p.reg.cpl
      /\ r1.sel["ds"] = "null" /\ Agrees(r1, "ds")
      /\ \A o \in SegRegs \ {"ds"} : r1.sel[o] = p.reg.sel[o] /\ r1.desc[o] = p.reg.desc[o]
      /\ \A o \in SegRegs : Agrees(p.reg, o) => Agrees(r1, o)
  BY <1>4, LoadFields DEF SegRegs
<1> HIDE DEF r1
<1>7. /\ IsRegs(r2) /\ Others(r2) = Others(r1) /\ r2.cpl = r1.cpl
      /\ r2.sel["es"] = "null" /\ Agrees(r2, "es")
      /\ \A o \in SegRegs \ {"es"} : r2.sel[o] = r1.sel[o] /\ r2.desc[o] = r1.desc[o]
      /\ \A o \in SegRegs : Agrees(r1, o) => Agrees(r2, o)
  BY <1>6, LoadFields DEF SegRegs
<1> HIDE DEF r2
<1>8. n.reg = r2 /\ n.stack = p.stack /\ Remaining(n) = Remaining(p) /\ IsMac(n)
  BY <1>1, <1>2, <1>7 DEF IsMac, Remaining, Pushed
<1>9. Others(r2) = Others(p.reg) /\ r2.cpl = p.reg.cpl
  BY <1>6, <1>7
<1>10. /\ Ids(r2) = Ids(p.reg) /\ General(r2) = General(p.reg) /\ Mode(r2) = Mode(p.reg)
       /\ r2.sp = p.reg.sp
  BY <1>9 DEF Others, Ids, General, Mode
<1>11. \A o \in {"ds", "es"} : r2.sel[o] = "null" /\ Agrees(r2, o)
  BY <1>6, <1>7 DEF SegRegs
<1>12. \A o \in {"cs", "ss"} : r2.sel[o] = m.reg.sel[o] /\ r2.desc[o] = m.reg.desc[o]
  BY <1>4, <1>6, <1>7 DEF SegRegs
<1>13. \A o \in SegRegs : Agrees(m.reg, o) => Agrees(r2, o)
  BY <1>5, <1>6, <1>7
<1> QED
  BY <1>2, <1>4, <1>8, <1>10, <1>11, <1>12, <1>13 DEF Remaining, Pushed, SavedVm

\* What is on the stack, and the stack pointer, before the frame is pushed.
Below(m) ==
    CASE m.reg.cpl = 0 -> m.stack[m.reg.sp[1]]
      [] m.reg.cpl # 0 /\ ~m.reg.vm -> m.stack[m.reg.dtr] \o StackWords(m.reg)
      [] OTHER -> (m.stack[m.reg.dtr] \o VmWords(m.reg)) \o StackWords(m.reg)
BelowSP(r) ==
    CASE r.cpl = 0 -> r.sp
      [] r.cpl # 0 /\ ~r.vm -> <<r.dtr, 0 + 2>>
      [] OTHER -> <<r.dtr, (0 + 2) + 2>>

\* The registers of the handler's context, but for ESP.
Handling(r, q) ==
    /\ IsRegs(q) /\ Ids(q) = Ids(r) /\ General(q) = General(r)
    /\ q.cpl = 0 /\ q.vm = FALSE /\ q.nt = FALSE
    /\ \A o \in {"ds", "es"} :
          IF r.cpl # 0 /\ r.vm THEN q.sel[o] = "null" /\ Agrees(q, o)
          ELSE q.sel[o] = r.sel[o] /\ q.desc[o] = r.desc[o]
    /\ IF r.cpl = 0 THEN q.sel["ss"] = r.sel["ss"] /\ q.desc["ss"] = r.desc["ss"]
       ELSE q.sel["ss"] = "KDS" /\ Agrees(q, "ss")

\* Before the frame is pushed.
Based(m, gate, b) ==
    /\ IsMac(b) /\ Remaining(b) = Remaining(m)
    /\ Handling(m.reg, b.reg) /\ b.reg.if = Gated(m.reg, gate).if
    /\ b.reg.sp = BelowSP(m.reg)
    /\ BelowSP(m.reg)[1] \in DOMAIN m.stack
          => b.stack = [m.stack EXCEPT ![BelowSP(m.reg)[1]] = Below(m)]

\* The part of the entry before the frame is pushed: the stack of the level of the
\* handler, and upon it, from an outer level, what the outer level used.
LEMMA BasedUpon ==
  ASSUME NEW m, IsMac(m), m.reg.cpl = 0 => ~m.reg.vm, NEW gate, NEW b,
         b = CASE m.reg.cpl = 0 -> [m EXCEPT !.reg = Gated(m.reg, gate)]
               [] OTHER ->
                  PushAll(IF m.reg.vm
                          THEN SaveVmSegments([m EXCEPT !.reg = InnerStack(Gated(m.reg, gate))])
                          ELSE [m EXCEPT !.reg = InnerStack(Gated(m.reg, gate))],
                          StackWords(m.reg))
  PROVE  Based(m, gate, b)
<1> DEFINE r == m.reg
           g == Gated(r, gate)
           i == InnerStack(g)
           inner == [m EXCEPT !.reg = i]
<1>1. /\ IsRegs(g) /\ g.vm = FALSE /\ g.nt = FALSE
      /\ g.sel = r.sel /\ g.desc = r.desc /\ g.cpl = r.cpl
      /\ g.ip = r.ip /\ g.sp = r.sp /\ Ids(g) = Ids(r) /\ General(g) = General(r)
  <2>1. GatedTo(r, g)
    BY GatedFields DEF IsMac
  <2> QED
    BY <2>1 DEF GatedTo
<1>2. g.dtr = r.dtr
  BY <1>1 DEF Ids
<1> HIDE DEF g
<1>3. CASE r.cpl = 0
  <2>1. b = [m EXCEPT !.reg = g]
    BY <1>3 DEF g
  <2>2. IsMac(b) /\ b.reg = g /\ Remaining(b) = Remaining(m) /\ b.stack = m.stack
    BY <1>1, <2>1 DEF IsMac, Remaining
  <2>3. BelowSP(r) = r.sp /\ Below(m) = m.stack[r.sp[1]]
    BY <1>3 DEF BelowSP, Below
  <2>4. Handling(r, g)
    BY <1>1, <1>3 DEF Handling
  <2>5. m.stack = [m.stack EXCEPT ![r.sp[1]] = m.stack[r.sp[1]]]
    BY DEF IsMac, IsFun
  <2> QED
    BY <1>1, <2>2, <2>3, <2>4, <2>5 DEF Based, g
<1>4. CASE r.cpl # 0
  <2>1. /\ IsRegs(i) /\ i.cpl = 0 /\ i.sp = <<r.dtr, 0>> /\ i.sel["ss"] = "KDS"
        /\ i.vm = FALSE /\ i.nt = FALSE /\ i.if = g.if
        /\ Ids(i) = Ids(r) /\ General(i) = General(r)
        /\ \A o \in {"cs", "ds", "es"} : i.sel[o] = r.sel[o] /\ i.desc[o] = r.desc[o]
        /\ Agrees(i, "ss")
    BY <1>1, <1>2, InnerFields
  <2> HIDE DEF i
  <2>2. IsMac(inner) /\ inner.reg = i /\ inner.stack = m.stack /\ Remaining(inner) = Remaining(m)
    BY <2>1 DEF IsMac, Remaining
  <2> HIDE DEF inner
  <2>3. CASE r.vm
    <3> DEFINE n == SaveVmSegments(inner)
    <3>1. b = PushAll(n, StackWords(r))
      BY <1>4, <2>3 DEF g, i, inner
    <3>2. VmWords(i) = VmWords(r)
      BY <2>1 DEF VmWords
    <3>3. /\ IsMac(n) /\ Remaining(n) = Remaining(m)
          /\ n.stack = [m.stack EXCEPT ![r.dtr] = @ \o VmWords(r)]
          /\ n.reg.sp = <<r.dtr, 0 + 2>>
          /\ Mode(n.reg) = Mode(i)
          /\ Ids(n.reg) = Ids(r) /\ General(n.reg) = General(r)
          /\ \A o \in {"ds", "es"} : n.reg.sel[o] = "null" /\ Agrees(n.reg, o)
          /\ n.reg.sel["ss"] = "KDS"
          /\ Agrees(n.reg, "ss")
      <4>1. SavedVm(inner, n)
        BY <2>2, SaveVmFields
      <4> HIDE DEF n
      <4>2. i.sp[1] = r.dtr /\ i.sp[2] = 0
        BY <2>1
      <4>3. IsMac(n) /\ Remaining(n) = Remaining(m) /\ Mode(n.reg) = Mode(i)
            /\ Ids(n.reg) = Ids(r) /\ General(n.reg) = General(r)
        BY <4>1, <2>1, <2>2 DEF SavedVm
      <4>4. n.stack = [m.stack EXCEPT ![r.dtr] = @ \o VmWords(r)]
        BY <4>1, <4>2, <2>2, <3>2 DEF SavedVm
      <4>5. n.reg.sp = <<r.dtr, 0 + 2>>
        BY <4>1, <4>2, <2>2 DEF SavedVm
      <4>6. /\ \A o \in {"ds", "es"} : n.reg.sel[o] = "null" /\ Agrees(n.reg, o)
            /\ n.reg.sel["ss"] = "KDS" /\ Agrees(n.reg, "ss")
        BY <4>1, <2>1, <2>2 DEF SegRegs, SavedVm
      <4> QED
        BY <4>3, <4>4, <4>5, <4>6
    <3> HIDE DEF n
    <3>4. Pushed(n, StackWords(r), b)
      BY <3>1, <3>3, PushFields
    <3>5. Len(StackWords(r)) = 2
      BY DEF StackWords
    <3>6. /\ IsMac(b) /\ b.reg = [n.reg EXCEPT !.sp = <<r.dtr, (0 + 2) + 2>>]
          /\ b.stack = [n.stack EXCEPT ![r.dtr] = @ \o StackWords(r)]
          /\ Remaining(b) = Remaining(m)
      BY <3>3, <3>4, <3>5 DEF Pushed, Remaining
    <3>7. /\ IsRegs(b.reg) /\ b.reg.sel = n.reg.sel /\ b.reg.desc = n.reg.desc /\ b.reg.cpl = n.reg.cpl
          /\ b.reg.vm = n.reg.vm /\ b.reg.nt = n.reg.nt /\ b.reg.if = n.reg.if
          /\ Ids(b.reg) = Ids(n.reg) /\ General(b.reg) = General(n.reg)
          /\ b.reg.sp = <<r.dtr, (0 + 2) + 2>>
      <4> DEFINE y == <<r.dtr, (0 + 2) + 2>>
                 o == n.reg
                 q == b.reg
      <4>1. IsRegs(o) /\ q = [o EXCEPT !.sp = y]
        BY <3>3, <3>6 DEF IsMac
      <4> HIDE DEF y, o, q
      <4>2. MovedSP(o, y, q)
        BY <4>1, SPFields
      <4> QED
        BY <4>2 DEF Moved, MovedSP, y, o, q
    <3>8. b.reg.dldt = n.reg.dldt
      BY <3>7 DEF Ids
    <3>9. \A o : Agrees(n.reg, o) => Agrees(b.reg, o)
      BY <3>7, <3>8 DEF Agrees, DescOf
    <3>10. BelowSP(r) = <<r.dtr, (0 + 2) + 2>>
           /\ Below(m) = (m.stack[r.dtr] \o VmWords(r)) \o StackWords(r)
      BY <1>4, <2>3 DEF BelowSP, Below
    <3>11. ASSUME r.dtr \in DOMAIN m.stack
           PROVE  b.stack = [m.stack EXCEPT ![r.dtr] = Below(m)]
      BY <3>3, <3>6, <3>10, <3>11
    <3>12. Mode(n.reg) = Mode(i) => n.reg.cpl = 0 /\ n.reg.vm = FALSE /\ n.reg.nt = FALSE /\ n.reg.if = g.if
      BY <2>1 DEF Mode
    <3>13. Handling(r, b.reg)
      BY <1>4, <2>3, <3>3, <3>7, <3>9, <3>12 DEF Handling
    <3>14. b.reg.if = g.if
      BY <3>3, <3>7, <3>12
    <3> QED
      <4>1. BelowSP(r)[1] = r.dtr
        BY <3>10
      <4>2. b.reg.sp = BelowSP(r) /\ b.reg.if = Gated(r, gate).if
        BY <3>7, <3>10, <3>14 DEF g
      <4>3. IsMac(b) /\ Remaining(b) = Remaining(m)
        BY <3>6
      <4> HIDE DEF g
      <4> QED
        BY <3>11, <3>13, <4>1, <4>2, <4>3 DEF Based
  <2>4. CASE ~r.vm
    <3>1. b = PushAll(inner, StackWords(r))
      BY <1>4, <2>4 DEF g, i, inner
    <3>4. Pushed(inner, StackWords(r), b)
      BY <3>1, <2>2, PushFields
    <3>5. Len(StackWords(r)) = 2
      BY DEF StackWords
    <3>6. /\ IsMac(b) /\ b.reg = [i EXCEPT !.sp = <<r.dtr, 0 + 2>>]
          /\ b.stack = [m.stack EXCEPT ![r.dtr] = @ \o StackWords(r)]
          /\ Remaining(b) = Remaining(m)
      <4>1. i.sp[1] = r.dtr /\ i.sp[2] = 0
        BY <2>1
      <4>2. IsMac(b) /\ Remaining(b) = Remaining(m)
        BY <2>2, <3>4 DEF Pushed, Remaining
      <4>3. b.reg = [i EXCEPT !.sp = <<r.dtr, 0 + 2>>]
        BY <2>2, <3>4, <3>5, <4>1 DEF Pushed
      <4>4. b.stack = [m.stack EXCEPT ![r.dtr] = @ \o StackWords(r)]
        BY <2>2, <3>4, <4>1 DEF Pushed
      <4> QED
        BY <4>2, <4>3, <4>4
    <3>7. /\ IsRegs(b.reg) /\ b.reg.sel = i.sel /\ b.reg.desc = i.desc /\ b.reg.cpl = i.cpl
          /\ b.reg.vm = i.vm /\ b.reg.nt = i.nt /\ b.reg.if = i.if
          /\ Ids(b.reg) = Ids(i) /\ General(b.reg) = General(i)
          /\ b.reg.sp = <<r.dtr, 0 + 2>>
      <4> DEFINE y == <<r.dtr, 0 + 2>>
                 q == b.reg
      <4>1. IsRegs(i) /\ q = [i EXCEPT !.sp = y]
        BY <2>1, <3>6
      <4> HIDE DEF y, q
      <4>2. MovedSP(i, y, q)
        BY <4>1, SPFields
      <4> QED
        BY <4>2 DEF Moved, MovedSP, y, q
    <3>8. b.reg.dldt = i.dldt
      BY <3>7 DEF Ids
    <3>9. Agrees(b.reg, "ss")
      BY <2>1, <3>7, <3>8 DEF Agrees, DescOf
    <3>10. BelowSP(r) = <<r.dtr, 0 + 2>> /\ Below(m) = m.stack[r.dtr] \o StackWords(r)
      BY <1>4, <2>4 DEF BelowSP, Below
    <3>13. Handling(r, b.reg)
      BY <1>4, <2>1, <2>4, <3>7, <3>9 DEF Handling
    <3>14. b.reg.if = g.if
      BY <2>1, <3>7
    <3> QED
      <4>1. BelowSP(r)[1] = r.dtr
        BY <3>10
      <4>2. b.reg.sp = BelowSP(r) /\ b.reg.if = Gated(r, gate).if
        BY <3>7, <3>10, <3>14 DEF g
      <4>3. IsMac(b) /\ Remaining(b) = Remaining(m)
        BY <3>6
      <4>4. b.stack = [m.stack EXCEPT ![r.dtr] = Below(m)]
        BY <3>6, <3>10
      <4> HIDE DEF g
      <4> QED
        BY <3>13, <4>1, <4>2, <4>3, <4>4 DEF Based
  <2> QED
    BY <2>3, <2>4
<1> QED
  BY <1>3, <1>4

Entered(m, gate, codes, n) ==
    /\ IsMac(n) /\ Remaining(n) = Remaining(m)
    /\ Handling(m.reg, n.reg) /\ n.reg.if = Gated(m.reg, gate).if /\ n.reg.ip = 0
    /\ n.reg.sel["cs"] = "KCS" /\ Agrees(n.reg, "cs")
    /\ n.reg.sp = <<BelowSP(m.reg)[1], BelowSP(m.reg)[2] + Len(FrameWords(m.reg) \o codes)>>
    /\ BelowSP(m.reg)[1] \in DOMAIN m.stack
          => n.stack = [m.stack EXCEPT ![BelowSP(m.reg)[1]] = Below(m) \o (FrameWords(m.reg) \o codes)]

SameButCS(b, q) ==
    \A o \in SegRegs \ {"cs"} :
       q.sel[o] = b.sel[o] /\ q.desc[o] = b.desc[o] /\ (Agrees(b, o) => Agrees(q, o))

\* Handling looks at the segment registers but CS, and at nothing that a push moves.
LEMMA HandlingKept ==
  ASSUME NEW r, NEW b, NEW q, Handling(r, b),
         IsRegs(q), Ids(q) = Ids(r), General(q) = General(r), q.cpl = 0, q.vm = FALSE, q.nt = FALSE,
         SameButCS(b, q)
  PROVE  Handling(r, q)
<1>1. ASSUME NEW o \in {"ds", "es"}
      PROVE  IF r.cpl # 0 /\ r.vm THEN q.sel[o] = "null" /\ Agrees(q, o)
             ELSE q.sel[o] = r.sel[o] /\ q.desc[o] = r.desc[o]
  <2>1. q.sel[o] = b.sel[o] /\ q.desc[o] = b.desc[o] /\ (Agrees(b, o) => Agrees(q, o))
    <3>1. o \in SegRegs \ {"cs"}
      BY DEF SegRegs
    <3> QED
      BY <3>1 DEF SameButCS
  <2> QED
    BY <2>1 DEF Handling
<1>2. IF r.cpl = 0 THEN q.sel["ss"] = r.sel["ss"] /\ q.desc["ss"] = r.desc["ss"]
      ELSE q.sel["ss"] = "KDS" /\ Agrees(q, "ss")
  <2>1. q.sel["ss"] = b.sel["ss"] /\ q.desc["ss"] = b.desc["ss"] /\ (Agrees(b, "ss") => Agrees(q, "ss"))
    <3>1. "ss" \in SegRegs \ {"cs"}
      BY DEF SegRegs
    <3> QED
      BY <3>1 DEF SameButCS
  <2> QED
    BY <2>1 DEF Handling
<1> QED
  BY <1>1, <1>2 DEF Handling

\* What entering a handler does.
LEMMA EnterFields ==
  ASSUME NEW m, IsMac(m), m.reg.cpl = 0 => ~m.reg.vm, NEW gate, NEW codes,
         NEW n, n = EnterINT(m, gate, codes)
  PROVE  Entered(m, gate, codes, n)
<1> DEFINE r == m.reg
           t == BelowSP(r)[1]
           b == CASE m.reg.cpl = 0 -> [m EXCEPT !.reg = Gated(m.reg, gate)]
                  [] OTHER ->
                     PushAll(IF m.reg.vm
                             THEN SaveVmSegments([m EXCEPT !.reg = InnerStack(Gated(m.reg, gate))])
                             ELSE [m EXCEPT !.reg = InnerStack(Gated(m.reg, gate))],
                             StackWords(m.reg))
           ws == FrameWords(r) \o codes
           p == PushAll(b, ws)
           q0 == updateSegReg(p.reg, "cs", "KCS")
           q == [q0 EXCEPT !.ip = 0]
<1>1. n = [p EXCEPT !.reg = q]
  BY DEF EnterINT, FrameWords, StackWords
<1>2. Based(m, gate, b)
  BY BasedUpon
<1> HIDE DEF b
<1>3. IsMac(b)
  BY <1>2 DEF Based
<1>4. Pushed(b, ws, p)
  BY <1>3, PushFields
<1> HIDE DEF p
<1>5. /\ IsMac(p) /\ Remaining(p) = Remaining(m)
      /\ p.reg = [b.reg EXCEPT !.sp = <<t, BelowSP(r)[2] + Len(ws)>>]
  BY <1>2, <1>4 DEF Based, Pushed, Remaining
<1>6. MovedSP(b.reg, <<t, BelowSP(r)[2] + Len(ws)>>, p.reg)
  <2> DEFINE y == <<t, BelowSP(r)[2] + Len(ws)>>
             o == b.reg
             s == p.reg
  <2>1. IsRegs(o) /\ s = [o EXCEPT !.sp = y]
    BY <1>3, <1>5 DEF IsMac
  <2> HIDE DEF y, o, s
  <2>2. MovedSP(o, y, s)
    BY <2>1, SPFields
  <2> QED
    BY <2>2 DEF y, o, s
<1>7. /\ IsRegs(q0) /\ Others(q0) = Others(p.reg)
      /\ q0.cpl = IF ~p.reg.vm THEN RPL("KCS") ELSE p.reg.cpl
      /\ q0.sel["cs"] = "KCS" /\ Agrees(q0, "cs")
      /\ \A o \in SegRegs \ {"cs"} : q0.sel[o] = p.reg.sel[o] /\ q0.desc[o] = p.reg.desc[o]
  <2> DEFINE s == p.reg
  <2>1. IsRegs(s)
    BY <1>5 DEF IsMac
  <2> HIDE DEF s
  <2>2. /\ IsRegs(q0) /\ Others(q0) = Others(s)
        /\ q0.cpl = IF "cs" = "cs" /\ ~s.vm THEN RPL("KCS") ELSE s.cpl
        /\ q0.sel["cs"] = "KCS" /\ Agrees(q0, "cs")
        /\ \A o \in SegRegs \ {"cs"} : q0.sel[o] = s.sel[o] /\ q0.desc[o] = s.desc[o]
    <3>1. q0 = updateSegReg(s, "cs", "KCS")
      BY DEF s
    <3> HIDE DEF q0
    <3> QED
      BY <2>1, <3>1, LoadFields DEF SegRegs
  <2> QED
    BY <2>2 DEF s
<1> HIDE DEF q0
<1>8. MovedIP(q0, 0, q)
  BY <1>7, IPFields
<1> HIDE DEF q
<1>9. /\ b.reg.vm = FALSE /\ b.reg.cpl = 0 /\ b.reg.nt = FALSE
      /\ Ids(b.reg) = Ids(r) /\ General(b.reg) = General(r)
  BY <1>2 DEF Based, Handling
<1>10. q0.vm = FALSE /\ q0.cpl = 0 /\ q0.nt = FALSE /\ q0.if = b.reg.if
       /\ Ids(q0) = Ids(r) /\ General(q0) = General(r) /\ q0.sp = <<t, BelowSP(r)[2] + Len(ws)>>
  <2>1. p.reg.vm = FALSE /\ p.reg.cpl = 0 /\ p.reg.nt = FALSE /\ p.reg.if = b.reg.if
        /\ Ids(p.reg) = Ids(r) /\ General(p.reg) = General(r)
        /\ p.reg.sp = <<t, BelowSP(r)[2] + Len(ws)>>
    BY <1>6, <1>9 DEF MovedSP, Moved
  <2>2. RPL("KCS") = 0
    BY DEF RPL, LdtSelectors
  <2>3. q0.cpl = 0
    BY <1>7, <2>1, <2>2
  <2> QED
    BY <1>7, <2>1, <2>3 DEF Others, Ids, General
<1>11. \A o \in SegRegs : (Agrees(q0, o) => Agrees(q, o)) /\ q.sel[o] = q0.sel[o] /\ q.desc[o] = q0.desc[o]
  BY <1>8 DEF MovedIP, Moved, Agrees, DescOf, Ids
<1>12. \A o \in SegRegs \ {"cs"} : q0.sel[o] = b.reg.sel[o] /\ q0.desc[o] = b.reg.desc[o]
  BY <1>6, <1>7 DEF MovedSP, Moved
<1>13. \A o \in SegRegs \ {"cs"} : Agrees(b.reg, o) => Agrees(q0, o)
  BY <1>9, <1>10, <1>12 DEF Agrees, DescOf, Ids
<1>14. Handling(r, q)
  <2>1. IsRegs(q) /\ Ids(q) = Ids(r) /\ General(q) = General(r)
        /\ q.cpl = 0 /\ q.vm = FALSE /\ q.nt = FALSE
    BY <1>8, <1>10 DEF MovedIP, Moved
  <2>2. SameButCS(b.reg, q)
    BY <1>11, <1>12, <1>13 DEF SameButCS
  <2>3. Handling(r, b.reg)
    BY <1>2 DEF Based
  <2> DEFINE o == b.reg
  <2> HIDE DEF q, o
  <2>4. Handling(r, o) /\ SameButCS(o, q)
    BY <2>2, <2>3 DEF o
  <2> QED
    BY <2>1, <2>4, HandlingKept
<1>15. IsMac(n) /\ n.reg = q /\ Remaining(n) = Remaining(m) /\ n.stack = p.stack
  BY <1>1, <1>5, <1>14 DEF IsMac, Remaining, Handling
<1>16. q.if = Gated(r, gate).if /\ q.ip = 0 /\ q.sel["cs"] = "KCS" /\ Agrees(q, "cs")
  BY <1>2, <1>7, <1>8, <1>10, <1>11 DEF MovedIP, Moved, Based, SegRegs
<1>17. q.sp = <<t, BelowSP(r)[2] + Len(ws)>>
  BY <1>8, <1>10 DEF MovedIP
<1>18. t \in DOMAIN m.stack => p.stack = [m.stack EXCEPT ![t] = Below(m) \o ws]
  <2> SUFFICES ASSUME t \in DOMAIN m.stack PROVE p.stack = [m.stack EXCEPT ![t] = Below(m) \o ws]
    OBVIOUS
  <2>1. b.stack = [m.stack EXCEPT ![t] = Below(m)] /\ b.reg.sp[1] = t
    BY <1>2 DEF Based
  <2>2. p.stack = [b.stack EXCEPT ![t] = @ \o ws]
    BY <1>4, <2>1 DEF Pushed
  <2> HIDE DEF t, ws
  <2>3. b.stack[t] = Below(m)
    BY <2>1
  <2> QED
    BY <2>1, <2>2, <2>3
<1> QED
  BY <1>14, <1>15, <1>16, <1>17, <1>18 DEF Entered

\* Which of the segment registers hold what was loaded into them.
AgreeBut(r, S) == \A seg \in SegRegs \ S : Agrees(r, seg)

\* A handler finds consistent caches, if what it interrupts had them.
LEMMA HandlerAgrees ==
  ASSUME NEW r, r.cpl = 0 => ~r.vm, NEW S, AgreeBut(r, S),
         NEW q, Handling(r, q), Agrees(q, "cs")
  PROVE  AgreeBut(q, S)
<1> SUFFICES ASSUME NEW o \in SegRegs \ S PROVE Agrees(q, o)
  BY DEF AgreeBut
<1>0. Agrees(r, o)
  BY DEF AgreeBut
<1>1. q.dldt = r.dldt /\ q.vm = FALSE
  BY DEF Handling, Ids
<1>2. CASE o = "cs"
  BY <1>2
<1>3. CASE o = "ss"
  BY <1>0, <1>1, <1>3 DEF Handling, Agrees, DescOf
<1>4. CASE o \in {"ds", "es"}
  BY <1>0, <1>1, <1>4 DEF Handling, Agrees, DescOf
<1> QED
  BY <1>2, <1>3, <1>4 DEF SegRegs

-----------------------------------------------------------------------------
(***************************************************************************)
(* IRET.                                                                   *)
(***************************************************************************)
\* A change of registers that no cache depends on, but for VM.
Resumes(r, f, vm, ip, q) ==
    /\ IsRegs(q) /\ q.sel = r.sel /\ q.desc = r.desc /\ q.cpl = r.cpl
    /\ q.if = f.if /\ q.nt = f.nt /\ q.vm = vm /\ q.ip = ip /\ q.sp = r.sp
    /\ Ids(q) = Ids(r) /\ General(q) = General(r)

\* The flags that IRET and a task switch load.
LEMMA FlagsFields ==
  ASSUME NEW r, IsRegs(r), NEW f
  PROVE  Resumes(r, f, f.vm, r.ip, SetFlags(r, f))
<1> DEFINE q == [r EXCEPT !.if = f.if, !.nt = f.nt, !.vm = f.vm]
<1>1. SetFlags(r, f) = q
  BY DEF SetFlags
<1>2. Resumes(r, f, f.vm, r.ip, q)
  BY DEF Resumes, IsRegs, RegNames, Ids, General
<1> QED
  BY <1>1, <1>2

\* IRET to a level that is not virtual 8086 mode loads IF, NT and EIP.
LEMMA FlagsIPFields ==
  ASSUME NEW r, IsRegs(r), NEW f, NEW x, NEW q, q = [r EXCEPT !.if = f.if, !.nt = f.nt, !.ip = x]
  PROVE  Resumes(r, f, r.vm, x, q)
BY DEF Resumes, IsRegs, RegNames, Ids, General

\* What a load of a segment register does, in one predicate.
Loaded(r, seg, s, q) ==
    /\ IsRegs(q) /\ Others(q) = Others(r)
    /\ q.cpl = IF seg = "cs" /\ ~r.vm THEN RPL(s) ELSE r.cpl
    /\ q.sel[seg] = s /\ Agrees(q, seg)
    /\ \A o \in SegRegs \ {seg} : q.sel[o] = r.sel[o] /\ q.desc[o] = r.desc[o]
    /\ \A o \in SegRegs : Agrees(r, o) => Agrees(q, o)

\* LoadFields, of updateSegReg itself.
LEMMA Loads ==
  ASSUME NEW r, IsRegs(r), NEW seg \in SegRegs, NEW s
  PROVE  Loaded(r, seg, s, updateSegReg(r, seg, s))
<1> DEFINE q == updateSegReg(r, seg, s)
<1>1. q = updateSegReg(r, seg, s)
  OBVIOUS
<1> HIDE DEF q
<1>2. /\ IsRegs(q) /\ Others(q) = Others(r)
      /\ q.cpl = IF seg = "cs" /\ ~r.vm THEN RPL(s) ELSE r.cpl
      /\ q.sel[seg] = s /\ Agrees(q, seg)
      /\ \A o \in SegRegs \ {seg} : q.sel[o] = r.sel[o] /\ q.desc[o] = r.desc[o]
      /\ \A o \in SegRegs : Agrees(r, o) => Agrees(q, o)
  BY <1>1, LoadFields
<1>3. Loaded(r, seg, s, q)
  BY <1>2 DEF Loaded
<1> QED
  BY <1>1, <1>3

Forgot(m, i, st) == st = [m.stack EXCEPT ![m.reg.sp[1]] = SubSeq(@, 1, m.reg.sp[2] - i)]

\* Forgetting words that have been popped changes the stack alone.
LEMMA ForgetFields ==
  ASSUME NEW m, IsMac(m), NEW i
  PROVE  /\ IsMac(Forget(m, i)) /\ Remaining(Forget(m, i)) = Remaining(m)
         /\ Forget(m, i).reg = m.reg /\ Forgot(m, i, Forget(m, i).stack)
<1> DEFINE t == m.reg.sp[1]
           x == SubSeq(m.stack[t], 1, m.reg.sp[2] - i)
           n == [m EXCEPT !.stack[t] = x]
<1>1. Forget(m, i) = n
  BY DEF Forget
<1> HIDE DEF t, x
<1>2. n.reg = m.reg /\ n.stack = [m.stack EXCEPT ![t] = x] /\ Remaining(n) = Remaining(m)
      /\ {"reg", "stack", "tss", "busy", "link"} \subseteq DOMAIN n
  BY DEF IsMac, Remaining
<1> HIDE DEF n
<1>3. IsFun(n.stack)
  BY <1>2 DEF IsMac, IsFun
<1>4. IsMac(n)
  BY <1>2, <1>3 DEF IsMac
<1>5. Forgot(m, i, n.stack)
  BY <1>2 DEF Forgot, t, x
<1> QED
  BY <1>1, <1>2, <1>4, <1>5

\* A machine that forgets words and gets other registers.
Forgetting(m, i, q, n) ==
    IsMac(n) /\ Remaining(n) = Remaining(m) /\ n.reg = q /\ Forgot(m, i, n.stack)

\* The same, with new registers.
LEMMA ForgetInto ==
  ASSUME NEW m, IsMac(m), NEW i, NEW q, IsRegs(q), NEW n, n = [Forget(m, i) EXCEPT !.reg = q]
  PROVE  Forgetting(m, i, q, n)
<1> DEFINE p == Forget(m, i)
<1>1. IsMac(p) /\ Remaining(p) = Remaining(m) /\ Forgot(m, i, p.stack)
  BY ForgetFields
<1>2. n = [p EXCEPT !.reg = q]
  OBVIOUS
<1> HIDE DEF p
<1>3. n.reg = q /\ n.stack = p.stack /\ Remaining(n) = Remaining(p)
      /\ {"reg", "stack", "tss", "busy", "link"} \subseteq DOMAIN n
  BY <1>1, <1>2 DEF IsMac, Remaining
<1> QED
  BY <1>1, <1>3 DEF IsMac, Forgetting

\* A return to virtual 8086 mode loads every segment register anew.
ReturnedToVM(m, n) ==
    /\ IsMac(n) /\ Remaining(n) = Remaining(m) /\ Forgot(m, 7, n.stack)
    /\ n.reg.cpl = 3 /\ n.reg.vm = Word(m, 2)[2].vm
    /\ n.reg.if = Word(m, 2)[2].if /\ n.reg.nt = Word(m, 2)[2].nt
    /\ n.reg.ip = Word(m, 0)[2] /\ n.reg.sp = Word(m, 3)[2]
    /\ Ids(n.reg) = Ids(m.reg) /\ General(n.reg) = General(m.reg)
    /\ \A o \in SegRegs : Agrees(n.reg, o)
    /\ n.reg.sel["es"] = Word(m, 5)[2] /\ n.reg.sel["ds"] = Word(m, 6)[2]

\* IRET to virtual 8086 mode takes the registers out of the frame.
LEMMA IretVMFields ==
  ASSUME NEW m, IsMac(m)
  PROVE  ReturnedToVM(m, IretToVM(m))
<1> DEFINE w(i) == Word(m, i)[2]
           a0 == SetFlags(m.reg, w(2))
           r0 == updateSegReg(a0, "cs", w(1))
           a1 == [r0 EXCEPT !.ip = w(0)]
           r1 == updateSegReg(a1, "ss", w(4))
           a2 == [r1 EXCEPT !.sp = w(3)]
           r2 == updateSegReg(a2, "es", w(5))
           r3 == updateSegReg(r2, "ds", w(6))
           r4 == [r3 EXCEPT !.cpl = 3]
           n == IretToVM(m)
<1>1. n = [Forget(m, 7) EXCEPT !.reg = r4]
  BY DEF IretToVM
<1> HIDE DEF w, n
<1>2. Resumes(m.reg, w(2), w(2).vm, m.reg.ip, a0) /\ IsRegs(a0)
  <2>1. Resumes(m.reg, w(2), w(2).vm, m.reg.ip, a0)
    BY FlagsFields DEF IsMac
  <2> QED
    BY <2>1 DEF Resumes
<1> HIDE DEF a0
<1>3. Loaded(a0, "cs", w(1), r0) /\ IsRegs(r0)
  <2>1. Loaded(a0, "cs", w(1), r0)
    BY <1>2, Loads DEF SegRegs
  <2> QED
    BY <2>1 DEF Loaded
<1> HIDE DEF r0
<1>4. MovedIP(r0, w(0), a1) /\ IsRegs(a1)
  <2>1. MovedIP(r0, w(0), a1)
    BY <1>3, IPFields
  <2> QED
    BY <2>1 DEF MovedIP, Moved
<1> HIDE DEF a1
<1>5. Loaded(a1, "ss", w(4), r1) /\ IsRegs(r1)
  <2>1. Loaded(a1, "ss", w(4), r1)
    BY <1>4, Loads DEF SegRegs
  <2> QED
    BY <2>1 DEF Loaded
<1> HIDE DEF r1
<1>6. MovedSP(r1, w(3), a2) /\ IsRegs(a2)
  <2>1. MovedSP(r1, w(3), a2)
    BY <1>5, SPFields
  <2> QED
    BY <2>1 DEF MovedSP, Moved
<1> HIDE DEF a2
<1>7. Loaded(a2, "es", w(5), r2) /\ IsRegs(r2)
  <2>1. Loaded(a2, "es", w(5), r2)
    BY <1>6, Loads DEF SegRegs
  <2> QED
    BY <2>1 DEF Loaded
<1> HIDE DEF r2
<1>8. Loaded(r2, "ds", w(6), r3) /\ IsRegs(r3)
  <2>1. Loaded(r2, "ds", w(6), r3)
    BY <1>7, Loads DEF SegRegs
  <2> QED
    BY <2>1 DEF Loaded
<1> HIDE DEF r3
<1>9. /\ IsRegs(r4) /\ r4.sel = r3.sel /\ r4.desc = r3.desc /\ r4.cpl = 3
      /\ Others(r4) = Others(r3)
  BY <1>8 DEF IsRegs, RegNames, Others
<1> HIDE DEF r4
<1>10. IsMac(n) /\ Remaining(n) = Remaining(m) /\ n.reg = r4 /\ Forgot(m, 7, n.stack)
  <2>1. Forgetting(m, 7, r4, n)
    BY <1>1, <1>9, ForgetInto
  <2> QED
    BY <2>1 DEF Forgetting
<1>11. /\ Ids(r4) = Ids(a1) /\ General(r4) = General(a1)
       /\ r4.vm = a1.vm /\ r4.if = a1.if /\ r4.nt = a1.nt /\ r4.ip = a1.ip /\ r4.sp = w(3)
  <2>1. Ids(r1) = Ids(a1) /\ General(r1) = General(a1) /\ r1.vm = a1.vm /\ r1.if = a1.if
        /\ r1.nt = a1.nt /\ r1.ip = a1.ip
    BY <1>5 DEF Loaded, Others, Ids, General
  <2>2. Ids(a2) = Ids(r1) /\ General(a2) = General(r1) /\ a2.vm = r1.vm /\ a2.if = r1.if
        /\ a2.nt = r1.nt /\ a2.ip = r1.ip /\ a2.sp = w(3)
    BY <1>6 DEF MovedSP, Moved
  <2>3. Others(r4) = Others(a2)
    BY <1>7, <1>8, <1>9 DEF Loaded
  <2>4. Ids(r4) = Ids(a2) /\ General(r4) = General(a2) /\ r4.vm = a2.vm /\ r4.if = a2.if
        /\ r4.nt = a2.nt /\ r4.ip = a2.ip /\ r4.sp = a2.sp
    BY <2>3 DEF Others, Ids, General
  <2> QED
    BY <2>1, <2>2, <2>4
<1>12. /\ Ids(a1) = Ids(m.reg) /\ General(a1) = General(m.reg)
       /\ a1.vm = w(2).vm /\ a1.if = w(2).if /\ a1.nt = w(2).nt /\ a1.ip = w(0)
  <2>1. Ids(r0) = Ids(a0) /\ General(r0) = General(a0) /\ r0.vm = a0.vm /\ r0.if = a0.if
        /\ r0.nt = a0.nt
    BY <1>3 DEF Loaded, Others, Ids, General
  <2>2. Ids(a1) = Ids(r0) /\ General(a1) = General(r0) /\ a1.vm = r0.vm /\ a1.if = r0.if
        /\ a1.nt = r0.nt /\ a1.ip = w(0)
    BY <1>4 DEF MovedIP, Moved
  <2> QED
    BY <1>2, <2>1, <2>2 DEF Resumes
<1>13. \A o \in SegRegs : Agrees(r4, o)
  <2>1. Agrees(r0, "cs")
    BY <1>3 DEF Loaded
  <2>2. Agrees(a1, "cs")
    BY <1>4, <2>1 DEF MovedIP, Moved, Agrees, DescOf, Ids
  <2>3. Agrees(r1, "cs") /\ Agrees(r1, "ss")
    BY <1>5, <2>2 DEF Loaded, SegRegs
  <2>4. Agrees(a2, "cs") /\ Agrees(a2, "ss")
    BY <1>6, <2>3 DEF MovedSP, Moved, Agrees, DescOf, Ids
  <2>5. Agrees(r2, "cs") /\ Agrees(r2, "ss") /\ Agrees(r2, "es")
    BY <1>7, <2>4 DEF Loaded, SegRegs
  <2>6. Agrees(r3, "cs") /\ Agrees(r3, "ss") /\ Agrees(r3, "es") /\ Agrees(r3, "ds")
    BY <1>8, <2>5 DEF Loaded, SegRegs
  <2>7. \A o : Agrees(r3, o) => Agrees(r4, o)
    BY <1>9 DEF Agrees, DescOf, Others
  <2> QED
    BY <2>6, <2>7 DEF SegRegs
<1>14. r4.sel["es"] = w(5) /\ r4.sel["ds"] = w(6)
  BY <1>7, <1>8, <1>9 DEF Loaded, SegRegs
<1>15. ReturnedToVM(m, n)
  BY <1>9, <1>10, <1>11, <1>12, <1>13, <1>14 DEF ReturnedToVM, w
<1> QED
  BY <1>15 DEF n

\* A segment register at a return to an outer level.
NulledTo(r, seg, q) ==
    IF r.cpl > r.desc[seg].dpl THEN Loaded(r, seg, "null", q) ELSE q = r

\* A data segment register that is nulled or kept.
LEMMA Nulls ==
  ASSUME NEW r, IsRegs(r), NEW seg \in SegRegs
  PROVE  NulledTo(r, seg, Nulled(r, seg)) /\ IsRegs(Nulled(r, seg))
BY Loads DEF NulledTo, Nulled, Loaded

\* A return to an outer level takes away what belongs to the inner one.
ReturnedOut(m, n) ==
    /\ IsMac(n) /\ Remaining(n) = Remaining(m) /\ Forgot(m, 5, n.stack)
    /\ n.reg.vm = m.reg.vm
    /\ ~m.reg.vm => n.reg.cpl = RPL(Word(m, 1)[2])
    /\ n.reg.sel["cs"] = Word(m, 1)[2]
    /\ n.reg.if = Word(m, 2)[2].if /\ n.reg.nt = Word(m, 2)[2].nt
    /\ n.reg.ip = Word(m, 0)[2] /\ n.reg.sp = Word(m, 3)[2]
    /\ Ids(n.reg) = Ids(m.reg) /\ General(n.reg) = General(m.reg)
    /\ Agrees(n.reg, "cs") /\ Agrees(n.reg, "ss")
    /\ \A o \in {"ds", "es"} :
          IF n.reg.cpl > m.reg.desc[o].dpl THEN n.reg.sel[o] = "null" /\ Agrees(n.reg, o)
          ELSE n.reg.sel[o] = m.reg.sel[o] /\ n.reg.desc[o] = m.reg.desc[o]

\* IRET to user mode takes the registers out of the frame.
LEMMA IretOuterFields ==
  ASSUME NEW m, IsMac(m), ~m.reg.vm
  PROVE  ReturnedOut(m, IretOuter(m))
<1> DEFINE w(i) == Word(m, i)[2]
           a0 == [m.reg EXCEPT !.if = w(2).if, !.nt = w(2).nt, !.ip = w(0)]
           r0 == updateSegReg(a0, "cs", w(1))
           r1 == updateSegReg(r0, "ss", w(4))
           r2 == [r1 EXCEPT !.sp = w(3)]
           r3 == Nulled(r2, "es")
           r4 == Nulled(r3, "ds")
           n == IretOuter(m)
<1>1. n = [Forget(m, 5) EXCEPT !.reg = r4]
  BY DEF IretOuter
<1> HIDE DEF w, n
<1>2. Resumes(m.reg, w(2), m.reg.vm, w(0), a0) /\ IsRegs(a0)
  <2>1. Resumes(m.reg, w(2), m.reg.vm, w(0), a0)
    BY FlagsIPFields DEF IsMac
  <2> QED
    BY <2>1 DEF Resumes
<1> HIDE DEF a0
<1>3. Loaded(a0, "cs", w(1), r0) /\ IsRegs(r0)
  <2>1. Loaded(a0, "cs", w(1), r0)
    BY <1>2, Loads DEF SegRegs
  <2> QED
    BY <2>1 DEF Loaded
<1> HIDE DEF r0
<1>4. Loaded(r0, "ss", w(4), r1) /\ IsRegs(r1)
  <2>1. Loaded(r0, "ss", w(4), r1)
    BY <1>3, Loads DEF SegRegs
  <2> QED
    BY <2>1 DEF Loaded
<1> HIDE DEF r1
<1>5. MovedSP(r1, w(3), r2) /\ IsRegs(r2)
  <2>1. MovedSP(r1, w(3), r2)
    BY <1>4, SPFields
  <2> QED
    BY <2>1 DEF MovedSP, Moved
<1> HIDE DEF r2
<1>6. NulledTo(r2, "es", r3) /\ IsRegs(r3)
  BY <1>5, Nulls DEF SegRegs
<1> HIDE DEF r3
<1>7. NulledTo(r3, "ds", r4) /\ IsRegs(r4)
  BY <1>6, Nulls DEF SegRegs
<1> HIDE DEF r4
<1>8. IsMac(n) /\ Remaining(n) = Remaining(m) /\ n.reg = r4 /\ Forgot(m, 5, n.stack)
  <2>1. Forgetting(m, 5, r4, n)
    BY <1>1, <1>7, ForgetInto
  <2> QED
    BY <2>1 DEF Forgetting
<1>9. /\ r1.vm = m.reg.vm /\ r1.if = w(2).if /\ r1.nt = w(2).nt /\ r1.ip = w(0)
      /\ Ids(r1) = Ids(m.reg) /\ General(r1) = General(m.reg) /\ r1.cpl = RPL(w(1))
      /\ r1.sel["cs"] = w(1) /\ Agrees(r1, "cs") /\ Agrees(r1, "ss")
      /\ \A o \in {"ds", "es"} : r1.sel[o] = m.reg.sel[o] /\ r1.desc[o] = m.reg.desc[o]
  <2>1. Others(r1) = Others(a0)
    BY <1>3, <1>4 DEF Loaded
  <2>2. /\ r1.vm = a0.vm /\ r1.if = a0.if /\ r1.nt = a0.nt /\ r1.ip = a0.ip
        /\ Ids(r1) = Ids(a0) /\ General(r1) = General(a0)
    BY <2>1 DEF Others, Ids, General
  <2>3. r0.cpl = RPL(w(1)) /\ r0.sel["cs"] = w(1) /\ Agrees(r0, "cs")
    BY <1>2, <1>3 DEF Loaded, Resumes
  <2>4. r1.cpl = r0.cpl
    BY <1>4 DEF Loaded
  <2>5. r1.sel["cs"] = w(1) /\ Agrees(r1, "cs") /\ Agrees(r1, "ss")
    BY <1>4, <2>3 DEF Loaded, SegRegs
  <2>6. \A o \in {"ds", "es"} : r1.sel[o] = m.reg.sel[o] /\ r1.desc[o] = m.reg.desc[o]
    BY <1>2, <1>3, <1>4 DEF Loaded, SegRegs, Resumes
  <2> QED
    BY <1>2, <2>2, <2>3, <2>4, <2>5, <2>6 DEF Resumes
<1>10. /\ r2.vm = m.reg.vm /\ r2.if = w(2).if /\ r2.nt = w(2).nt /\ r2.ip = w(0) /\ r2.sp = w(3)
       /\ Ids(r2) = Ids(m.reg) /\ General(r2) = General(m.reg) /\ r2.cpl = RPL(w(1))
       /\ r2.sel["cs"] = w(1) /\ Agrees(r2, "cs") /\ Agrees(r2, "ss")
       /\ \A o \in {"ds", "es"} : r2.sel[o] = m.reg.sel[o] /\ r2.desc[o] = m.reg.desc[o]
  BY <1>5, <1>9 DEF MovedSP, Moved, Agrees, DescOf, Ids
<1>11. /\ Others(r3) = Others(r2) /\ r3.cpl = r2.cpl
       /\ r3.sel["cs"] = r2.sel["cs"] /\ Agrees(r3, "cs") /\ Agrees(r3, "ss")
       /\ r3.sel["ds"] = m.reg.sel["ds"] /\ r3.desc["ds"] = m.reg.desc["ds"]
       /\ IF r2.cpl > m.reg.desc["es"].dpl THEN r3.sel["es"] = "null" /\ Agrees(r3, "es")
          ELSE r3.sel["es"] = m.reg.sel["es"] /\ r3.desc["es"] = m.reg.desc["es"]
  BY <1>6, <1>10 DEF NulledTo, Loaded, SegRegs
<1>12. /\ Others(r4) = Others(r3) /\ r4.cpl = r3.cpl
       /\ r4.sel["cs"] = r3.sel["cs"] /\ Agrees(r4, "cs") /\ Agrees(r4, "ss")
       /\ IF r3.cpl > m.reg.desc["ds"].dpl THEN r4.sel["ds"] = "null" /\ Agrees(r4, "ds")
          ELSE r4.sel["ds"] = m.reg.sel["ds"] /\ r4.desc["ds"] = m.reg.desc["ds"]
       /\ r4.sel["es"] = r3.sel["es"] /\ r4.desc["es"] = r3.desc["es"]
       /\ Agrees(r3, "es") => Agrees(r4, "es")
  BY <1>7, <1>11 DEF NulledTo, Loaded, SegRegs
<1>13. /\ r4.vm = r2.vm /\ r4.if = r2.if /\ r4.nt = r2.nt /\ r4.ip = r2.ip /\ r4.sp = r2.sp
       /\ Ids(r4) = Ids(r2) /\ General(r4) = General(r2) /\ r4.cpl = r2.cpl
  BY <1>11, <1>12 DEF Others, Ids, General
<1>14. \A o \in {"ds", "es"} :
          IF r4.cpl > m.reg.desc[o].dpl THEN r4.sel[o] = "null" /\ Agrees(r4, o)
          ELSE r4.sel[o] = m.reg.sel[o] /\ r4.desc[o] = m.reg.desc[o]
  BY <1>11, <1>12, <1>13
<1>15. ReturnedOut(m, n)
  BY <1>8, <1>10, <1>11, <1>12, <1>13, <1>14 DEF ReturnedOut, w
<1> QED
  BY <1>15 DEF n

\* A return to the same level.
ReturnedSame(m, n) ==
    /\ IsMac(n) /\ Remaining(n) = Remaining(m) /\ Forgot(m, 3, n.stack)
    /\ n.reg.vm = m.reg.vm
    /\ n.reg.cpl = RPL(Word(m, 1)[2]) /\ n.reg.sel["cs"] = Word(m, 1)[2]
    /\ n.reg.if = Word(m, 2)[2].if /\ n.reg.nt = Word(m, 2)[2].nt
    /\ n.reg.ip = Word(m, 0)[2] /\ n.reg.sp = <<m.reg.sp[1], m.reg.sp[2] - 3>>
    /\ Ids(n.reg) = Ids(m.reg) /\ General(n.reg) = General(m.reg)
    /\ Agrees(n.reg, "cs")
    /\ \A o \in {"ss", "ds", "es"} : n.reg.sel[o] = m.reg.sel[o] /\ n.reg.desc[o] = m.reg.desc[o]

\* Taking words off.
Popped(m, i, n) ==
    /\ IsMac(n) /\ Remaining(n) = Remaining(m) /\ Forgot(m, i, n.stack)
    /\ MovedSP(m.reg, <<m.reg.sp[1], m.reg.sp[2] - i>>, n.reg)

\* A pop takes words off and moves ESP.
LEMMA PopFields ==
  ASSUME NEW m, IsMac(m), NEW i
  PROVE  Popped(m, i, Pop(m, i))
<1> DEFINE p == Forget(m, i)
           q == [m.reg EXCEPT !.sp = <<@[1], @[2] - i>>]
           n == Pop(m, i)
<1>1. IsMac(p) /\ p.reg = m.reg
  BY ForgetFields
<1>2. n = [p EXCEPT !.reg.sp = <<@[1], @[2] - i>>]
  BY DEF Pop
<1> HIDE DEF p
<1>3. n = [p EXCEPT !.reg = q]
  BY <1>1, <1>2
<1> HIDE DEF n
<1>4. MovedSP(m.reg, <<m.reg.sp[1], m.reg.sp[2] - i>>, q)
  <2> DEFINE y == <<m.reg.sp[1], m.reg.sp[2] - i>>
  <2>1. IsRegs(m.reg) /\ q = [m.reg EXCEPT !.sp = y]
    BY DEF IsMac
  <2> HIDE DEF y, q
  <2>2. MovedSP(m.reg, y, q)
    BY <2>1, SPFields
  <2> QED
    BY <2>2 DEF y
<1> HIDE DEF q
<1>5. IsRegs(q)
  BY <1>4 DEF MovedSP, Moved
<1>6. IsMac(n) /\ Remaining(n) = Remaining(m) /\ n.reg = q /\ Forgot(m, i, n.stack)
  <2>1. n = [Forget(m, i) EXCEPT !.reg = q]
    BY <1>3 DEF p
  <2>2. Forgetting(m, i, q, n)
    BY <1>5, <2>1, ForgetInto
  <2> QED
    BY <2>2 DEF Forgetting
<1>7. Popped(m, i, n)
  BY <1>4, <1>6 DEF Popped
<1> QED
  BY <1>7 DEF n

\* IRET to the handler that was interrupted.
LEMMA IretSameFields ==
  ASSUME NEW m, IsMac(m), ~m.reg.vm
  PROVE  ReturnedSame(m, IretSame(m))
<1> DEFINE w(i) == Word(m, i)[2]
           r0 == [m.reg EXCEPT !.if = w(2).if, !.nt = w(2).nt, !.ip = w(0)]
           r1 == updateSegReg(r0, "cs", w(1))
           o == [m EXCEPT !.reg = r1]
           n == IretSame(m)
<1>1. n = Pop(o, 3)
  BY DEF IretSame
<1> HIDE DEF w, n
<1>2. Resumes(m.reg, w(2), m.reg.vm, w(0), r0) /\ IsRegs(r0)
  <2>1. Resumes(m.reg, w(2), m.reg.vm, w(0), r0)
    BY FlagsIPFields DEF IsMac
  <2> QED
    BY <2>1 DEF Resumes
<1> HIDE DEF r0
<1>3. Loaded(r0, "cs", w(1), r1) /\ IsRegs(r1)
  <2>1. Loaded(r0, "cs", w(1), r1)
    BY <1>2, Loads DEF SegRegs
  <2> QED
    BY <2>1 DEF Loaded
<1> HIDE DEF r1
<1>4. IsMac(o) /\ o.reg = r1 /\ o.stack = m.stack /\ Remaining(o) = Remaining(m)
  BY <1>3 DEF IsMac, Remaining
<1> HIDE DEF o
<1>5. Popped(o, 3, n)
  BY <1>1, <1>4, PopFields
<1>6. /\ r1.sp = m.reg.sp /\ r1.vm = m.reg.vm /\ r1.if = w(2).if /\ r1.nt = w(2).nt /\ r1.ip = w(0)
      /\ Ids(r1) = Ids(m.reg) /\ General(r1) = General(m.reg) /\ r1.cpl = RPL(w(1))
      /\ r1.sel["cs"] = w(1) /\ Agrees(r1, "cs")
      /\ \A s \in {"ss", "ds", "es"} : r1.sel[s] = m.reg.sel[s] /\ r1.desc[s] = m.reg.desc[s]
  BY <1>2, <1>3 DEF Loaded, Resumes, Others, Ids, General, SegRegs
<1>7. Forgot(m, 3, n.stack)
  BY <1>4, <1>5, <1>6 DEF Popped, Forgot
<1>8. MovedSP(r1, <<m.reg.sp[1], m.reg.sp[2] - 3>>, n.reg)
  BY <1>4, <1>5, <1>6 DEF Popped
<1>9. Agrees(n.reg, "cs")
  BY <1>6, <1>8 DEF MovedSP, Moved, Agrees, DescOf, Ids
<1>10. ReturnedSame(m, n)
  BY <1>4, <1>5, <1>6, <1>7, <1>8, <1>9 DEF ReturnedSame, MovedSP, Moved, w, Popped
<1> QED
  BY <1>10 DEF n

-----------------------------------------------------------------------------
(***************************************************************************)
(* The task switch.                                                        *)
(***************************************************************************)
\* What loadTaskState takes from a TSS: with the TLB, the LDT and all segment
\* registers of one task.
TaskLoaded(r, T, q) ==
    /\ IsRegs(q)
    /\ q.if = T.flags.if /\ q.nt = T.flags.nt /\ q.vm = T.flags.vm
    /\ q.cr3 = r.dtr /\ q.tlb = {r.dtr} /\ q.ldtr = r.dtr /\ q.dldt = r.dtr
    /\ q.tr = r.tr /\ q.dtr = r.dtr /\ q.ts = r.ts
    /\ q.ax = T.ax /\ q.sp = T.sp /\ q.ip = T.ip
    /\ q.cpl = IF T.flags.vm THEN r.cpl ELSE RPL(T.sel["cs"])
    /\ \A o \in SegRegs : q.sel[o] = T.sel[o] /\ Agrees(q, o)

\* What a task gets out of its TSS: its registers, each with its cache.
LEMMA LoadStateFields ==
  ASSUME NEW r, IsRegs(r), NEW T
  PROVE  TaskLoaded(r, T, loadTaskState(r, T))
<1> DEFINE f == SetFlags(r, T.flags)
           r0 == [f EXCEPT !.cr3 = r.dtr, !.tlb = {r.dtr},
                           !.ldtr = r.dtr, !.dldt = r.dtr, !.ax = T.ax, !.sp = T.sp]
           a0 == updateSegReg(r0, "es", T.sel["es"])
           r1 == updateSegReg(a0, "cs", T.sel["cs"])
           a1 == updateSegReg(r1, "ss", T.sel["ss"])
           r2 == updateSegReg(a1, "ds", T.sel["ds"])
           q == loadTaskState(r, T)
<1>1. q = [r2 EXCEPT !.ip = T.ip]
  BY DEF loadTaskState
<1> HIDE DEF q
<1>2. Resumes(r, T.flags, T.flags.vm, r.ip, f) /\ IsRegs(f)
  BY FlagsFields DEF Resumes
<1> HIDE DEF f
<1>3. /\ IsRegs(r0) /\ r0.cpl = f.cpl /\ r0.sel = f.sel /\ r0.desc = f.desc
      /\ r0.if = f.if /\ r0.nt = f.nt /\ r0.vm = f.vm /\ r0.ip = f.ip
      /\ r0.cr3 = r.dtr /\ r0.tlb = {r.dtr} /\ r0.ldtr = r.dtr /\ r0.dldt = r.dtr
      /\ r0.tr = f.tr /\ r0.dtr = f.dtr /\ r0.ts = f.ts /\ r0.ax = T.ax /\ r0.sp = T.sp
  BY <1>2 DEF IsRegs, RegNames
<1> HIDE DEF r0
<1>4. Loaded(r0, "es", T.sel["es"], a0) /\ IsRegs(a0)
  <2>1. Loaded(r0, "es", T.sel["es"], a0)
    BY <1>3, Loads DEF SegRegs
  <2> QED
    BY <2>1 DEF Loaded
<1> HIDE DEF a0
<1>5. Loaded(a0, "cs", T.sel["cs"], r1) /\ IsRegs(r1)
  <2>1. Loaded(a0, "cs", T.sel["cs"], r1)
    BY <1>4, Loads DEF SegRegs
  <2> QED
    BY <2>1 DEF Loaded
<1> HIDE DEF r1
<1>6. Loaded(r1, "ss", T.sel["ss"], a1) /\ IsRegs(a1)
  <2>1. Loaded(r1, "ss", T.sel["ss"], a1)
    BY <1>5, Loads DEF SegRegs
  <2> QED
    BY <2>1 DEF Loaded
<1> HIDE DEF a1
<1>7. Loaded(a1, "ds", T.sel["ds"], r2) /\ IsRegs(r2)
  <2>1. Loaded(a1, "ds", T.sel["ds"], r2)
    BY <1>6, Loads DEF SegRegs
  <2> QED
    BY <2>1 DEF Loaded
<1> HIDE DEF r2
<1>8. MovedIP(r2, T.ip, q)
  BY <1>1, <1>7, IPFields
<1>9. Others(r2) = Others(r0)
  BY <1>4, <1>5, <1>6, <1>7 DEF Loaded
<1>10. /\ r2.if = f.if /\ r2.nt = f.nt /\ r2.vm = f.vm
       /\ r2.cr3 = r.dtr /\ r2.tlb = {r.dtr} /\ r2.ldtr = r.dtr /\ r2.dldt = r.dtr
       /\ r2.tr = f.tr /\ r2.dtr = f.dtr /\ r2.ts = f.ts /\ r2.ax = T.ax /\ r2.sp = T.sp
  BY <1>3, <1>9 DEF Others
<1>11. r2.cpl = IF T.flags.vm THEN r.cpl ELSE RPL(T.sel["cs"])
  <2>1. a0.cpl = r0.cpl /\ a0.vm = r0.vm
    BY <1>4 DEF Loaded, Others
  <2>2. r1.cpl = IF ~a0.vm THEN RPL(T.sel["cs"]) ELSE a0.cpl
    BY <1>5 DEF Loaded
  <2>3. r2.cpl = r1.cpl
    BY <1>6, <1>7 DEF Loaded
  <2>4. r0.cpl = r.cpl /\ r0.vm = T.flags.vm
    BY <1>2, <1>3 DEF Resumes
  <2> QED
    BY <2>1, <2>2, <2>3, <2>4
<1>12. \A o \in SegRegs : r2.sel[o] = T.sel[o] /\ Agrees(r2, o)
  <2>1. a0.sel["es"] = T.sel["es"] /\ Agrees(a0, "es")
    BY <1>4 DEF Loaded
  <2>2. /\ r1.sel["es"] = T.sel["es"] /\ Agrees(r1, "es")
        /\ r1.sel["cs"] = T.sel["cs"] /\ Agrees(r1, "cs")
    BY <1>5, <2>1 DEF Loaded, SegRegs
  <2>3. /\ a1.sel["es"] = T.sel["es"] /\ Agrees(a1, "es")
        /\ a1.sel["cs"] = T.sel["cs"] /\ Agrees(a1, "cs")
        /\ a1.sel["ss"] = T.sel["ss"] /\ Agrees(a1, "ss")
    BY <1>6, <2>2 DEF Loaded, SegRegs
  <2>4. /\ r2.sel["es"] = T.sel["es"] /\ Agrees(r2, "es")
        /\ r2.sel["cs"] = T.sel["cs"] /\ Agrees(r2, "cs")
        /\ r2.sel["ss"] = T.sel["ss"] /\ Agrees(r2, "ss")
        /\ r2.sel["ds"] = T.sel["ds"] /\ Agrees(r2, "ds")
    BY <1>7, <2>3 DEF Loaded, SegRegs
  <2> QED
    BY <2>4 DEF SegRegs
<1>13. \A o \in SegRegs : q.sel[o] = T.sel[o] /\ Agrees(q, o)
  BY <1>8, <1>12 DEF MovedIP, Moved, Agrees, DescOf, Ids
<1>14. f.tr = r.tr /\ f.dtr = r.dtr /\ f.ts = r.ts
       /\ f.if = T.flags.if /\ f.nt = T.flags.nt /\ f.vm = T.flags.vm
  BY <1>2 DEF Resumes, Ids, General
<1>15. /\ IsRegs(q) /\ q.if = r2.if /\ q.nt = r2.nt /\ q.vm = r2.vm /\ q.cpl = r2.cpl
       /\ q.cr3 = r2.cr3 /\ q.tlb = r2.tlb /\ q.ldtr = r2.ldtr /\ q.dldt = r2.dldt
       /\ q.tr = r2.tr /\ q.dtr = r2.dtr /\ q.ts = r2.ts /\ q.ax = r2.ax /\ q.sp = r2.sp
       /\ q.ip = T.ip
  BY <1>8 DEF MovedIP, Moved, Ids, General
<1>16. TaskLoaded(r, T, q)
  BY <1>10, <1>11, <1>13, <1>14, <1>15 DEF TaskLoaded
<1> QED
  BY <1>16 DEF q

SavedTask(r, ip, nt) ==
    [flags |-> [if |-> r.if, nt |-> nt, vm |-> r.vm], ax |-> r.ax, ip |-> ip, sp |-> r.sp, sel |-> r.sel]

\* The registers of the task that has been switched to, but for NT those of its TSS.
TaskRuns(m, t, nt, q) ==
    /\ IsRegs(q)
    /\ q.if = m.tss[t].flags.if /\ q.nt = nt /\ q.vm = m.tss[t].flags.vm
    /\ q.cr3 = t /\ q.tlb = {t} /\ q.ldtr = t /\ q.dldt = t /\ q.tr = t /\ q.dtr = t
    /\ q.ts = TRUE /\ q.ax = m.tss[t].ax /\ q.sp = m.tss[t].sp /\ q.ip = m.tss[t].ip
    /\ q.cpl = IF m.tss[t].flags.vm THEN m.reg.cpl ELSE RPL(m.tss[t].sel["cs"])
    /\ \A o \in SegRegs : q.sel[o] = m.tss[t].sel[o] /\ Agrees(q, o)

\* A switch: what the old task leaves in its TSS, and what the new one takes.
SwitchedTo(m, t, left, nt, n) ==
    /\ IsMac(n) /\ n.stack = m.stack
    /\ n.tss = [m.tss EXCEPT ![m.reg.dtr] = left, ![t] = Forgotten(t)]
    /\ TaskRuns(m, t, nt, n.reg)

\* unloadTaskRegister after loadTaskRegister.
Unloaded(m, ip, x, b) ==
    /\ {"reg", "stack", "tss", "busy", "link"} \subseteq DOMAIN b /\ b.stack = m.stack
    /\ b.reg = [m.reg EXCEPT !.nt = x]
    /\ b.tss = [m.tss EXCEPT ![m.reg.dtr] = SavedTask(m.reg, ip, x)]

\* What a task leaves in its TSS.
LEMMA Unloads ==
  ASSUME NEW m, IsMac(m), NEW t, NEW a, {"reg", "stack", "tss", "busy", "link"} \subseteq DOMAIN a,
         a.reg = m.reg, a.stack = m.stack, a.tss = m.tss,
         NEW clear, NEW clearNT, NEW ip, NEW b, b = unloadTaskRegister(a, ip, clear, clearNT),
         NEW x, x = (m.reg.nt /\ ~clearNT)
  PROVE  Unloaded(m, ip, x, b)
<1> DEFINE r == [m.reg EXCEPT !.nt = @ /\ ~clearNT]
           left == IF clear THEN a.busy \ {r.tr} ELSE a.busy
           saved == [flags |-> Flags(r), ax |-> r.ax, ip |-> ip, sp |-> r.sp, sel |-> r.sel]
<1>1. b = [a EXCEPT !.busy = left, !.reg = r, !.tss[r.dtr] = saved]
  BY DEF unloadTaskRegister
<1>2. /\ r.dtr = m.reg.dtr /\ r.if = m.reg.if /\ r.vm = m.reg.vm /\ r.ax = m.reg.ax
      /\ r.sp = m.reg.sp /\ r.sel = m.reg.sel
  BY DEF IsMac, IsRegs, RegNames
<1>3. r.nt = (m.reg.nt /\ ~clearNT)
  BY DEF IsMac, IsRegs, RegNames
<1>4. saved = SavedTask(m.reg, ip, m.reg.nt /\ ~clearNT)
  <2> DEFINE c == m.reg.nt /\ ~clearNT
  <2> HIDE DEF r, c
  <2> QED
    BY <1>2, <1>3 DEF SavedTask, Flags, c
<1> HIDE DEF left, saved
<1>5. /\ {"reg", "stack", "tss", "busy", "link"} \subseteq DOMAIN b /\ b.stack = a.stack
      /\ b.reg = r /\ b.tss = [a.tss EXCEPT ![r.dtr] = saved]
  BY <1>1
<1> HIDE DEF r
<1>6. b.tss = [m.tss EXCEPT ![m.reg.dtr] = saved]
  BY <1>2, <1>5
<1> QED
  BY <1>4, <1>5, <1>6 DEF r, Unloaded

\* NewTask after unloadTaskRegister.
LEMMA NewTaskFields ==
  ASSUME NEW m, IsMac(m), NEW t, t # m.reg.dtr, NEW left, NEW x,
         NEW b, {"reg", "stack", "tss", "busy", "link"} \subseteq DOMAIN b, b.stack = m.stack,
         b.reg = [m.reg EXCEPT !.nt = x], b.tss = [m.tss EXCEPT ![m.reg.dtr] = left]
  PROVE  SwitchedTo(m, t, left, m.tss[t].flags.nt, NewTask(b, t))
<1> DEFINE r == [b.reg EXCEPT !.tr = t, !.dtr = t, !.ts = TRUE]
           q == loadTaskState(r, b.tss[t])
           n == NewTask(b, t)
           T == m.tss[t]
<1>1. n = [b EXCEPT !.reg = q, !.tss[t] = Forgotten(t)]
  BY DEF NewTask
<1> HIDE DEF n
<1>2. b.tss[t] = T
  BY DEF IsMac
<1>3. IsRegs(r) /\ r.tr = t /\ r.dtr = t /\ r.ts = TRUE /\ r.cpl = m.reg.cpl
  BY DEF IsMac, IsRegs, RegNames
<1> HIDE DEF r
<1>4. q = loadTaskState(r, T)
  BY <1>2
<1> HIDE DEF q, T
<1>5. TaskLoaded(r, T, q)
  BY <1>3, <1>4, LoadStateFields
<1>6. n.reg = q /\ n.stack = b.stack /\ n.tss = [b.tss EXCEPT ![t] = Forgotten(t)]
      /\ {"reg", "stack", "tss", "busy", "link"} \subseteq DOMAIN n
  BY <1>1
<1>7. IsRegs(q)
  BY <1>5 DEF TaskLoaded
<1>8. IsMac(n)
  BY <1>6, <1>7 DEF IsMac
<1>9. n.tss = [m.tss EXCEPT ![m.reg.dtr] = left, ![t] = Forgotten(t)]
  BY <1>6
<1>10. TaskRuns(m, t, T.flags.nt, n.reg)
  BY <1>3, <1>5, <1>6 DEF TaskLoaded, TaskRuns, T
<1>11. SwitchedTo(m, t, left, T.flags.nt, n)
  BY <1>6, <1>8, <1>9, <1>10 DEF SwitchedTo
<1> QED
  BY <1>11 DEF n, T

\* NT set or cleared behind a switch.
LEMMA NTFields ==
  ASSUME NEW m, NEW t, NEW left, NEW x, NEW c, SwitchedTo(m, t, left, x, c),
         NEW nt, NEW n, n = [c EXCEPT !.reg.nt = nt]
  PROVE  SwitchedTo(m, t, left, nt, n)
<1> DEFINE p == c.reg
           q == [c.reg EXCEPT !.nt = nt]
<1>1. IsMac(c) /\ IsRegs(p) /\ TaskRuns(m, t, x, p)
  BY DEF SwitchedTo, IsMac
<1>2. n = [c EXCEPT !.reg = q]
  OBVIOUS
<1>3. q = [p EXCEPT !.nt = nt]
  OBVIOUS
<1> HIDE DEF p, q
<1>4. /\ IsRegs(q) /\ q.nt = nt /\ q.sel = p.sel /\ q.desc = p.desc /\ q.cpl = p.cpl
      /\ q.if = p.if /\ q.vm = p.vm /\ q.cr3 = p.cr3 /\ q.tlb = p.tlb /\ q.ldtr = p.ldtr
      /\ q.dldt = p.dldt /\ q.tr = p.tr /\ q.dtr = p.dtr /\ q.ts = p.ts /\ q.ax = p.ax
      /\ q.sp = p.sp /\ q.ip = p.ip
  BY <1>1, <1>3 DEF IsRegs, RegNames
<1>5. \A o : Agrees(p, o) => Agrees(q, o)
  BY <1>4 DEF Agrees, DescOf
<1>6. n.reg = q /\ n.stack = c.stack /\ n.tss = c.tss
      /\ {"reg", "stack", "tss", "busy", "link"} \subseteq DOMAIN n
  BY <1>1, <1>2 DEF IsMac
<1>7. IsMac(n)
  BY <1>1, <1>4, <1>6 DEF IsMac
<1>8. TaskRuns(m, t, nt, q)
  BY <1>1, <1>4, <1>5 DEF TaskRuns
<1> QED
  BY <1>6, <1>7, <1>8 DEF SwitchedTo

\* The three switches.
LEMMA SwitchFields ==
  ASSUME NEW m, IsMac(m), NEW t, t # m.reg.dtr
  PROVE  /\ SwitchedTo(m, t, SavedTask(m.reg, Next1(m.reg.ip), m.reg.nt /\ ~FALSE), FALSE, SwitchByJMP(m, t))
         /\ SwitchedTo(m, t, SavedTask(m.reg, Next1(m.reg.ip), m.reg.nt /\ ~FALSE), TRUE, SwitchByCALL(m, t))
         /\ SwitchedTo(m, t, SavedTask(m.reg, Next1(m.reg.ip), m.reg.nt /\ ~TRUE), m.tss[t].flags.nt,
                       SwitchByIRET(m, t))
<1> DEFINE ip == Next1(m.reg.ip)
           yes == TRUE
           no == FALSE
           x == m.reg.nt /\ ~no
           y == m.reg.nt /\ ~yes
           kept == SavedTask(m.reg, ip, x)
           cleared == SavedTask(m.reg, ip, y)
           nt == m.tss[t].flags.nt
<1> HIDE DEF ip, kept, cleared, x, y, nt, yes, no
<1>1. ASSUME NEW busy1, NEW link1
      PROVE  LET a == loadTaskRegister(m, t, busy1, link1)
             IN {"reg", "stack", "tss", "busy", "link"} \subseteq DOMAIN a
                /\ a.reg = m.reg /\ a.stack = m.stack /\ a.tss = m.tss
  BY DEF loadTaskRegister, IsMac
<1>2. SwitchedTo(m, t, kept, FALSE, SwitchByJMP(m, t))
  <2> DEFINE a == loadTaskRegister(m, t, TRUE, None)
             b == unloadTaskRegister(a, ip, yes, no)
             c == NewTask(b, t)
             n == SwitchByJMP(m, t)
  <2>1. {"reg", "stack", "tss", "busy", "link"} \subseteq DOMAIN a
        /\ a.reg = m.reg /\ a.stack = m.stack /\ a.tss = m.tss
    BY <1>1
  <2>2. n = [c EXCEPT !.reg.nt = FALSE]
    BY DEF SwitchByJMP, ip, yes, no
  <2> HIDE DEF a, n
  <2>3. Unloaded(m, ip, x, b)
    BY <2>1, Unloads DEF x
  <2> HIDE DEF b
  <2>4. SwitchedTo(m, t, kept, nt, c)
    BY <2>3, NewTaskFields DEF nt, Unloaded, kept
  <2> HIDE DEF c
  <2>5. SwitchedTo(m, t, kept, FALSE, n)
    BY <2>2, <2>4, NTFields
  <2> QED
    BY <2>5 DEF n
<1>3. SwitchedTo(m, t, kept, TRUE, SwitchByCALL(m, t))
  <2> DEFINE a == loadTaskRegister(m, t, TRUE, m.reg.tr)
             b == unloadTaskRegister(a, ip, no, no)
             c == NewTask(b, t)
             n == SwitchByCALL(m, t)
  <2>1. {"reg", "stack", "tss", "busy", "link"} \subseteq DOMAIN a
        /\ a.reg = m.reg /\ a.stack = m.stack /\ a.tss = m.tss
    BY <1>1
  <2>2. n = [c EXCEPT !.reg.nt = TRUE]
    BY DEF SwitchByCALL, ip, yes, no
  <2> HIDE DEF a, n
  <2>3. Unloaded(m, ip, x, b)
    BY <2>1, Unloads DEF x
  <2> HIDE DEF b
  <2>4. SwitchedTo(m, t, kept, nt, c)
    BY <2>3, NewTaskFields DEF nt, Unloaded, kept
  <2> HIDE DEF c
  <2>5. SwitchedTo(m, t, kept, TRUE, n)
    BY <2>2, <2>4, NTFields
  <2> QED
    BY <2>5 DEF n
<1>4. SwitchedTo(m, t, cleared, nt, SwitchByIRET(m, t))
  <2> DEFINE a == loadTaskRegister(m, t, FALSE, None)
             b == unloadTaskRegister(a, ip, yes, yes)
  <2>1. {"reg", "stack", "tss", "busy", "link"} \subseteq DOMAIN a
        /\ a.reg = m.reg /\ a.stack = m.stack /\ a.tss = m.tss
    BY <1>1
  <2>2. SwitchByIRET(m, t) = NewTask(b, t)
    BY DEF SwitchByIRET, ip, yes, no
  <2> HIDE DEF a
  <2>3. Unloaded(m, ip, y, b)
    BY <2>1, Unloads DEF y
  <2> HIDE DEF b
  <2>4. SwitchedTo(m, t, cleared, nt, NewTask(b, t))
    BY <2>3, NewTaskFields DEF nt, Unloaded, cleared
  <2> QED
    BY <2>2, <2>4
<1> QED
  BY <1>2, <1>3, <1>4 DEF kept, cleared, nt, ip, x, y, yes, no

-----------------------------------------------------------------------------
(***************************************************************************)
(* What is cached.                                                         *)
(***************************************************************************)
\* The caches agree, but for those of S.
RegInv(r, S) ==
    /\ IsRegs(r) /\ AgreeBut(r, S)
    /\ r.cpl = IF r.vm THEN 3 ELSE RPL(r.sel["cs"])
    /\ r.dtr = r.tr /\ r.dldt = r.ldtr
    /\ r.tr # None => r.cr3 = r.tr
    /\ r.tr = None => r.cr3 = Boot
    /\ r.tlb \subseteq {r.cr3}

Spared == IF reg.tr \in again THEN {"es"} ELSE {}

\* A TSS never asks for virtual 8086 mode, which a switch would enter at level 0;
\* and until LTR and LLDT are done the guest uses its GDT only.
CachesInv ==
    /\ RegInv(reg, Spared)
    /\ IsFun(stack)
    /\ DOMAIN tss = Tasks /\ \A t \in Tasks : ~tss[t].flags.vm
    /\ ~Booted => again = {} /\ ~reg.vm /\ \A seg \in SegRegs : reg.sel[seg] \notin LdtSelectors

\* The invariant is stronger than the property.
LEMMA CachesFollow == CachesInv => CachesAgree
BY DEF CachesInv, CachesAgree, RegInv, AgreeBut, Spared, Agrees

\* The invariant holds when the machine starts.
LEMMA CachesInit == Init => CachesInv
<1> SUFFICES ASSUME Init PROVE CachesInv
  OBVIOUS
<1>1. /\ IsRegs(reg) /\ reg.sel = KernelSel /\ reg.vm = FALSE /\ reg.cpl = 0
      /\ reg.desc = [seg \in SegRegs |-> RawDesc(KernelSel[seg], None)]
      /\ reg.tr = None /\ reg.dtr = None /\ reg.dldt = None /\ reg.ldtr = None
      /\ reg.cr3 = Boot /\ reg.tlb = {Boot}
  <2>1. /\ reg.sel = KernelSel /\ reg.vm = FALSE /\ reg.cpl = 0
        /\ reg.desc = [seg \in SegRegs |-> RawDesc(KernelSel[seg], None)]
        /\ reg.tr = None /\ reg.dtr = None /\ reg.dldt = None /\ reg.ldtr = None
        /\ reg.cr3 = Boot /\ reg.tlb = {Boot} /\ RegNames \subseteq DOMAIN reg
    BY DEF Init, RegNames
  <2> QED
    BY <2>1 DEF IsRegs, KernelSel
<1>2. \A seg \in SegRegs : reg.sel[seg] \in {"KCS", "KDS"} /\ Agrees(reg, seg)
  BY <1>1 DEF KernelSel, Agrees, DescOf
<1>3. reg.cpl = RPL(reg.sel["cs"])
  BY <1>1 DEF KernelSel, RPL, LdtSelectors, SegRegs
<1>4. again = {} /\ IsFun(stack)
  BY DEF Init, IsFun
<1>5. DOMAIN tss = Tasks /\ \A t \in Tasks : ~tss[t].flags.vm
  <2>1. DOMAIN tss = Tasks
    BY DEF Init
  <2>2. ASSUME NEW t \in Tasks PROVE ~tss[t].flags.vm
    <3>1. tss[t] = Forgotten(t) \/ tss[t] = [Forgotten(t) EXCEPT !.sp = <<t, Len(FirstFrame(t))>>]
      BY DEF Init
    <3> QED
      BY <3>1 DEF Forgotten
  <2> QED
    BY <2>1, <2>2
<1>6. RegInv(reg, Spared)
  BY <1>1, <1>2, <1>3, <1>4 DEF RegInv, AgreeBut, Spared
<1>7. ~Booted => again = {} /\ ~reg.vm /\ \A seg \in SegRegs : reg.sel[seg] \notin LdtSelectors
  BY <1>1, <1>2, <1>4 DEF LdtSelectors
<1> QED
  BY <1>4, <1>5, <1>6, <1>7 DEF CachesInv

\* Level 0 is never in virtual 8086 mode.
LEMMA Level0 ==
  ASSUME NEW r, NEW S, RegInv(r, S), r.cpl = 0
  PROVE  ~r.vm
BY DEF RegInv

\* A handler's registers are consistent if those of what it interrupts are.
LEMMA HandlerInv ==
  ASSUME NEW m, IsMac(m), NEW S, AgreeBut(m.reg, S), m.reg.cpl = 0 => ~m.reg.vm,
         m.reg.dtr = m.reg.tr, m.reg.dldt = m.reg.ldtr, m.reg.tlb \subseteq {m.reg.cr3},
         m.reg.tr # None => m.reg.cr3 = m.reg.tr, m.reg.tr = None => m.reg.cr3 = Boot,
         NEW gate, NEW codes
  PROVE  RegInv(EnterINT(m, gate, codes).reg, S) /\ Ids(EnterINT(m, gate, codes).reg) = Ids(m.reg)
<1> DEFINE n == EnterINT(m, gate, codes)
           r == m.reg
           q == n.reg
<1>1. Entered(m, gate, codes, n)
  BY EnterFields
<1> HIDE DEF n
<1>2. Handling(r, q) /\ q.sel["cs"] = "KCS" /\ Agrees(q, "cs")
  BY <1>1 DEF Entered
<1> HIDE DEF q, r
<1>3. AgreeBut(q, S)
  BY <1>2, HandlerAgrees DEF r
<1>4. IsRegs(q) /\ q.cpl = 0 /\ q.vm = FALSE /\ Ids(q) = Ids(r)
  BY <1>2 DEF Handling
<1>5. RPL("KCS") = 0
  BY DEF RPL, LdtSelectors
<1>6. q.dtr = r.dtr /\ q.tr = r.tr /\ q.dldt = r.dldt /\ q.ldtr = r.ldtr /\ q.cr3 = r.cr3 /\ q.tlb = r.tlb
  BY <1>4 DEF Ids
<1>7. RegInv(q, S)
  BY <1>2, <1>3, <1>4, <1>5, <1>6 DEF RegInv, r
<1> QED
  BY <1>4, <1>7 DEF q, r, n

\* So are those after a return.
LEMMA ReturnInv ==
  ASSUME NEW m, IsMac(m), NEW S, RegInv(m.reg, S), m.reg.cpl = 0
  PROVE  RegInv(exIRET(m).reg, S) /\ Ids(exIRET(m).reg) = Ids(m.reg) /\ IsMac(exIRET(m))
         /\ Remaining(exIRET(m)) = Remaining(m)
<1> DEFINE n == exIRET(m)
           r == m.reg
           q == n.reg
<1>0. ~r.vm /\ IsRegs(r) /\ AgreeBut(r, S)
  BY Level0 DEF RegInv
<1>1. CASE Word(m, 2)[2].vm
  <2>1. ReturnedToVM(m, n)
    BY <1>1, IretVMFields DEF exIRET
  <2> HIDE DEF n
  <2>2. /\ IsRegs(q) /\ q.cpl = 3 /\ q.vm = Word(m, 2)[2].vm /\ \A o \in SegRegs : Agrees(q, o)
        /\ Ids(q) = Ids(r) /\ IsMac(n) /\ Remaining(n) = Remaining(m)
    BY <2>1 DEF ReturnedToVM, IsMac
  <2> HIDE DEF q, r
  <2>3. q.dtr = r.dtr /\ q.tr = r.tr /\ q.dldt = r.dldt /\ q.ldtr = r.ldtr /\ q.cr3 = r.cr3 /\ q.tlb = r.tlb
    BY <2>2 DEF Ids
  <2>4. RegInv(q, S)
    BY <1>1, <2>2, <2>3 DEF RegInv, AgreeBut, r
  <2> QED
    BY <2>2, <2>4 DEF q, r, n
<1>2. CASE ~Word(m, 2)[2].vm /\ RPL(Word(m, 1)[2]) > m.reg.cpl
  <2>1. ReturnedOut(m, n)
    BY <1>0, <1>2, IretOuterFields DEF exIRET
  <2> HIDE DEF n
  <2>2. /\ IsRegs(q) /\ q.vm = r.vm /\ q.cpl = RPL(q.sel["cs"])
        /\ Ids(q) = Ids(r) /\ IsMac(n) /\ Remaining(n) = Remaining(m)
        /\ Agrees(q, "cs") /\ Agrees(q, "ss")
        /\ \A o \in {"ds", "es"} : Agrees(q, o) \/ (q.sel[o] = r.sel[o] /\ q.desc[o] = r.desc[o])
    BY <1>0, <2>1 DEF ReturnedOut, IsMac
  <2> HIDE DEF q, r
  <2>3. q.dtr = r.dtr /\ q.tr = r.tr /\ q.dldt = r.dldt /\ q.ldtr = r.ldtr /\ q.cr3 = r.cr3 /\ q.tlb = r.tlb
    BY <2>2 DEF Ids
  <2>4. \A o \in {"ds", "es"} : Agrees(r, o) => Agrees(q, o)
    BY <2>2, <2>3 DEF Agrees, DescOf
  <2>5. AgreeBut(q, S)
    BY <1>0, <2>2, <2>4 DEF AgreeBut, SegRegs
  <2>6. RegInv(q, S)
    BY <1>0, <2>2, <2>3, <2>5 DEF RegInv, r
  <2> QED
    BY <2>2, <2>6 DEF q, r, n
<1>3. CASE ~Word(m, 2)[2].vm /\ ~(RPL(Word(m, 1)[2]) > m.reg.cpl)
  <2>1. ReturnedSame(m, n)
    BY <1>0, <1>3, IretSameFields DEF exIRET
  <2> HIDE DEF n
  <2>2. /\ IsRegs(q) /\ q.vm = r.vm /\ q.cpl = RPL(q.sel["cs"])
        /\ Ids(q) = Ids(r) /\ IsMac(n) /\ Remaining(n) = Remaining(m)
        /\ Agrees(q, "cs")
        /\ \A o \in {"ss", "ds", "es"} : q.sel[o] = r.sel[o] /\ q.desc[o] = r.desc[o]
    BY <1>0, <2>1 DEF ReturnedSame, IsMac
  <2> HIDE DEF q, r
  <2>3. q.dtr = r.dtr /\ q.tr = r.tr /\ q.dldt = r.dldt /\ q.ldtr = r.ldtr /\ q.cr3 = r.cr3 /\ q.tlb = r.tlb
    BY <2>2 DEF Ids
  <2>4. \A o \in {"ss", "ds", "es"} : Agrees(r, o) => Agrees(q, o)
    BY <2>2, <2>3 DEF Agrees, DescOf
  <2>5. AgreeBut(q, S)
    BY <1>0, <2>2, <2>4 DEF AgreeBut, SegRegs
  <2>6. RegInv(q, S)
    BY <1>0, <2>2, <2>3, <2>5 DEF RegInv, r
  <2> QED
    BY <2>2, <2>6 DEF q, r, n
<1> QED
  BY <1>1, <1>2, <1>3

\* So are those of a task that is switched to.
LEMMA TaskRunsInv ==
  ASSUME NEW m, NEW t, t # None, NEW nt, NEW q, TaskRuns(m, t, nt, q), ~m.tss[t].flags.vm, NEW S
  PROVE  RegInv(q, S) /\ ~q.vm /\ q.tr = t /\ q.dldt = t
<1>1. /\ IsRegs(q) /\ q.vm = m.tss[t].flags.vm /\ q.cr3 = t /\ q.tlb = {t}
      /\ q.ldtr = t /\ q.dldt = t /\ q.tr = t /\ q.dtr = t
      /\ q.cpl = IF m.tss[t].flags.vm THEN m.reg.cpl ELSE RPL(m.tss[t].sel["cs"])
  BY DEF TaskRuns
<1>2. \A o \in SegRegs : q.sel[o] = m.tss[t].sel[o] /\ Agrees(q, o)
  BY DEF TaskRuns
<1>3. ~q.vm /\ q.cpl = RPL(q.sel["cs"])
  BY <1>1, <1>2 DEF SegRegs
<1>4. AgreeBut(q, S)
  BY <1>2 DEF AgreeBut
<1> QED
  BY <1>1, <1>3, <1>4 DEF RegInv

\* A step that leaves the tables alone.
LEMMA CachesKept ==
  ASSUME CachesInv, IsFun(stack'), tss' = tss,
         RegInv(reg', Spared'), Ids(reg') = Ids(reg),
         Booted
  PROVE  CachesInv'
<1>1. Booted'
  BY DEF Booted, Ids
<1> QED
  BY <1>1 DEF CachesInv

\* The record of the state is one of a machine.
LEMMA StateIsMac == CachesInv => IsMac(State) /\ State.reg = reg /\ State.tss = tss
BY DEF CachesInv, RegInv, IsMac, State

\* Entering a handler from the state, or from the state with ES torn.
LEMMA EnteringKeeps ==
  ASSUME CachesInv, Booted, NEW m, IsMac(m), m.tss = tss, m.reg.cpl = reg.cpl, m.reg.vm = reg.vm,
         Ids(m.reg) = Ids(reg), AgreeBut(m.reg, Spared'), NEW gate, NEW codes,
         Set(EnterINT(m, gate, codes))
  PROVE  CachesInv'
<1> DEFINE n == EnterINT(m, gate, codes)
           r == m.reg
<1>1. /\ r.tlb = reg.tlb /\ r.cr3 = reg.cr3 /\ r.tr = reg.tr /\ r.dtr = reg.dtr
      /\ r.ldtr = reg.ldtr /\ r.dldt = reg.dldt
  BY DEF Ids
<1>2. /\ r.cpl = 0 => ~r.vm
      /\ r.dtr = r.tr /\ r.dldt = r.ldtr /\ r.tlb \subseteq {r.cr3}
      /\ r.tr # None => r.cr3 = r.tr
      /\ r.tr = None => r.cr3 = Boot
  BY <1>1 DEF CachesInv, RegInv
<1>3. RegInv(n.reg, Spared') /\ Ids(n.reg) = Ids(r)
  <2> DEFINE S == Spared'
  <2>1. AgreeBut(m.reg, S)
    OBVIOUS
  <2> HIDE DEF S
  <2>2. RegInv(n.reg, S) /\ Ids(n.reg) = Ids(r)
    BY <1>2, <2>1, HandlerInv
  <2> QED
    BY <2>2 DEF S
<1>4. Entered(m, gate, codes, n)
  BY <1>2, EnterFields
<1> HIDE DEF n
<1>5. IsMac(n) /\ n.tss = tss
  BY <1>4 DEF Entered, Remaining
<1>6. reg' = n.reg /\ stack' = n.stack /\ tss' = n.tss
  BY DEF Set, n
<1> QED
  BY <1>3, <1>5, <1>6, CachesKept DEF IsMac

\* A switch.
LEMMA SwitchingKeeps ==
  ASSUME CachesInv, Kernel, NEW t \in Tasks, t # reg.tr, NEW left, left.flags.vm = reg.vm, NEW nt,
         NEW n, SwitchedTo(State, t, left, nt, n), Set(n), again' = again
  PROVE  CachesInv'
<1>1. reg' = n.reg /\ stack' = n.stack /\ tss' = n.tss
  BY DEF Set
<1>2. t # None /\ reg.cpl = 0 /\ ~reg.vm
  BY Level0, ProtectedAssumption DEF Kernel, CachesInv
<1>3. RegInv(reg', Spared') /\ reg'.tr = t /\ reg'.dldt = t
  <2>1. TaskRuns(State, t, nt, reg') /\ ~State.tss[t].flags.vm
    BY <1>1, StateIsMac DEF SwitchedTo, CachesInv
  <2> QED
    BY <1>2, <2>1, TaskRunsInv
<1>4. Booted'
  BY <1>2, <1>3 DEF Booted
<1>5. tss' = [tss EXCEPT ![reg.dtr] = left, ![t] = Forgotten(t)] /\ IsFun(stack')
  BY <1>1, StateIsMac DEF SwitchedTo, IsMac
<1>6. DOMAIN tss' = Tasks
  BY <1>5 DEF CachesInv
<1>7. ASSUME NEW u \in Tasks PROVE ~tss'[u].flags.vm
  <2>1. CASE u = t
    BY <1>5, <2>1 DEF CachesInv, Forgotten
  <2>2. CASE u # t /\ u = reg.dtr
    BY <1>2, <1>5, <2>2 DEF CachesInv
  <2>3. CASE u # t /\ u # reg.dtr
    BY <1>5, <2>3 DEF CachesInv
  <2> QED
    BY <2>1, <2>2, <2>3
<1> QED
  BY <1>3, <1>4, <1>5, <1>6, <1>7 DEF CachesInv

\* LTR is executed while no LDT segment is in use.
LEMMA LtrKeeps == ASSUME CachesInv, Ltr PROVE CachesInv'
<1>1. ~Booted /\ reg.tr = None
  BY DEF Ltr, Booted
<1>2. again = {} /\ ~reg.vm /\ \A seg \in SegRegs : reg.sel[seg] \notin LdtSelectors
  BY <1>1 DEF CachesInv
<1>3. reg' = [reg EXCEPT !.dtr = Boot, !.tr = Boot] /\ stack' = stack /\ tss' = tss /\ again' = again
  <2> DEFINE m == loadTaskRegister(State, Boot, TRUE, None)
  <2>1. m.reg = reg /\ m.stack = stack /\ m.tss = tss
        /\ {"reg", "stack", "tss", "busy", "link"} \subseteq DOMAIN m
    BY DEF loadTaskRegister, State
  <2>2. Set([m EXCEPT !.reg.dtr = Boot, !.reg.tr = Boot]) /\ again' = again
    BY DEF Ltr, guest
  <2> HIDE DEF m
  <2> QED
    BY <2>1, <2>2 DEF Set
<1>4. /\ IsRegs(reg') /\ reg'.vm = reg.vm /\ reg'.dldt = reg.dldt /\ reg'.ldtr = reg.ldtr
      /\ reg'.tr = Boot /\ reg'.dtr = Boot /\ reg'.cr3 = reg.cr3 /\ reg'.tlb = reg.tlb
      /\ reg'.sel = reg.sel /\ reg'.desc = reg.desc /\ reg'.cpl = reg.cpl
  BY <1>3 DEF CachesInv, RegInv, IsRegs, RegNames
<1>5. \A seg \in SegRegs : Agrees(reg, seg)
  BY <1>2 DEF CachesInv, RegInv, AgreeBut, Spared
<1>6. AgreeBut(reg', Spared')
  BY <1>4, <1>5 DEF AgreeBut, Agrees, DescOf
<1>7. Boot # None
  BY ProtectedAssumption
<1>8. RegInv(reg', Spared')
  BY <1>1, <1>4, <1>6, <1>7 DEF CachesInv, RegInv
<1> QED
  BY <1>2, <1>3, <1>4, <1>8 DEF CachesInv

\* LLDT: before it nothing has been loaded that depends on the LDT.
LEMMA LldtKeeps == ASSUME CachesInv, Lldt PROVE CachesInv'
<1>1. ~Booted
  BY DEF Lldt, Booted
<1>2. again = {} /\ ~reg.vm /\ \A seg \in SegRegs : reg.sel[seg] \notin LdtSelectors
  BY <1>1 DEF CachesInv
<1>3. reg' = [reg EXCEPT !.ldtr = Boot, !.dldt = Boot] /\ stack' = stack /\ tss' = tss /\ again' = again
  BY DEF Lldt, memory, guest
<1>4. /\ IsRegs(reg') /\ reg'.vm = reg.vm /\ reg'.dldt = Boot /\ reg'.ldtr = Boot
      /\ reg'.tr = reg.tr /\ reg'.dtr = reg.dtr /\ reg'.cr3 = reg.cr3 /\ reg'.tlb = reg.tlb
      /\ reg'.sel = reg.sel /\ reg'.desc = reg.desc /\ reg'.cpl = reg.cpl
  BY <1>3 DEF CachesInv, RegInv, IsRegs, RegNames
<1>5. \A seg \in SegRegs : Agrees(reg, seg)
  BY <1>2 DEF CachesInv, RegInv, AgreeBut, Spared
<1>6. AgreeBut(reg', Spared')
  BY <1>2, <1>4, <1>5 DEF AgreeBut, Agrees, DescOf, RawDesc
<1>7. RegInv(reg', Spared')
  BY <1>4, <1>6 DEF CachesInv, RegInv
<1> QED
  BY <1>2, <1>3, <1>4, <1>7 DEF CachesInv

\* Steps that change no segment register.
SameCaches(r, q) ==
    /\ IsRegs(q) /\ q.sel = r.sel /\ q.desc = r.desc /\ q.cpl = r.cpl
    /\ q.vm = r.vm /\ Ids(q) = Ids(r)

\* A step that leaves selectors, caches and tasks alone.
LEMMA QuietKeeps ==
  ASSUME CachesInv, Booted, IsFun(stack'), tss' = tss, again' = again, SameCaches(reg, reg')
  PROVE  CachesInv'
<1>1. /\ IsRegs(reg') /\ reg'.sel = reg.sel /\ reg'.desc = reg.desc /\ reg'.cpl = reg.cpl
      /\ reg'.vm = reg.vm /\ Ids(reg') = Ids(reg)
  BY DEF SameCaches
<1>2. /\ reg'.tlb = reg.tlb /\ reg'.cr3 = reg.cr3 /\ reg'.tr = reg.tr /\ reg'.dtr = reg.dtr
      /\ reg'.ldtr = reg.ldtr /\ reg'.dldt = reg.dldt
  BY <1>1 DEF Ids
<1>3. Spared' = Spared
  BY <1>2 DEF Spared
<1>4. AgreeBut(reg', Spared')
  BY <1>1, <1>2, <1>3 DEF CachesInv, RegInv, AgreeBut, Agrees, DescOf
<1>5. RegInv(reg', Spared')
  BY <1>1, <1>2, <1>4 DEF CachesInv, RegInv
<1> QED
  BY <1>1, <1>5, CachesKept DEF CachesInv

\* What computes, CLTS and the kernel's bookkeeping leave the caches alone.
LEMMA ComputeKeeps == ASSUME CachesInv, Compute \/ Clts \/ SetPresence PROVE CachesInv'
<1>1. Booted /\ tss' = tss /\ again' = again /\ stack' = stack /\ IsRegs(reg)
  BY DEF CachesInv, RegInv, Compute, Clts, SetPresence, Kernel, User, memory, guest
<1>2. /\ IsRegs(reg') /\ reg'.sel = reg.sel /\ reg'.desc = reg.desc /\ reg'.cpl = reg.cpl
      /\ reg'.vm = reg.vm /\ Ids(reg') = Ids(reg)
  BY <1>1 DEF Compute, Clts, SetPresence, IsRegs, RegNames, Ids
<1> QED
  BY <1>1, <1>2, QuietKeeps DEF CachesInv, SameCaches

\* MOV to a segment register loads its cache; that of ES is the load to be repeated.
LEMMA LoadSegmentKeeps ==
  ASSUME CachesInv, NEW seg \in {"ds", "es"}, NEW s \in Selectors, LoadSegment(seg, s)
  PROVE  CachesInv'
<1> DEFINE q == updateSegReg(reg, seg, s)
<1>1. /\ Booted /\ tss' = tss /\ stack' = stack /\ IsRegs(reg)
      /\ reg' = [q EXCEPT !.ip = Next1(@)]
      /\ User /\ reg.tr \in again => seg = "es"
      /\ again' = IF User THEN again \ {reg.tr} ELSE again
  BY DEF CachesInv, RegInv, LoadSegment, Kernel, User, memory
<1>2. Loaded(reg, seg, s, q) /\ IsRegs(q)
  BY <1>1, Loads DEF SegRegs, Loaded
<1> HIDE DEF q
<1>3. MovedIP(q, Next1(q.ip), reg')
  BY <1>1, <1>2, IPFields
<1>4. /\ IsRegs(reg') /\ Ids(reg') = Ids(reg) /\ reg'.vm = reg.vm /\ reg'.cpl = reg.cpl
      /\ reg'.sel["cs"] = reg.sel["cs"]
  <2>1. Ids(q) = Ids(reg) /\ q.vm = reg.vm /\ q.cpl = reg.cpl /\ q.sel["cs"] = reg.sel["cs"]
    BY <1>2 DEF Loaded, Others, Ids, SegRegs
  <2> QED
    BY <1>3, <2>1 DEF MovedIP, Moved
<1>5. \A o \in SegRegs : Agrees(q, o) => Agrees(reg', o)
  BY <1>3 DEF MovedIP, Moved, Agrees, DescOf, Ids
<1>6. \A o \in SegRegs : Agrees(reg, o) \/ o = seg => Agrees(reg', o)
  BY <1>2, <1>5 DEF Loaded
<1>7. /\ reg'.tlb = reg.tlb /\ reg'.cr3 = reg.cr3 /\ reg'.tr = reg.tr /\ reg'.dtr = reg.dtr
      /\ reg'.ldtr = reg.ldtr /\ reg'.dldt = reg.dldt
  BY <1>4 DEF Ids
<1>8. AgreeBut(reg', Spared')
  <2> SUFFICES ASSUME NEW o \in SegRegs \ Spared' PROVE Agrees(reg', o)
    BY DEF AgreeBut
  <2>1. CASE o \notin Spared
    BY <1>6, <2>1 DEF CachesInv, RegInv, AgreeBut
  <2>2. CASE o \in Spared
    BY <1>1, <1>6, <1>7, <2>2 DEF Spared
  <2> QED
    BY <2>1, <2>2
<1>9. RegInv(reg', Spared')
  BY <1>4, <1>7, <1>8 DEF CachesInv, RegInv
<1> QED
  BY <1>1, <1>4, <1>9, CachesKept DEF CachesInv

\* From the state itself, an interrupt.
LEMMA InterruptKeeps ==
  ASSUME CachesInv, Booted, NEW gate, NEW codes, NEW m, IsMac(m), m.reg = reg, m.tss = tss,
         Set(EnterINT(m, gate, codes)), again' = again
  PROVE  CachesInv'
<1>1. Ids(reg') = Ids(reg) /\ Spared' = Spared
  <2> DEFINE S == Spared
  <2>1. RegInv(reg, S)
    BY DEF CachesInv
  <2> HIDE DEF S
  <2>2. Ids(EnterINT(m, gate, codes).reg) = Ids(m.reg)
    BY <2>1, Level0, HandlerInv DEF RegInv
  <2>3. Ids(reg') = Ids(reg)
    BY <2>2 DEF Set
  <2>4. reg'.tr = reg.tr
    BY <2>3 DEF Ids
  <2> QED
    BY <2>3, <2>4 DEF Spared
<1>2. AgreeBut(m.reg, Spared')
  BY <1>1 DEF CachesInv, RegInv
<1> QED
  BY <1>2, EnteringKeeps DEF CachesInv

\* The load that fails: ES is to be loaded again, and the handler's caches agree.
LEMMA LoadAbsentKeeps == ASSUME CachesInv, LoadAbsent PROVE CachesInv'
<1> DEFINE r == updateSegRegNP(reg, "es", "UXS")
           m == [State EXCEPT !.reg = r]
           codes == << <<"code", 0>> >>
<1>1. Booted /\ IsRegs(reg) /\ again' = again \cup {reg.tr}
  BY DEF LoadAbsent, User, CachesInv, RegInv
<1>2. Set(EnterINT(m, "int", codes))
  BY DEF LoadAbsent, Faults, State
<1>3. /\ IsRegs(r) /\ r.cpl = reg.cpl /\ r.vm = reg.vm /\ Ids(r) = Ids(reg) /\ r.desc = reg.desc
      /\ \A o \in SegRegs \ {"es"} : r.sel[o] = reg.sel[o]
  BY <1>1 DEF updateSegRegNP, IsRegs, RegNames, Ids
<1> HIDE DEF r
<1>4. IsMac(m) /\ m.reg = r /\ m.tss = tss
  BY <1>3, StateIsMac DEF IsMac, State
<1> HIDE DEF m, codes
<1>5. reg'.tr = reg.tr
  <2> DEFINE S == {"es"}
             gate == "int"
  <2>1. AgreeBut(r, S)
    BY <1>3 DEF CachesInv, RegInv, AgreeBut, Spared, Agrees, DescOf, Ids
  <2> HIDE DEF S, gate
  <2>2. /\ r.cpl = 0 => ~r.vm
        /\ r.dtr = r.tr /\ r.dldt = r.ldtr /\ r.tlb \subseteq {r.cr3}
        /\ r.tr # None => r.cr3 = r.tr
        /\ r.tr = None => r.cr3 = Boot
    BY <1>3 DEF CachesInv, RegInv, Ids
  <2>3. Ids(EnterINT(m, gate, codes).reg) = Ids(m.reg)
    BY <1>4, <2>1, <2>2, HandlerInv
  <2>4. Ids(reg') = Ids(reg)
    BY <1>2, <1>3, <1>4, <2>3 DEF Set, gate
  <2> QED
    BY <2>4 DEF Ids
<1>6. AgreeBut(r, Spared')
  BY <1>1, <1>3, <1>5 DEF CachesInv, RegInv, AgreeBut, Spared, Agrees, DescOf, Ids
<1> QED
  BY <1>1, <1>2, <1>3, <1>4, <1>6, EnteringKeeps

\* Taking the error code off.
LEMMA DropCodeKeeps == ASSUME CachesInv, DropCode PROVE CachesInv'
<1> DEFINE p == Pop(State, 1)
           n == [p EXCEPT !.reg.ip = Next1(@)]
<1>1. Booted /\ IsMac(State) /\ State.reg = reg /\ State.tss = tss
  BY StateIsMac DEF DropCode, Kernel
<1>2. Set(n) /\ again' = again
  BY DEF DropCode, guest
<1>3. Popped(State, 1, p)
  BY <1>1, PopFields
<1> HIDE DEF p
<1>4. IsMac(p) /\ p.tss = tss /\ SameCaches(reg, p.reg)
  BY <1>1, <1>3 DEF Popped, MovedSP, Moved, SameCaches, Remaining
<1>5. MovedIP(p.reg, Next1(p.reg.ip), n.reg) /\ n.stack = p.stack /\ n.tss = p.tss
  <2> DEFINE r == p.reg
             q == [p.reg EXCEPT !.ip = Next1(@)]
             x == Next1(p.reg.ip)
  <2>1. IsRegs(r) /\ q = [r EXCEPT !.ip = x]
    BY <1>4 DEF IsMac
  <2>2. n.reg = q /\ n.stack = p.stack /\ n.tss = p.tss
    BY <1>4 DEF IsMac
  <2> HIDE DEF q, x, r
  <2>3. MovedIP(r, x, q)
    BY <2>1, IPFields
  <2> QED
    BY <2>2, <2>3 DEF r, x
<1> HIDE DEF n
<1>6. SameCaches(reg, reg')
  BY <1>2, <1>4, <1>5 DEF Set, MovedIP, Moved, SameCaches
<1> QED
  BY <1>1, <1>2, <1>4, <1>5, <1>6, QuietKeeps DEF Set, IsMac

\* IRET, at each level.
LEMMA IretKeeps == ASSUME CachesInv, Iret PROVE CachesInv'
<1> DEFINE S == Spared
           n == exIRET(State)
<1>1. Booted /\ reg.cpl = 0 /\ Set(n) /\ again' = again
  BY DEF Iret, Kernel, guest
<1>2. IsMac(State) /\ State.reg = reg /\ State.tss = tss /\ RegInv(reg, S)
  BY StateIsMac DEF CachesInv
<1> HIDE DEF S
<1>3. RegInv(n.reg, S) /\ Ids(n.reg) = Ids(reg) /\ IsMac(n) /\ Remaining(n) = Remaining(State)
  BY <1>1, <1>2, ReturnInv
<1> HIDE DEF n
<1>4. reg' = n.reg /\ stack' = n.stack /\ tss' = tss
  BY <1>1, <1>2, <1>3 DEF Set, Remaining
<1>5. Spared' = S
  BY <1>1, <1>3, <1>4 DEF Spared, S, Ids
<1> QED
  BY <1>1, <1>3, <1>4, <1>5, CachesKept DEF IsMac

\* The JMP that stops the emulator has loaded CS.
LEMMA JmpBusyKeeps == ASSUME CachesInv, NEW t, JmpBusy(t) PROVE CachesInv'
<1> DEFINE r == [reg EXCEPT !.ip = 0]
           S == Spared
<1>1. /\ Booted /\ reg.cpl = 0 /\ IsRegs(reg) /\ reg' = updateSegReg(r, "cs", t)
      /\ stack' = stack /\ tss' = tss /\ again' = again /\ RegInv(reg, S)
  BY DEF JmpBusy, MaySwitchTo, Kernel, memory, CachesInv, RegInv
<1>2. ~reg.vm
  BY <1>1, Level0
<1>3. MovedIP(reg, 0, r)
  BY <1>1, IPFields
<1> HIDE DEF r
<1>4. Loaded(r, "cs", t, reg')
  BY <1>1, <1>3, Loads DEF SegRegs, MovedIP, Moved
<1>5. Ids(r) = Ids(reg) /\ Ids(reg') = Ids(reg) /\ reg'.vm = reg.vm
  BY <1>3, <1>4 DEF MovedIP, Moved, Loaded, Others, Ids
<1>6. /\ reg'.tlb = reg.tlb /\ reg'.cr3 = reg.cr3 /\ reg'.tr = reg.tr /\ reg'.dtr = reg.dtr
      /\ reg'.ldtr = reg.ldtr /\ reg'.dldt = reg.dldt
  BY <1>5 DEF Ids
<1>7. Spared' = S
  BY <1>1, <1>6 DEF Spared, S
<1> HIDE DEF S
<1>8. AgreeBut(r, S)
  BY <1>1, <1>3 DEF RegInv, AgreeBut, MovedIP, Moved, Agrees, DescOf, Ids
<1>9. RegInv(reg', S)
  BY <1>1, <1>2, <1>3, <1>4, <1>5, <1>6, <1>8 DEF RegInv, AgreeBut, Loaded, MovedIP, Moved
<1> QED
  BY <1>1, <1>5, <1>7, <1>9, CachesKept DEF CachesInv

\* Every step keeps the caches consistent.  That a task which returns does not
\* return to itself is known from the marks.
LEMMA CachesStep == MarksInv /\ CachesInv /\ [Next]_vars => CachesInv'
<1> SUFFICES ASSUME MarksInv, CachesInv, [Next]_vars PROVE CachesInv'
  OBVIOUS
<1>0. IsMac(State) /\ State.reg = reg /\ State.tss = tss
  BY StateIsMac
<1>1. CASE Ltr
  BY <1>1, LtrKeeps
<1>2. CASE Lldt
  BY <1>2, LldtKeeps
<1>3. CASE Compute \/ Clts \/ SetPresence
  BY <1>3, ComputeKeeps
<1>4. CASE LoadAbsent
  BY <1>4, LoadAbsentKeeps
<1>5. ASSUME NEW seg \in {"ds", "es"}, NEW s \in Selectors, LoadSegment(seg, s) PROVE CachesInv'
  BY <1>5, LoadSegmentKeeps
<1>6. ASSUME NEW gate \in {"int", "trap"}, Interrupt(gate) PROVE CachesInv'
  <2>1. Booted /\ Set(EnterINT(State, gate, << >>)) /\ again' = again
    BY <1>6 DEF Interrupt, Kernel, User, guest
  <2> QED
    BY <1>0, <2>1, InterruptKeeps
<1>7. CASE DropCode
  BY <1>7, DropCodeKeeps
<1>8. CASE Iret
  BY <1>8, IretKeeps
<1>9. CASE IretNTFaults
  <2> DEFINE gate == "int"
             codes == << <<"code", 0>> >>
  <2>1. Booted /\ Set(EnterINT(State, gate, codes)) /\ again' = again
    BY <1>9 DEF IretNTFaults, Kernel, guest, Faults
  <2> HIDE DEF gate, codes
  <2> QED
    BY <1>0, <2>1, InterruptKeeps
<1>10. CASE RepairLink
  <2>1. UNCHANGED <<reg, stack, tss, again>>
    BY <1>10 DEF RepairLink, guest
  <2> QED
    BY <2>1 DEF CachesInv, Spared, Booted
<1>11. ASSUME NEW t \in Tasks, JmpRefused(t) PROVE CachesInv'
  <2> DEFINE m == IF t \in busy THEN State ELSE loadTaskRegister(State, t, TRUE, None)
             gate == "int"
             codes == << <<"code", 0>> >>
  <2>1. Booted /\ Set(EnterINT(m, gate, codes)) /\ again' = again
    BY <1>11 DEF JmpRefused, User, Faults
  <2>2. IsMac(m) /\ m.reg = reg /\ m.tss = tss
    BY <1>0 DEF loadTaskRegister, IsMac
  <2> HIDE DEF m, gate, codes
  <2> QED
    BY <2>1, <2>2, InterruptKeeps
<1>12. ASSUME NEW t \in Tasks, Jmp(t) \/ Call(t) \/ IretNT(t) PROVE CachesInv'
  <2> DEFINE kept == SavedTask(reg, Next1(reg.ip), reg.nt /\ ~FALSE)
             cleared == SavedTask(reg, Next1(reg.ip), reg.nt /\ ~TRUE)
  <2>1. /\ Kernel /\ t # reg.tr /\ again' = again
        /\ \/ Set(SwitchByJMP(State, t)) \/ Set(SwitchByCALL(State, t)) \/ Set(SwitchByIRET(State, t))
    <3>1. CASE Jmp(t)
      BY <3>1 DEF Jmp, MaySwitchTo, guest
    <3>2. CASE Call(t)
      BY <3>2 DEF Call, MaySwitchTo
    <3>3. CASE IretNT(t)
      BY <3>3 DEF IretNT, Kernel, Booted, MarksInv
    <3> QED
      BY <1>12, <3>1, <3>2, <3>3
  <2>2. t # reg.dtr
    BY <2>1 DEF CachesInv, RegInv
  <2>3. kept.flags.vm = reg.vm /\ cleared.flags.vm = reg.vm
    BY DEF SavedTask
  <2>4. /\ SwitchedTo(State, t, kept, FALSE, SwitchByJMP(State, t))
        /\ SwitchedTo(State, t, kept, TRUE, SwitchByCALL(State, t))
        /\ SwitchedTo(State, t, cleared, State.tss[t].flags.nt, SwitchByIRET(State, t))
    BY <1>0, <2>2, SwitchFields
  <2> HIDE DEF kept, cleared
  <2> QED
    BY <2>1, <2>3, <2>4, SwitchingKeeps
<1>13. ASSUME NEW t \in Tasks, JmpBusy(t) PROVE CachesInv'
  BY <1>13, JmpBusyKeeps
<1>14. ASSUME NEW t \in Tasks, CallBusy(t) PROVE CachesInv'
  <2>1. UNCHANGED <<reg, stack, tss, again>>
    BY <1>14 DEF CallBusy, memory
  <2> QED
    BY <2>1 DEF CachesInv, Spared, Booted
<1>15. CASE UNCHANGED vars
  <2>1. UNCHANGED <<reg, stack, tss, again>>
    BY <1>15 DEF vars
  <2> QED
    BY <2>1 DEF CachesInv, Spared, Booted
<1> QED
  BY <1>1, <1>2, <1>3, <1>4, <1>5, <1>6, <1>7, <1>8, <1>9, <1>10, <1>11, <1>12, <1>13, <1>14, <1>15
     DEF Next

\* For every set of tasks and every guest, what the processor has cached belongs
\* to the registers that the guest sees, but for an ES whose load has failed and
\* is to be repeated (decode.c:489-495, descriptor.c:358-387).
THEOREM CachesAgreeHolds == Spec => []CachesAgree
<1>1. Init => MarksInv /\ CachesInv
  BY CachesInit, MarksInit
<1>2. MarksInv /\ CachesInv /\ [Next]_vars => (MarksInv /\ CachesInv)'
  BY CachesStep, MarksStep
<1>3. CachesInv => CachesAgree
  BY CachesFollow
<1> QED
  BY <1>1, <1>2, <1>3, PTL DEF Spec

-----------------------------------------------------------------------------
(***************************************************************************)
(* The contexts on a kernel stack.  Frames is a recursive function of the  *)
(* depth; what is needed of it is proved by induction, stated for sets.    *)
(***************************************************************************)
\* Induction over the natural numbers, for a set.
LEMMA SetInduction ==
  ASSUME NEW T, 0 \in T, \A n \in Nat : n \in T => n + 1 \in T
  PROVE  Nat \subseteq T
<1> DEFINE R == OpToRel(<, Nat)
           M == Nat \ T
<1>1. ASSUME M # {} PROVE FALSE
  <2>1. IsWellFoundedOn(R, Nat) /\ M \subseteq Nat
    BY NatLessThanWellFounded
  <2>2. \A x, y \in Nat : x < y => <<x, y>> \in R
    BY DEF OpToRel
  <2> HIDE DEF R, M
  <2>3. PICK x \in M : \A y \in M : ~(<<y, x>> \in R)
    BY <1>1, <2>1, WFMin
  <2>4. x \in Nat /\ x # 0 /\ x \notin T
    BY <2>3 DEF M
  <2>5. x - 1 \in Nat /\ x - 1 < x /\ x = (x - 1) + 1
    BY <2>4
  <2>6. x - 1 \notin M
    BY <2>2, <2>3, <2>4, <2>5
  <2>7. x - 1 \in T
    BY <2>5, <2>6 DEF M
  <2> QED BY <2>4, <2>5, <2>7
<1> QED
  BY <1>1

\* The frames found so far, for each depth up to n.
Found(st, n, f) ==
    f = [d \in 0 .. n |-> IF d = 0 THEN << >>
                          ELSE IF st[d][1] = "eip" THEN Append(f[d - 1], Frame(st, d))
                          ELSE f[d - 1]]

\* There is such a function, however deep the stack.
LEMMA FoundExists == ASSUME NEW st, NEW n \in Nat PROVE \E f : Found(st, n, f)
<1> DEFINE T == {k \in Nat : \E f : Found(st, k, f)}
<1>1. 0 \in T
  <2>1. Found(st, 0, [d \in 0 .. 0 |-> << >>])
    BY DEF Found
  <2> QED
    BY <2>1
<1>2. ASSUME NEW k \in Nat, k \in T PROVE k + 1 \in T
  <2>1. PICK f : Found(st, k, f)
    BY <1>2
  <2> DEFINE next == IF st[k + 1][1] = "eip" THEN Append(f[k], Frame(st, k + 1)) ELSE f[k]
             g == [d \in 0 .. k + 1 |-> IF d = k + 1 THEN next ELSE f[d]]
  <2> HIDE DEF next
  <2>2. \A d \in 0 .. k : g[d] = f[d]
    OBVIOUS
  <2>3. g[k + 1] = next
    OBVIOUS
  <2>4. ASSUME NEW d \in 0 .. k + 1
        PROVE  g[d] = IF d = 0 THEN << >>
                      ELSE IF st[d][1] = "eip" THEN Append(g[d - 1], Frame(st, d))
                      ELSE g[d - 1]
    <3>1. CASE d = k + 1
      BY <2>2, <2>3, <3>1 DEF next
    <3>2. CASE d \in 0 .. k
      <4>1. g[d] = f[d]
        BY <2>2, <3>2
      <4>2. d # 0 => d - 1 \in 0 .. k
        BY <3>2
      <4>3. d # 0 => g[d - 1] = f[d - 1]
        BY <2>2, <4>2
      <4>4. f[d] = IF d = 0 THEN << >>
                   ELSE IF st[d][1] = "eip" THEN Append(f[d - 1], Frame(st, d))
                   ELSE f[d - 1]
        BY <2>1, <3>2 DEF Found
      <4> HIDE DEF g
      <4> QED
        BY <4>1, <4>3, <4>4
    <3> QED
      BY <3>1, <3>2
  <2>5. Found(st, k + 1, g)
    BY <2>4 DEF Found
  <2> QED
    BY <2>5
<1> HIDE DEF T
<1>3. n \in T
  BY <1>1, <1>2, SetInduction
<1> QED
  BY <1>3 DEF T

\* The contexts of a stack are what has been found at its depth.
LEMMA FramesFound ==
  ASSUME NEW st, NEW n \in Nat
  PROVE  \E f : Found(st, n, f) /\ Frames(st, n) = f[n]
<1> DEFINE f == CHOOSE g : Found(st, n, g)
<1>1. Found(st, n, f)
  BY FoundExists
<1>2. Frames(st, n) = f[n]
  BY DEF Frames, Found
<1> QED
  BY <1>1, <1>2

Alike(st, st2, n) ==
    \A d \in 1 .. n : /\ st[d][1] = "eip" <=> st2[d][1] = "eip"
                      /\ st[d][1] = "eip" => Frame(st, d) = Frame(st2, d)

\* Two stacks with the same words and frames up to n have the same contexts there.
LEMMA FramesAgree ==
  ASSUME NEW st, NEW st2, NEW n \in Nat,
         Alike(st, st2, n),
         NEW i \in Nat, i <= n, NEW f, Found(st, n, f), NEW j \in Nat, i <= j, NEW g, Found(st2, j, g)
  PROVE  f[i] = g[i]
<1> DEFINE T == {k \in Nat : k <= i => f[k] = g[k]}
<1>1. 0 \in T
  <2>1. f[0] = << >> /\ g[0] = << >>
    BY DEF Found
  <2> QED
    BY <2>1
<1>2. ASSUME NEW k \in Nat, k \in T PROVE k + 1 \in T
  <2> SUFFICES ASSUME k + 1 <= i PROVE f[k + 1] = g[k + 1]
    OBVIOUS
  <2>0. /\ k + 1 \in 0 .. n /\ k + 1 \in 0 .. j /\ k + 1 \in 1 .. n /\ k + 1 # 0 /\ (k + 1) - 1 = k
        /\ f[k] = g[k]
    BY <1>2
  <2>1. f[k + 1] = IF st[k + 1][1] = "eip" THEN Append(f[k], Frame(st, k + 1)) ELSE f[k]
    BY <2>0 DEF Found
  <2>2. g[k + 1] = IF st2[k + 1][1] = "eip" THEN Append(g[k], Frame(st2, k + 1)) ELSE g[k]
    BY <2>0 DEF Found
  <2>3. /\ st[k + 1][1] = "eip" <=> st2[k + 1][1] = "eip"
        /\ st[k + 1][1] = "eip" => Frame(st, k + 1) = Frame(st2, k + 1)
    BY <2>0 DEF Alike
  <2> QED
    BY <2>0, <2>1, <2>2, <2>3
<1> HIDE DEF T
<1>3. i \in T
  BY <1>1, <1>2, SetInduction
<1> QED
  BY <1>3 DEF T

\* The contexts of a stack are those below its last word, and that word's frame.
LEMMA FramesStep ==
  ASSUME NEW st, NEW n \in Nat
  PROVE  /\ Frames(st, 0) = << >>
         /\ Frames(st, n + 1) = IF st[n + 1][1] = "eip" THEN Append(Frames(st, n), Frame(st, n + 1))
                                ELSE Frames(st, n)
<1>1. Frames(st, 0) = << >>
  <2>1. PICK f : Found(st, 0, f) /\ Frames(st, 0) = f[0]
    BY FramesFound
  <2> QED
    BY <2>1 DEF Found
<1>2. PICK f : Found(st, n, f) /\ Frames(st, n) = f[n]
  BY FramesFound
<1>3. n + 1 \in Nat /\ n <= n /\ n <= n + 1
  OBVIOUS
<1>4. PICK g : Found(st, n + 1, g) /\ Frames(st, n + 1) = g[n + 1]
  BY <1>3, FramesFound
<1>5. f[n] = g[n]
  <2> DEFINE j == n + 1
  <2>1. j \in Nat /\ n <= j /\ Found(st, j, g) /\ Alike(st, st, n)
    BY <1>3, <1>4 DEF Alike
  <2> HIDE DEF j
  <2>2. f[n] = g[n]
    BY <1>2, <1>3, <2>1, FramesAgree
  <2> QED
    BY <2>2
<1>6. g[n + 1] = IF st[n + 1][1] = "eip" THEN Append(g[n], Frame(st, n + 1)) ELSE g[n]
  <2>1. n + 1 \in 0 .. n + 1 /\ n + 1 # 0 /\ (n + 1) - 1 = n
    BY <1>3
  <2> QED
    BY <1>4, <2>1 DEF Found
<1> QED
  BY <1>1, <1>2, <1>4, <1>5, <1>6

\* The same up to n: the same contexts.
LEMMA FramesSame ==
  ASSUME NEW st, NEW st2, NEW n \in Nat,
         Alike(st, st2, n)
  PROVE  Frames(st, n) = Frames(st2, n)
<1>1. PICK f : Found(st, n, f) /\ Frames(st, n) = f[n]
  BY FramesFound
<1>2. PICK g : Found(st2, n, g) /\ Frames(st2, n) = g[n]
  BY FramesFound
<1>3. n <= n
  OBVIOUS
<1>4. f[n] = g[n]
  BY <1>1, <1>2, <1>3, FramesAgree
<1> QED
  BY <1>1, <1>2, <1>4

\* Words that end no frame add no context.
LEMMA FramesQuiet ==
  ASSUME NEW st, NEW n \in Nat, NEW m \in Nat, n <= m, \A d \in n + 1 .. m : st[d][1] # "eip"
  PROVE  Frames(st, m) = Frames(st, n)
<1> DEFINE T == {k \in Nat : n + k <= m => Frames(st, n + k) = Frames(st, n)}
<1>1. 0 \in T
  OBVIOUS
<1>2. ASSUME NEW k \in Nat, k \in T PROVE k + 1 \in T
  <2> SUFFICES ASSUME n + (k + 1) <= m PROVE Frames(st, n + (k + 1)) = Frames(st, n)
    OBVIOUS
  <2> DEFINE j == n + k
  <2>1. j \in Nat /\ n + (k + 1) = j + 1 /\ j + 1 \in n + 1 .. m /\ Frames(st, j) = Frames(st, n)
    BY <1>2
  <2>2. st[j + 1][1] # "eip"
    BY <2>1
  <2> HIDE DEF j
  <2>3. Frames(st, j + 1) = Frames(st, j)
    BY <2>1, <2>2, FramesStep
  <2> QED
    BY <2>1, <2>3
<1> HIDE DEF T
<1>3. m - n \in T
  BY <1>1, <1>2, SetInduction
<1> QED
  BY <1>3 DEF T

\* The contexts of a stack are a sequence.
IsSeq(s) == \E S : s \in Seq(S)

\* The contexts of a stack are a sequence.
LEMMA FramesSeq == ASSUME NEW st, NEW n \in Nat PROVE IsSeq(Frames(st, n))
<1> DEFINE S == {Frame(st, d) : d \in Nat}
           T == {k \in Nat : Frames(st, k) \in Seq(S)}
<1>1. 0 \in T
  <2>1. Frames(st, 0) = << >>
    BY FramesStep
  <2> HIDE DEF S
  <2>0. << >> \in Seq(S)
    OBVIOUS
  <2>2. Frames(st, 0) \in Seq(S)
    BY <2>0, <2>1, Zenon
  <2> QED
    BY <2>2
<1>2. ASSUME NEW k \in Nat, k \in T PROVE k + 1 \in T
  <2> DEFINE c == Frame(st, k + 1)
  <2>1. c \in S
    OBVIOUS
  <2>2. Frames(st, k + 1) = IF st[k + 1][1] = "eip" THEN Append(Frames(st, k), c) ELSE Frames(st, k)
    BY FramesStep
  <2>3. Frames(st, k) \in Seq(S)
    BY <1>2
  <2> DEFINE a == Frames(st, k)
             b == Frames(st, k + 1)
             eip == st[k + 1][1] = "eip"
  <2>4. a \in Seq(S) /\ b = IF eip THEN Append(a, c) ELSE a
    BY <2>2, <2>3
  <2> HIDE DEF S, c, a, b, eip
  <2>5. b \in Seq(S)
    BY <2>1, <2>4
  <2> QED
    BY <2>5 DEF b
<1> HIDE DEF T
<1>3. n \in T
  BY <1>1, <1>2, SetInduction
<1> QED
  BY <1>3 DEF T, IsSeq

\* What Append adds is last; the rest is in front.
LEMMA Appended ==
  ASSUME NEW s, IsSeq(s), NEW x
  PROVE  /\ IsSeq(Append(s, x)) /\ Len(Append(s, x)) = Len(s) + 1 /\ Len(s) \in Nat
         /\ Last(Append(s, x)) = x /\ Front(Append(s, x)) = s
<1>1. PICK S : s \in Seq(S)
  BY DEF IsSeq
<1> DEFINE U == S \cup {x}
           q == Append(s, x)
<1>2. s \in Seq(U) /\ x \in U
  BY <1>1
<1> HIDE DEF U
<1>3. q \in Seq(U) /\ Len(q) = Len(s) + 1 /\ Len(s) \in Nat /\ q[Len(q)] = x
      /\ \A i \in 1 .. Len(s) : q[i] = s[i]
  BY <1>2
<1>4. Last(q) = x
  BY <1>3 DEF Last
<1>5. Front(q) = s
  <2>1. Front(q) = SubSeq(q, 1, Len(s))
    BY <1>3 DEF Front
  <2>2. SubSeq(q, 1, Len(s)) = s
    <3>1. SubSeq(q, 1, Len(s)) = [i \in 1 .. Len(s) |-> q[i]]
      BY <1>3
    <3>2. s = [i \in 1 .. Len(s) |-> s[i]]
      BY <1>2
    <3> QED
      BY <1>3, <3>1, <3>2
  <2> QED
    BY <2>1, <2>2
<1> QED
  BY <1>3, <1>4, <1>5 DEF IsSeq

\* A push and a cut.
Joined(a, b, c) ==
    /\ IsSeq(c) /\ Len(c) = Len(a) + Len(b) /\ Len(a) \in Nat /\ Len(b) \in Nat
    /\ \A i \in 1 .. Len(a) : c[i] = a[i]
    /\ \A i \in 1 .. Len(b) : c[Len(a) + i] = b[i]

\* What is pushed lies behind what was there.
LEMMA Concat ==
  ASSUME NEW a, IsSeq(a), NEW b, IsSeq(b)
  PROVE  Joined(a, b, a \o b)
<1> DEFINE c == a \o b
<1>1. PICK S : a \in Seq(S)
  BY DEF IsSeq
<1>2. PICK T : b \in Seq(T)
  BY DEF IsSeq
<1> DEFINE U == S \cup T
<1>3. a \in Seq(U) /\ b \in Seq(U)
  BY <1>1, <1>2
<1> HIDE DEF U
<1>4. c \in Seq(U) /\ Len(c) = Len(a) + Len(b) /\ Len(a) \in Nat /\ Len(b) \in Nat
  BY <1>3
<1>5. \A i \in 1 .. Len(a) : c[i] = a[i]
  BY <1>3, <1>4
<1>6. \A i \in 1 .. Len(b) : c[Len(a) + i] = b[i]
  BY <1>3, <1>4
<1> QED
  BY <1>4, <1>5, <1>6 DEF IsSeq, Joined

\* What is left of a stack whose top is taken off.
LEMMA Cut ==
  ASSUME NEW s, IsSeq(s), NEW k \in Nat, k <= Len(s), NEW c, c = SubSeq(s, 1, k)
  PROVE  IsSeq(c) /\ Len(c) = k /\ \A i \in 1 .. k : c[i] = s[i]
<1>1. PICK S : s \in Seq(S)
  BY DEF IsSeq
<1>2. c \in Seq(S) /\ Len(c) = k /\ \A i \in 1 .. k : c[i] = s[i]
  BY <1>1
<1> QED
  BY <1>2 DEF IsSeq

\* A frame's words lie where an interrupt puts them: that of virtual 8086 mode
\* and that of user mode are at the bottom.
Placed(st, d) ==
    /\ st[d][1] = "code" => d > 1
    /\ st[d][1] = "eip" =>
          /\ d > 3 /\ st[d - 1][1] # "eip" /\ st[d - 2][1] # "eip"
          /\ st[d - 2][2].vm => d = 7 /\ \A i \in 1 .. 6 : st[i][1] # "eip"
          /\ ~st[d - 2][2].vm /\ RPL(st[d - 1][2]) = 3
                => d = 5 /\ \A i \in 1 .. 4 : st[i][1] # "eip"
Framed(st) == \A d \in 1 .. Len(st) : Placed(st, d)
IsStack(st) == IsSeq(st) /\ Framed(st)

KernelFrame(ip, f) ==
    [level |-> "kernel", ip |-> ip, if |-> f.if, nt |-> f.nt, sp |-> 0, ds |-> InHandler, es |-> InHandler]
UserFrameOf(ip, f, sp) ==
    [level |-> "user", ip |-> ip, if |-> f.if, nt |-> f.nt, sp |-> sp, ds |-> InHandler, es |-> InHandler]
VmFrameOf(ip, f, sp, ds, es) ==
    [level |-> "vm", ip |-> ip, if |-> f.if, nt |-> f.nt, sp |-> sp,
     ds |-> RealDesc(ds).of, es |-> RealDesc(es).of]

\* What a frame says, by the level it returns to.
LEMMA FrameIs ==
  ASSUME NEW st, NEW d
  PROVE  /\ st[d - 2][2].vm
              => Frame(st, d) = VmFrameOf(st[d][2], st[d - 2][2], st[d - 3][2][2],
                                          st[d - 6][2], st[d - 5][2])
         /\ ~st[d - 2][2].vm /\ RPL(st[d - 1][2]) = 3
              => Frame(st, d) = UserFrameOf(st[d][2], st[d - 2][2], st[d - 3][2][2])
         /\ ~st[d - 2][2].vm /\ RPL(st[d - 1][2]) # 3
              => Frame(st, d) = KernelFrame(st[d][2], st[d - 2][2])
<1> DEFINE f == st[d - 2][2]
           cs == st[d - 1][2]
           ip == st[d][2]
           sp == st[d - 3][2][2]
           ds == RealDesc(st[d - 6][2]).of
           es == RealDesc(st[d - 5][2]).of
           level == CASE f.vm -> "vm" [] ~f.vm /\ RPL(cs) = 3 -> "user" [] OTHER -> "kernel"
<1>1. Frame(st, d) =
        [level |-> level, ip |-> ip, if |-> f.if, nt |-> f.nt,
         sp |-> IF level = "kernel" THEN 0 ELSE sp,
         ds |-> IF level = "vm" THEN ds ELSE InHandler,
         es |-> IF level = "vm" THEN es ELSE InHandler]
  BY DEF Frame
<1>2. f.vm => level = "vm"
  OBVIOUS
<1>3. ~f.vm /\ RPL(cs) = 3 => level = "user"
  OBVIOUS
<1>4. ~f.vm /\ RPL(cs) # 3 => level = "kernel"
  OBVIOUS
<1> HIDE DEF level
<1>5. f.vm => Frame(st, d) = VmFrameOf(ip, f, sp, st[d - 6][2], st[d - 5][2])
  BY <1>1, <1>2 DEF VmFrameOf
<1>6. ~f.vm /\ RPL(cs) = 3 => Frame(st, d) = UserFrameOf(ip, f, sp)
  BY <1>1, <1>3 DEF UserFrameOf
<1>7. ~f.vm /\ RPL(cs) # 3 => Frame(st, d) = KernelFrame(ip, f)
  BY <1>1, <1>4 DEF KernelFrame
<1> QED
  BY <1>5, <1>6, <1>7

PlacedTo(st, n) == \A d \in 1 .. n : Placed(st, d)
SameTo(st, st2, n) == \A d \in 1 .. n : st2[d] = st[d]

\* What lies below n determines the contexts there.
LEMMA WhatLiesBelow ==
  ASSUME NEW st, NEW st2, NEW n \in Nat, PlacedTo(st, n), SameTo(st, st2, n)
  PROVE  Frames(st2, n) = Frames(st, n) /\ PlacedTo(st2, n)
<1>0. \A d \in 1 .. n : Placed(st, d) /\ st2[d] = st[d]
  BY DEF PlacedTo, SameTo
<1>1. ASSUME NEW d \in 1 .. n, st[d][1] = "eip" PROVE Frame(st, d) = Frame(st2, d) /\ Placed(st2, d)
  <2> DEFINE f == st[d - 2][2]
             cs == st[d - 1][2]
  <2>1. /\ d > 3 /\ st[d - 1][1] # "eip" /\ st[d - 2][1] # "eip"
        /\ f.vm => d = 7 /\ \A i \in 1 .. 6 : st[i][1] # "eip"
        /\ ~f.vm /\ RPL(cs) = 3 => d = 5 /\ \A i \in 1 .. 4 : st[i][1] # "eip"
    BY <1>0, <1>1 DEF Placed
  <2>2. st2[d] = st[d] /\ st2[d - 1] = st[d - 1] /\ st2[d - 2] = st[d - 2] /\ st2[d - 3] = st[d - 3]
    BY <1>0, <2>1
  <2>3. CASE f.vm
    <3>1. d = 7 /\ st2[d - 6] = st[d - 6] /\ st2[d - 5] = st[d - 5] /\ \A i \in 1 .. 6 : st2[i] = st[i]
      BY <1>0, <2>1, <2>3
    <3>2. Frame(st, d) = Frame(st2, d)
      BY <2>2, <2>3, <3>1, FrameIs
    <3> QED
      BY <2>1, <2>2, <2>3, <3>1, <3>2 DEF Placed
  <2>4. CASE ~f.vm /\ RPL(cs) = 3
    <3>1. d = 5 /\ \A i \in 1 .. 4 : st2[i] = st[i]
      BY <1>0, <2>1, <2>4
    <3>2. Frame(st, d) = Frame(st2, d)
      BY <2>2, <2>4, FrameIs
    <3> QED
      BY <2>1, <2>2, <2>4, <3>1, <3>2 DEF Placed
  <2>5. CASE ~f.vm /\ RPL(cs) # 3
    <3>2. Frame(st, d) = Frame(st2, d)
      BY <2>2, <2>5, FrameIs
    <3> QED
      BY <2>1, <2>2, <2>5, <3>2 DEF Placed
  <2> QED
    BY <2>3, <2>4, <2>5
<1>2. Alike(st, st2, n)
  BY <1>0, <1>1 DEF Alike
<1>3. Frames(st, n) = Frames(st2, n)
  BY <1>2, FramesSame
<1>4. ASSUME NEW d \in 1 .. n PROVE Placed(st2, d)
  <2>1. CASE st[d][1] = "eip"
    BY <1>1, <2>1
  <2>2. CASE st[d][1] # "eip"
    BY <1>0, <2>2 DEF Placed
  <2> QED
    BY <2>1, <2>2
<1> QED
  BY <1>3, <1>4 DEF PlacedTo

\* A stack that words have been taken off.
LEMMA Shortened ==
  ASSUME NEW st, IsStack(st), NEW k \in Nat, k <= Len(st), NEW c, c = SubSeq(st, 1, k)
  PROVE  IsStack(c) /\ Len(c) = k /\ Frames(c, k) = Frames(st, k)
<1>1. IsSeq(c) /\ Len(c) = k /\ \A i \in 1 .. k : c[i] = st[i]
  BY Cut DEF IsStack
<1>2. Len(st) \in Nat
  BY DEF IsStack, IsSeq
<1>3. PlacedTo(st, k) /\ SameTo(st, c, k)
  BY <1>1, <1>2 DEF IsStack, Framed, PlacedTo, SameTo
<1>4. Frames(c, k) = Frames(st, k) /\ PlacedTo(c, k)
  BY <1>3, WhatLiesBelow
<1> QED
  BY <1>1, <1>4 DEF IsStack, Framed, PlacedTo

-----------------------------------------------------------------------------
(***************************************************************************)
(* A task is its stack of contexts: the invariant, and what a step must do *)
(* to be one of ContextStacks.                                             *)
(***************************************************************************)
\* What the data segment registers hold outside virtual 8086 mode.
DataSelectors == {"null", "KDS"} \cup LdtSelectors
IsData(r, o) ==
    r.sel[o] \in DataSelectors /\ \E s \in DataSelectors : r.desc[o] = RawDesc(s, r.dldt)
DataInv(r) ==
    /\ Agrees(r, "es") \/ (r.sel["es"] = "UXS" /\ ~r.vm)
    /\ ~r.vm => IsData(r, "ds") /\ IsData(r, "es")

\* The stack of the task that runs is where ESP says, or empty; those of the others
\* are where their TSSs say.
RunningInv ==
    IF reg.cpl = 0 THEN reg.sp = <<Current, Len(stack[Current])>> /\ stack[Current] # << >>
    ELSE stack[Current] = << >>
Waits(T, t, st) ==
    /\ T.sp = <<t, Len(st)>> /\ st # << >> /\ RPL(T.sel["cs"]) = 0
    /\ T.sel["ds"] \in DataSelectors /\ T.sel["es"] \in DataSelectors
ParkedInv == \A t \in Tasks : t # Current => Waits(tss[t], t, stack[t])

StackInv ==
    /\ DOMAIN stack = Tasks /\ \A t \in Tasks : IsStack(stack[t])
    /\ reg.tr \in Tasks \cup {None}
    /\ IF Booted THEN reg.dldt = reg.tr
       ELSE reg.cpl = 0 /\ reg.tr \in {None, Boot} /\ reg.dldt \in {None, Boot}
    /\ RunningInv /\ ParkedInv /\ DataInv(reg)

Deep(t) == Frames(stack[t], Len(stack[t]))
TopOf(t) == IF t = Current THEN Running(reg) ELSE Parked(tss[t], t)

\* A task's contexts: the frames on its kernel stack, and what runs or waits.
Shape ==
    /\ Current \in Tasks
    /\ \A t \in Tasks :
          /\ ContextsOf(t) = Append(Deep(t), TopOf(t)) /\ IsSeq(Deep(t)) /\ Len(Deep(t)) \in Nat
          /\ Last(ContextsOf(t)) = TopOf(t) /\ Front(ContextsOf(t)) = Deep(t)
          /\ Len(ContextsOf(t)) = Len(Deep(t)) + 1

\* The invariant gives the tasks that shape.
LEMMA Shapes == StackInv => Shape
<1> SUFFICES ASSUME StackInv PROVE Shape
  OBVIOUS
<1>1. Current \in Tasks
  BY ProtectedAssumption DEF StackInv, Current
<1>2. ASSUME NEW t \in Tasks PROVE ContextsOf(t) = Append(Deep(t), TopOf(t)) /\ IsSeq(Deep(t))
  <2>0. Len(stack[t]) \in Nat
    BY DEF StackInv, IsStack, IsSeq
  <2> DEFINE n == Len(stack[t])
             f(i) == Frames(stack[t], i)
             top == TopOf(t)
  <2>1. CASE t = Current /\ reg.cpl = 0
    <3>1. reg.sp[2] = n
      BY <2>1 DEF StackInv, RunningInv
    <3>2. ContextsOf(t) = Append(f(reg.sp[2]), top)
      BY <2>1 DEF ContextsOf, TopOf
    <3> QED
      BY <2>0, <3>1, <3>2, FramesSeq DEF Deep
  <2>2. CASE t = Current /\ reg.cpl # 0
    <3>1. n = 0
      BY <2>2 DEF StackInv, RunningInv
    <3>2. ContextsOf(t) = Append(f(0), top)
      BY <2>2 DEF ContextsOf, TopOf
    <3> QED
      BY <2>0, <3>1, <3>2, FramesSeq DEF Deep
  <2>3. CASE t # Current
    <3>1. tss[t].sp[2] = n
      BY <2>3 DEF StackInv, ParkedInv, Waits
    <3>2. ContextsOf(t) = Append(f(tss[t].sp[2]), top)
      BY <2>3 DEF ContextsOf, TopOf
    <3> QED
      BY <2>0, <3>1, <3>2, FramesSeq DEF Deep
  <2> QED
    BY <2>1, <2>2, <2>3
<1>3. ASSUME NEW t \in Tasks
      PROVE  /\ Last(ContextsOf(t)) = TopOf(t) /\ Front(ContextsOf(t)) = Deep(t)
             /\ Len(Deep(t)) \in Nat /\ Len(ContextsOf(t)) = Len(Deep(t)) + 1
  <2> DEFINE s == Deep(t)
             x == TopOf(t)
  <2>1. IsSeq(s) /\ ContextsOf(t) = Append(s, x)
    BY <1>2
  <2> HIDE DEF s, x
  <2>2. Last(ContextsOf(t)) = x /\ Front(ContextsOf(t)) = s
        /\ Len(s) \in Nat /\ Len(ContextsOf(t)) = Len(s) + 1
    BY <2>1, Appended
  <2> QED
    BY <2>2 DEF s, x
<1> QED
  BY <1>1, <1>2, <1>3 DEF Shape

\* So it does in the next state.
LEMMA ShapesNext == StackInv' => Shape'
BY Shapes, PTL

Stacks == [t \in Tasks |-> ContextsOf(t)]

\* A step of the task that runs.
LEMMA OnlyCurrent ==
  ASSUME StackInv, StackInv', Current' = Current,
         \A u \in Tasks \ {Current} : stack'[u] = stack[u] /\ tss'[u] = tss[u]
  PROVE  Stacks' = [Stacks EXCEPT ![Current] = Append(Deep(Current)', Running(reg'))]
<1>1. Shape /\ Shape'
  BY Shapes, ShapesNext
<1>2. ASSUME NEW u \in Tasks, u # Current PROVE ContextsOf(u)' = ContextsOf(u)
  BY <1>2 DEF ContextsOf
<1>3. ContextsOf(Current)' = Append(Deep(Current)', Running(reg'))
  BY <1>1 DEF Shape, TopOf
<1>4. Current \in Tasks
  BY <1>1 DEF Shape
<1> QED
  BY <1>2, <1>3, <1>4 DEF Stacks

Axes == [t \in Tasks |-> IF t = Current THEN reg.ax ELSE tss[t].ax]

\* The mapped variables, as the abstract specification sees them.
LEMMA SameEnds == ASSUME NEW s PROVE Contexts!Last(s) = Last(s) /\ Contexts!Front(s) = Front(s)
BY DEF Contexts!Last, Last, Contexts!Front, Front

\* What the abstract specification calls Top and Now are the registers before and
\* after the step.
LEMMA Mapped ==
  ASSUME Shape, Shape'
  PROVE  /\ Contexts!Top = Running(reg)
         /\ Current' = Current => Contexts!Now = Running(reg')
<1>1. Current \in Tasks /\ Last(ContextsOf(Current)) = Running(reg)
  BY DEF Shape, TopOf
<1>2. Contexts!Top = Running(reg)
  BY <1>1, SameEnds DEF Contexts!Top
<1>3. Current' = Current => Last(ContextsOf(Current)') = Running(reg')
  BY <1>1 DEF Shape, TopOf
<1>4. Current' = Current => Contexts!Now = Running(reg')
  BY <1>1, <1>3, SameEnds DEF Contexts!Now
<1> QED
  BY <1>2, <1>4

Fields == {"level", "ip", "if", "nt", "sp", "ds", "es"}
SameIn(S, c, d) == \A z \in S : d[z] = c[z]
IsContext(c) == c = [z \in Fields |-> c[z]]

\* What runs and what waits are contexts.
LEMMA AreContexts ==
  /\ \A r : IsContext(Running(r))
  /\ \A T : \A t : IsContext(Parked(T, t))
BY DEF IsContext, Fields, Running, Parked

\* A context that agrees with another but for some fields is that one with those
\* fields replaced.
LEMMA Differs ==
  ASSUME NEW c, IsContext(c), NEW d, IsContext(d)
  PROVE  /\ SameIn({"level", "nt", "ds", "es"}, c, d)
              => d = [c EXCEPT !.ip = d.ip, !.sp = d.sp, !.if = d.if]
         /\ SameIn({"level", "if", "nt", "sp"}, c, d)
              => d = [c EXCEPT !.ip = d.ip, !.ds = d.ds, !.es = d.es]
         /\ SameIn({"level", "if", "sp", "ds", "es"}, c, d)
              => d = [c EXCEPT !.ip = d.ip, !.nt = d.nt]
         /\ SameIn({"level", "ip", "if", "sp", "ds", "es"}, c, d)
              => d = [c EXCEPT !.nt = d.nt]
         /\ SameIn({"level", "ip", "if", "nt", "sp", "ds"}, c, d)
              => d = [c EXCEPT !.es = d.es]
<1>1. c = [z \in Fields |-> c[z]] /\ d = [z \in Fields |-> d[z]]
  BY DEF IsContext
<1>2. ASSUME SameIn({"level", "nt", "ds", "es"}, c, d)
      PROVE  d = [c EXCEPT !.ip = d.ip, !.sp = d.sp, !.if = d.if]
  BY <1>1, <1>2 DEF Fields, SameIn
<1>3. ASSUME SameIn({"level", "if", "nt", "sp"}, c, d)
      PROVE  d = [c EXCEPT !.ip = d.ip, !.ds = d.ds, !.es = d.es]
  BY <1>1, <1>3 DEF Fields, SameIn
<1>4. ASSUME SameIn({"level", "if", "sp", "ds", "es"}, c, d)
      PROVE  d = [c EXCEPT !.ip = d.ip, !.nt = d.nt]
  BY <1>1, <1>4 DEF Fields, SameIn
<1>5. ASSUME SameIn({"level", "ip", "if", "sp", "ds", "es"}, c, d)
      PROVE  d = [c EXCEPT !.nt = d.nt]
  BY <1>1, <1>5 DEF Fields, SameIn
<1>6. ASSUME SameIn({"level", "ip", "if", "nt", "sp", "ds"}, c, d)
      PROVE  d = [c EXCEPT !.es = d.es]
  BY <1>1, <1>6 DEF Fields, SameIn
<1> QED
  BY <1>2, <1>3, <1>4, <1>5, <1>6

OthersKept == \A u \in Tasks \ {Current} : stack'[u] = stack[u] /\ tss'[u] = tss[u]

\* A step that changes EIP, ESP and IF of the running context alone is Compute.
LEMMA ComputeRefines ==
  ASSUME StackInv, StackInv', Current' = Current, OthersKept, reg'.ts = reg.ts,
         Deep(Current)' = Deep(Current),
         SameIn({"level", "nt", "ds", "es"}, Running(reg), Running(reg')),
         Running(reg).level # "kernel" => Running(reg').if = Running(reg).if
  PROVE  Contexts!Compute
<1> DEFINE c == Running(reg)
           d == Running(reg')
<1>1. Shape /\ Shape'
  BY Shapes, ShapesNext
<1>2. Contexts!Top = c /\ Contexts!Now = d
  BY <1>1, Mapped
<1>3. Stacks' = [Stacks EXCEPT ![Current] = Append(Deep(Current), d)]
  BY OnlyCurrent DEF OthersKept
<1>4. Current \in Tasks /\ Stacks[Current] = ContextsOf(Current) /\ Front(ContextsOf(Current)) = Deep(Current)
  BY <1>1 DEF Shape, Stacks
<1>5. d = [c EXCEPT !.ip = d.ip, !.sp = d.sp, !.if = d.if]
  <2>1. IsContext(c) /\ IsContext(d) /\ SameIn({"level", "nt", "ds", "es"}, c, d)
    BY AreContexts
  <2> HIDE DEF c, d
  <2> QED
    BY <2>1, Differs
<1> HIDE DEF c, d
<1>6. Stacks' = [Stacks EXCEPT ![Current] =
                    Contexts!Replace(@, [Contexts!Top EXCEPT !.ip = Contexts!Now.ip, !.sp = Contexts!Now.sp,
                                                             !.if = Contexts!Now.if])]
  BY <1>2, <1>3, <1>4, <1>5, SameEnds DEF Contexts!Replace
<1>7. Contexts!Top.level # "kernel" => Contexts!Now.if = Contexts!Top.if
  BY <1>2 DEF c, d
<1>8. Axes' = [Axes EXCEPT ![Current] = Axes'[Current]]
  BY DEF Axes, OthersKept
<1>9. reg.ts' = reg.ts
  OBVIOUS
<1> QED
  BY <1>6, <1>7, <1>8, <1>9 DEF Contexts!Compute, Stacks, Axes

SameAxes == reg'.ax = reg.ax /\ OthersKept

\* If no general register changes, none does in the abstract specification.
LEMMA AxesKept == ASSUME Current' = Current, SameAxes PROVE Axes' = Axes
BY DEF Axes, SameAxes, OthersKept

\* A step that changes EIP and one data segment of the running context is
\* LoadSegment.
LEMMA LoadRefines ==
  ASSUME StackInv, StackInv', Current' = Current, SameAxes, reg'.ts = reg.ts,
         Deep(Current)' = Deep(Current),
         SameIn({"level", "if", "nt", "sp"}, Running(reg), Running(reg')),
         Running(reg').ds = Running(reg).ds \/ Running(reg').es = Running(reg).es
  PROVE  Contexts!LoadSegment
<1> DEFINE c == Running(reg)
           d == Running(reg')
<1>1. Shape /\ Shape'
  BY Shapes, ShapesNext
<1>2. Contexts!Top = c /\ Contexts!Now = d
  BY <1>1, Mapped
<1>3. Stacks' = [Stacks EXCEPT ![Current] = Append(Deep(Current), d)]
  BY OnlyCurrent DEF OthersKept, SameAxes
<1>4. Current \in Tasks /\ Stacks[Current] = ContextsOf(Current) /\ Front(ContextsOf(Current)) = Deep(Current)
  BY <1>1 DEF Shape, Stacks
<1>5. d = [c EXCEPT !.ip = d.ip, !.ds = d.ds, !.es = d.es] /\ (d.ds = c.ds \/ d.es = c.es)
  <2>1. /\ IsContext(c) /\ IsContext(d) /\ SameIn({"level", "if", "nt", "sp"}, c, d)
        /\ d.ds = c.ds \/ d.es = c.es
    BY AreContexts
  <2> HIDE DEF c, d
  <2> QED
    BY <2>1, Differs
<1> HIDE DEF c, d
<1>6. Stacks' = [Stacks EXCEPT ![Current] =
                    Contexts!Replace(@, [Contexts!Top EXCEPT !.ip = Contexts!Now.ip, !.ds = Contexts!Now.ds,
                                                             !.es = Contexts!Now.es])]
  BY <1>2, <1>3, <1>4, <1>5, SameEnds DEF Contexts!Replace
<1>7. Contexts!Now.ds = Contexts!Top.ds \/ Contexts!Now.es = Contexts!Top.es
  BY <1>2, <1>5
<1>8. Axes' = Axes
  BY AxesKept
<1>9. reg.ts' = reg.ts
  OBVIOUS
<1> QED
  BY <1>6, <1>7, <1>8, <1>9 DEF Contexts!LoadSegment, Stacks, Axes

\* Nothing that a context consists of changes.
LEMMA Stutters ==
  ASSUME StackInv, StackInv', Current' = Current, SameAxes, Deep(Current)' = Deep(Current),
         Running(reg') = Running(reg)
  PROVE  /\ Stacks' = Stacks /\ Axes' = Axes
         /\ reg'.ts = reg.ts => UNCHANGED Contexts!vars
         /\ reg'.ts = FALSE => Contexts!UseCoprocessor
<1>1. Shape
  BY Shapes
<1>2. Stacks' = [Stacks EXCEPT ![Current] = Append(Deep(Current), Running(reg))]
  BY OnlyCurrent DEF OthersKept, SameAxes
<1>3. Stacks[Current] = Append(Deep(Current), Running(reg)) /\ Stacks = [t \in Tasks |-> Stacks[t]]
  BY <1>1 DEF Shape, Stacks, TopOf
<1>4. Stacks' = Stacks
  BY <1>2, <1>3
<1>5. Axes' = Axes
  BY AxesKept
<1>6. reg'.ts = reg.ts => UNCHANGED Contexts!vars
  BY <1>4, <1>5 DEF Contexts!vars, Stacks, Axes
<1>7. reg'.ts = FALSE => Contexts!UseCoprocessor
  BY <1>4, <1>5 DEF Contexts!UseCoprocessor, Stacks, Axes
<1> QED
  BY <1>4, <1>5, <1>6, <1>7

\* A step that puts the running context on its task's stack and starts a handler
\* is Interrupt.
LEMMA InterruptRefines ==
  ASSUME StackInv, StackInv', Current' = Current, SameAxes, reg'.ts = reg.ts,
         Deep(Current)' = Append(Deep(Current), Contexts!Interrupted(Running(reg))),
         NEW es, es \in {Running(reg).es, ToBeLoaded},
         Running(reg') = Contexts!Handler([Running(reg) EXCEPT !.es = es], Running(reg').if),
         Running(reg').if => Running(reg).if
  PROVE  Contexts!Interrupt
<1> DEFINE c == Running(reg)
           d == Running(reg')
<1>1. Shape /\ Shape'
  BY Shapes, ShapesNext
<1>2. Contexts!Top = c /\ Contexts!Now = d
  BY <1>1, Mapped
<1>3. Stacks' = [Stacks EXCEPT ![Current] = Append(Append(Deep(Current), Contexts!Interrupted(c)), d)]
  BY OnlyCurrent DEF OthersKept, SameAxes
<1>4. Current \in Tasks /\ Stacks[Current] = ContextsOf(Current) /\ Front(ContextsOf(Current)) = Deep(Current)
  BY <1>1 DEF Shape, Stacks
<1>5. d = Contexts!Handler([c EXCEPT !.es = es], d.if) /\ es \in {c.es, ToBeLoaded} /\ (d.if => c.if)
  OBVIOUS
<1> HIDE DEF c, d
<1>6. Stacks' = [Stacks EXCEPT ![Current] =
                    Append(Contexts!Replace(@, Contexts!Interrupted(Contexts!Top)),
                           Contexts!Handler([Contexts!Top EXCEPT !.es = es], Contexts!Now.if))]
  BY <1>2, <1>3, <1>4, <1>5, SameEnds DEF Contexts!Replace
<1>7. es \in {Contexts!Top.es, ToBeLoaded} /\ (Contexts!Now.if => Contexts!Top.if)
  BY <1>2, <1>5
<1>8. Axes' = Axes
  BY AxesKept
<1>9. reg.ts' = reg.ts
  OBVIOUS
<1> QED
  BY <1>6, <1>7, <1>8, <1>9 DEF Contexts!Interrupt, Stacks, Axes

\* A step that takes the last waiting context off its task's stack and runs it is
\* Return.
LEMMA ReturnRefines ==
  ASSUME StackInv, StackInv', Current' = Current, SameAxes, reg'.ts = reg.ts,
         NEW F, Deep(Current) = Append(Deep(Current)', F),
         NEW es, es = Running(reg).es \/ (Running(reg).es = ToBeLoaded /\ es = <<None, "null">>),
         Running(reg') = Contexts!Resumed(F, Running(reg).ds, es)
  PROVE  Contexts!Return
<1> DEFINE c == Running(reg)
           d == Running(reg')
           D == Deep(Current)'
<1>1. Shape /\ Shape'
  BY Shapes, ShapesNext
<1>2. Contexts!Top = c /\ Contexts!Now = d
  BY <1>1, Mapped
<1>3. Stacks' = [Stacks EXCEPT ![Current] = Append(D, d)]
  BY OnlyCurrent DEF OthersKept, SameAxes
<1>4. /\ Current \in Tasks /\ Stacks[Current] = ContextsOf(Current)
      /\ Front(ContextsOf(Current)) = Append(D, F) /\ Len(ContextsOf(Current)) = Len(Append(D, F)) + 1
      /\ IsSeq(D)
  BY <1>1 DEF Shape, Stacks
<1>5. d = Contexts!Resumed(F, c.ds, es) /\ (es = c.es \/ (c.es = ToBeLoaded /\ es = <<None, "null">>))
  OBVIOUS
<1> HIDE DEF c, d, D
<1>6. Front(Append(D, F)) = D /\ Last(Append(D, F)) = F /\ Len(Append(D, F)) = Len(D) + 1 /\ Len(D) \in Nat
  BY <1>4, Appended
<1>7. Stacks' = [Stacks EXCEPT ![Current] =
                    Contexts!Replace(Contexts!Front(@),
                                     Contexts!Resumed(Contexts!Last(Contexts!Front(@)), Contexts!Top.ds, es))]
  BY <1>2, <1>3, <1>4, <1>5, <1>6, SameEnds DEF Contexts!Replace
<1>8. es \in {Contexts!Top.es} \cup (IF Contexts!Top.es = ToBeLoaded THEN {<<None, "null">>} ELSE {})
  BY <1>2, <1>5
<1>9. Len(Stacks[Current]) > 1
  BY <1>4, <1>6
<1>10. Axes' = Axes
  BY AxesKept
<1>11. reg.ts' = reg.ts
  OBVIOUS
<1> QED
  BY <1>7, <1>8, <1>9, <1>10, <1>11 DEF Contexts!Return, Stacks, Axes

\* A step after which another task runs, as it was left, is Switch.
LEMMA SwitchRefines ==
  ASSUME StackInv, StackInv', NEW o \in Tasks, o = Current, NEW t \in Tasks, t # o, Current' = t, stack' = stack,
         \A u \in Tasks \ {o, t} : tss'[u] = tss[u],
         NEW how \in {"jump", "call", "return"},
         Running(reg).level = "kernel", how = "return" => Running(reg).nt,
         SameIn({"level", "if", "sp", "ds", "es"}, Running(reg), Parked(tss'[o], o)),
         NEW x, x = (Running(reg).nt /\ how # "return"), Parked(tss'[o], o).nt = x,
         SameIn({"level", "ip", "if", "sp", "ds", "es"}, Parked(tss[t], t), Running(reg')),
         NEW nt, Running(reg').nt = nt,
         how = "jump" => nt = FALSE, how = "call" => nt = TRUE,
         how = "return" => nt = Parked(tss[t], t).nt,
         tss'[o].ax = reg.ax, reg'.ax = tss[t].ax, reg'.ts = TRUE
  PROVE  Contexts!Switch(how)
<1> DEFINE c == Running(reg)
           left == Parked(tss'[o], o)
           come == Running(reg')
           came == Parked(tss[t], t)
<1>1. Shape /\ Shape'
  BY Shapes, ShapesNext
<1>2. Contexts!Top = c /\ o \in Tasks
  BY <1>1, Mapped DEF Shape
<1>3. /\ Stacks[o] = ContextsOf(o) /\ Front(Stacks[o]) = Deep(o)
      /\ Stacks[t] = ContextsOf(t) /\ Front(Stacks[t]) = Deep(t)
  BY <1>1 DEF Shape, Stacks
<1>4. ASSUME NEW u \in Tasks PROVE Deep(u)' = Deep(u)
  BY DEF Deep
<1>5. /\ Stacks' = [u \in Tasks |-> ContextsOf(u)'] /\ Stacks = [u \in Tasks |-> ContextsOf(u)]
      /\ ContextsOf(o)' = Append(Deep(o), left) /\ Last(ContextsOf(o)') = left
      /\ ContextsOf(t)' = Append(Deep(t), come) /\ Last(ContextsOf(t)') = come
  <2>1. /\ ContextsOf(o)' = Append(Deep(o)', TopOf(o)') /\ Last(ContextsOf(o)') = TopOf(o)'
        /\ ContextsOf(t)' = Append(Deep(t)', TopOf(t)') /\ Last(ContextsOf(t)') = TopOf(t)'
    BY <1>1, <1>2 DEF Shape
  <2>2. TopOf(o)' = left /\ TopOf(t)' = come
    BY DEF TopOf
  <2> QED
    BY <1>2, <1>4, <2>1, <2>2 DEF Stacks
<1>6. ASSUME NEW u \in Tasks, u # o, u # t PROVE ContextsOf(u)' = ContextsOf(u)
  BY <1>6 DEF ContextsOf
<1>7. left = [c EXCEPT !.ip = left.ip, !.nt = c.nt /\ how # "return"]
  <2>1. IsContext(c) /\ IsContext(left) /\ SameIn({"level", "if", "sp", "ds", "es"}, c, left) /\ left.nt = x
    BY AreContexts
  <2>2. x = (c.nt /\ how # "return")
    OBVIOUS
  <2> HIDE DEF c, left
  <2>3. left = [c EXCEPT !.ip = left.ip, !.nt = left.nt]
    BY <2>1, Differs
  <2> QED
    BY <2>1, <2>2, <2>3
<1>8. come = [came EXCEPT !.nt = nt] /\ (how = "return" => nt = came.nt) /\ Last(Stacks[t]) = came
  <2>1. Last(Stacks[t]) = came
    BY <1>1 DEF Shape, Stacks, TopOf
  <2>2. /\ IsContext(came) /\ IsContext(come) /\ SameIn({"level", "ip", "if", "sp", "ds", "es"}, came, come)
        /\ come.nt = nt /\ (how = "return" => nt = came.nt)
    BY AreContexts
  <2> HIDE DEF come, came
  <2>3. come = [came EXCEPT !.nt = come.nt]
    BY <2>2, Differs
  <2> QED
    BY <2>1, <2>2, <2>3
<1>9. Axes' = Axes
  BY DEF Axes
<1> HIDE DEF c, left, come, came
<1>10. Stacks' = [Stacks EXCEPT ![o] = Append(Front(@), left), ![t] = Append(Front(@), come)]
  BY <1>2, <1>3, <1>5, <1>6
<1>11. Stacks'[o] = ContextsOf(o)' /\ Stacks'[t] = ContextsOf(t)'
  BY <1>2, <1>5
<1> DEFINE f(y) == CASE how = "jump" -> FALSE [] how = "call" -> TRUE [] how = "return" -> y.nt
<1>12. f(came) = nt
  BY <1>8
<1> HIDE DEF f
<1> DEFINE a == [c EXCEPT !.ip = Last(Stacks'[o]).ip, !.nt = @ /\ how # "return"]
           b == [Last(Stacks[t]) EXCEPT !.nt = f(Last(Stacks[t]))]
<1>13. a = left
  <2>1. Last(Stacks'[o]) = left
    BY <1>5, <1>11
  <2> QED
    BY <1>7, <2>1
<1>14. b = come
  BY <1>8, <1>12
<1>15. Stacks' = [Stacks EXCEPT ![o] = Append(Front(@), a), ![t] = Append(Front(@), b)]
  BY <1>10, <1>13, <1>14
<1>16. reg.ts' = TRUE /\ c.level = "kernel" /\ (how = "return" => c.nt)
  BY DEF c
<1> HIDE DEF a, b
<1>17. Stacks' = [Stacks EXCEPT ![o] = Contexts!Replace(@, a), ![t] = Contexts!Replace(@, b)]
  <2>1. \A s : \A y : Contexts!Replace(s, y) = Append(Front(s), y)
    BY SameEnds DEF Contexts!Replace
  <2> QED
    BY <1>15, <2>1
<1> DEFINE A == [Contexts!Top EXCEPT !.ip = Contexts!Last(Stacks'[Current]).ip, !.nt = @ /\ how # "return"]
           last == Contexts!Last(Stacks[Current'])
           B == [last EXCEPT !.nt = CASE how = "jump" -> FALSE
                                      [] how = "call" -> TRUE
                                      [] how = "return" -> last.nt]
<1>18. A = a
  BY <1>2, SameEnds DEF a
<1>19. B = b
  BY SameEnds DEF b, f
<1>20. Stacks' = [Stacks EXCEPT ![Current] = Contexts!Replace(@, A), ![Current'] = Contexts!Replace(@, B)]
  BY <1>17, <1>18, <1>19
<1> HIDE DEF A, B
<1>21. Contexts!Top.level = "kernel" /\ (how = "return" => Contexts!Top.nt) /\ Current' # Current
  BY <1>2, <1>16
<1> QED
  BY <1>9, <1>16, <1>20, <1>21 DEF Contexts!Switch, Stacks, Axes, A, B

-----------------------------------------------------------------------------
(***************************************************************************)
(* Steps that neither add nor remove a context.                            *)
(***************************************************************************)
LevelOf(r) == CASE r.vm -> "vm" [] ~r.vm /\ r.cpl = 3 -> "user" [] OTHER -> "kernel"
EsOf(r) == IF Agrees(r, "es") THEN r.desc["es"].of ELSE ToBeLoaded
DepthOf(r) == IF r.cpl = 0 THEN 0 ELSE r.sp[2]

\* The running context, by its fields.
LEMMA RunningIs ==
  ASSUME NEW r
  PROVE  /\ Running(r).level = LevelOf(r) /\ Running(r).ip = r.ip /\ Running(r).if = r.if
         /\ Running(r).nt = r.nt /\ Running(r).sp = DepthOf(r)
         /\ Running(r).ds = r.desc["ds"].of /\ Running(r).es = EsOf(r)
         /\ r.vm => LevelOf(r) = "vm"
         /\ ~r.vm /\ r.cpl = 3 => LevelOf(r) = "user"
         /\ ~r.vm /\ r.cpl # 3 => LevelOf(r) = "kernel"
BY DEF Running, LevelOf, EsOf, DepthOf, Agrees

\* The CPL is 0 or 3; at 0 the mode is not virtual 8086.
LEMMA Levels ==
  ASSUME CachesInv
  PROVE  /\ reg.cpl \in {0, 3} /\ (reg.vm => reg.cpl = 3) /\ reg.dtr = reg.tr /\ IsRegs(reg)
         /\ reg.cpl = 0 => RPL(reg.sel["cs"]) = 0
         /\ ~reg.vm /\ reg.cpl = 3 => RPL(reg.sel["cs"]) = 3
         /\ Agrees(reg, "ds")
BY DEF CachesInv, RegInv, RPL, AgreeBut, Spared, SegRegs

\* A step that runs no other task.
LEMMA StaysInv ==
  ASSUME StackInv, Booted, Ids(reg') = Ids(reg), DOMAIN stack' = DOMAIN stack, OthersKept,
         IsStack(stack'[Current]), RunningInv', DataInv(reg')
  PROVE  StackInv' /\ Current' = Current
<1>1. reg'.tr = reg.tr /\ reg'.dldt = reg.dldt
  BY DEF Ids
<1>2. Current' = Current /\ Booted'
  BY <1>1 DEF Current, Booted
<1>3. ParkedInv'
  BY <1>2 DEF StackInv, ParkedInv, OthersKept
<1>4. \A t \in Tasks : IsStack(stack'[t])
  BY <1>2 DEF StackInv, OthersKept
<1> QED
  BY <1>1, <1>2, <1>3, <1>4 DEF StackInv

\* A step that changes neither segment registers nor stacks.
SameData(r, q) ==
    /\ q.sel = r.sel /\ q.desc = r.desc /\ q.cpl = r.cpl /\ q.vm = r.vm /\ Ids(q) = Ids(r)

\* It keeps the invariant, and the contexts that wait.
LEMMA QuietInv ==
  ASSUME StackInv, Booted, SameData(reg, reg'), stack' = stack, tss' = tss,
         reg.cpl = 0 => reg'.sp = reg.sp
  PROVE  /\ StackInv' /\ Current' = Current /\ OthersKept
         /\ LevelOf(reg') = LevelOf(reg) /\ EsOf(reg') = EsOf(reg)
         /\ Deep(Current)' = Deep(Current)
<1>1. reg'.tr = reg.tr /\ reg'.dldt = reg.dldt
  BY DEF Ids, SameData
<1>2. Current' = Current
  BY <1>1 DEF Current
<1>3. RunningInv'
  BY <1>2 DEF StackInv, RunningInv, SameData
<1>4. /\ Agrees(reg', "es") <=> Agrees(reg, "es")
      /\ \A o : IsData(reg, o) => IsData(reg', o)
  BY <1>1 DEF SameData, Agrees, DescOf, IsData
<1>5. DataInv(reg')
  BY <1>4 DEF StackInv, DataInv, SameData
<1>6. OthersKept
  BY DEF OthersKept
<1>7. Current \in Tasks
  BY Shapes DEF Shape
<1>8. StackInv'
  BY <1>3, <1>5, <1>6, <1>7, StaysInv DEF SameData, StackInv
<1>9. LevelOf(reg') = LevelOf(reg) /\ EsOf(reg') = EsOf(reg)
  BY <1>4 DEF LevelOf, EsOf, SameData
<1>10. Deep(Current)' = Deep(Current)
  BY <1>2 DEF Deep
<1> QED
  BY <1>2, <1>6, <1>8, <1>9, <1>10

\* What the guest computes is Compute.
LEMMA ComputeImplements ==
  ASSUME CachesInv, StackInv, Compute
  PROVE  StackInv' /\ Contexts!Compute
<1>1. Booted /\ stack' = stack /\ tss' = tss /\ IsRegs(reg)
  BY Levels DEF Compute, Kernel, User, memory
<1>2. /\ SameData(reg, reg') /\ reg'.ts = reg.ts /\ reg'.nt = reg.nt
      /\ reg.cpl = 0 => reg'.sp = reg.sp
      /\ reg.cpl # 0 => reg'.if = reg.if
  BY <1>1 DEF Compute, IsRegs, RegNames, SameData, Ids, User, Kernel
<1>3. /\ StackInv' /\ Current' = Current /\ OthersKept
      /\ LevelOf(reg') = LevelOf(reg) /\ EsOf(reg') = EsOf(reg)
      /\ Deep(Current)' = Deep(Current)
  BY <1>1, <1>2, QuietInv
<1>4. SameIn({"level", "nt", "ds", "es"}, Running(reg), Running(reg'))
  BY <1>2, <1>3, RunningIs DEF SameData, SameIn
<1>5. Running(reg).level # "kernel" => Running(reg').if = Running(reg).if
  BY <1>2, Levels, RunningIs
<1> QED
  BY <1>2, <1>3, <1>4, <1>5, ComputeRefines

\* CLTS is UseCoprocessor.
LEMMA CltsImplements ==
  ASSUME CachesInv, StackInv, Clts
  PROVE  StackInv' /\ Contexts!UseCoprocessor
<1>1. Booted /\ stack' = stack /\ tss' = tss /\ IsRegs(reg)
  BY Levels DEF Clts, Kernel, memory
<1>2. /\ SameData(reg, reg') /\ reg'.ts = FALSE /\ reg'.nt = reg.nt /\ reg'.if = reg.if
      /\ reg'.sp = reg.sp /\ reg'.ip = reg.ip /\ reg'.ax = reg.ax
  BY <1>1 DEF Clts, IsRegs, RegNames, SameData, Ids
<1>3. /\ StackInv' /\ Current' = Current /\ OthersKept
      /\ LevelOf(reg') = LevelOf(reg) /\ EsOf(reg') = EsOf(reg)
      /\ Deep(Current)' = Deep(Current)
  BY <1>1, <1>2, QuietInv
<1>4. Running(reg') = Running(reg)
  <2>1. DepthOf(reg') = DepthOf(reg)
    BY <1>2 DEF DepthOf, SameData
  <2> DEFINE c == Running(reg)
             d == Running(reg')
  <2>2. IsContext(c) /\ IsContext(d)
    BY AreContexts
  <2>3. SameIn(Fields, c, d)
    BY <1>2, <1>3, <2>1, RunningIs DEF SameData, SameIn, Fields
  <2> HIDE DEF c, d
  <2>4. c = d
    BY <2>2, <2>3 DEF IsContext, SameIn
  <2> QED
    BY <2>4 DEF c, d
<1> QED
  BY <1>2, <1>3, <1>4, Stutters DEF SameAxes

\* Steps that change nothing of reg, stacks and TSSs.
LEMMA NothingChanges ==
  ASSUME StackInv, UNCHANGED <<reg, stack, tss>>
  PROVE  StackInv' /\ UNCHANGED Contexts!vars
<1>1. Current' = Current
  BY DEF Current
<1>2. StackInv'
  BY <1>1 DEF StackInv, RunningInv, ParkedInv, Booted
<1>3. Deep(Current)' = Deep(Current) /\ Running(reg') = Running(reg) /\ SameAxes
  BY <1>1 DEF Deep, SameAxes, OthersKept
<1> QED
  BY <1>1, <1>2, <1>3, Stutters

\* Contexts with the same fields are the same.
LEMMA SameFields ==
  ASSUME NEW c, IsContext(c), NEW d, IsContext(d), SameIn(Fields, c, d)
  PROVE  c = d
BY DEF IsContext, SameIn

\* LTR and LLDT change no context: the guest uses its GDT only.
LEMMA BootImplements ==
  ASSUME CachesInv, StackInv, Ltr \/ Lldt
  PROVE  StackInv' /\ UNCHANGED Contexts!vars
<1>0. /\ ~Booted /\ Boot # None /\ IsRegs(reg) /\ reg.cpl = 0
      /\ reg.tr \in {None, Boot} /\ reg.dldt \in {None, Boot}
  BY Levels, ProtectedAssumption DEF Ltr, Lldt, Booted, StackInv
<1>1. /\ stack' = stack /\ tss' = tss
      /\ reg' = [reg EXCEPT !.dtr = Boot, !.tr = Boot] \/ reg' = [reg EXCEPT !.ldtr = Boot, !.dldt = Boot]
  <2>1. CASE Ltr
    <3> DEFINE m == loadTaskRegister(State, Boot, TRUE, None)
    <3>1. m.reg = reg /\ m.stack = stack /\ m.tss = tss
          /\ {"reg", "stack", "tss", "busy", "link"} \subseteq DOMAIN m
      BY DEF loadTaskRegister, State
    <3>2. Set([m EXCEPT !.reg.dtr = Boot, !.reg.tr = Boot])
      BY <2>1 DEF Ltr
    <3> HIDE DEF m
    <3> QED
      BY <3>1, <3>2 DEF Set
  <2>2. CASE Lldt
    BY <2>2 DEF Lldt, memory
  <2> QED
    BY <2>1, <2>2
<1>2. /\ reg'.vm = reg.vm /\ reg'.sel = reg.sel /\ reg'.desc = reg.desc /\ reg'.cpl = reg.cpl
      /\ reg'.ip = reg.ip /\ reg'.if = reg.if /\ reg'.nt = reg.nt /\ reg'.sp = reg.sp
      /\ reg'.ax = reg.ax /\ reg'.ts = reg.ts
      /\ reg'.tr \in {reg.tr, Boot} /\ reg'.dldt \in {reg.dldt, Boot}
  BY <1>0, <1>1 DEF IsRegs, RegNames
<1>3. Current' = Current
  BY <1>0, <1>2 DEF Current
<1>4. /\ \A s : s \notin LdtSelectors => RawDesc(s, reg'.dldt) = RawDesc(s, reg.dldt)
      /\ \A seg \in SegRegs : reg.sel[seg] \notin LdtSelectors
  BY <1>0 DEF RawDesc, CachesInv
<1>5. /\ Agrees(reg', "es") <=> Agrees(reg, "es")
      /\ Agrees(reg, "es") /\ Agrees(reg, "ds") /\ ~reg.vm
  BY <1>0, <1>2, <1>4, Levels DEF Agrees, DescOf, SegRegs, CachesInv, RegInv, AgreeBut, Spared
<1>7. DataInv(reg')
  <2>1. ASSUME NEW o \in {"ds", "es"} PROVE IsData(reg', o)
    <3>1. /\ reg.sel[o] \in DataSelectors /\ reg.sel[o] \notin LdtSelectors
          /\ reg.desc[o] = RawDesc(reg.sel[o], reg.dldt)
      BY <1>4, <1>5 DEF StackInv, DataInv, IsData, Agrees, DescOf, SegRegs
    <3> QED
      BY <1>2, <1>4, <3>1 DEF IsData
  <2> QED
    BY <1>2, <1>5, <2>1 DEF DataInv
<1>8. StackInv'
  <2>1. RunningInv' /\ ParkedInv'
    BY <1>1, <1>2, <1>3 DEF StackInv, RunningInv, ParkedInv
  <2>2. IF Booted' THEN reg'.dldt = reg'.tr
        ELSE reg'.cpl = 0 /\ reg'.tr \in {None, Boot} /\ reg'.dldt \in {None, Boot}
    BY <1>0, <1>2 DEF Booted
  <2>3. reg'.tr \in Tasks \cup {None}
    BY <1>0, <1>2, ProtectedAssumption
  <2> QED
    BY <1>1, <1>7, <2>1, <2>2, <2>3 DEF StackInv
<1>9. Running(reg') = Running(reg)
  <2> DEFINE c == Running(reg)
             d == Running(reg')
  <2>1. SameIn(Fields, c, d)
    BY <1>2, <1>5, RunningIs DEF SameIn, Fields, LevelOf, EsOf, DepthOf
  <2>2. IsContext(c) /\ IsContext(d)
    BY AreContexts
  <2> HIDE DEF c, d
  <2>3. c = d
    BY <2>1, <2>2, SameFields
  <2> QED
    BY <2>3 DEF c, d
<1>10. SameAxes /\ Deep(Current)' = Deep(Current)
  BY <1>1, <1>2, <1>3 DEF SameAxes, OthersKept, Deep
<1> QED
  BY <1>2, <1>3, <1>8, <1>9, <1>10, Stutters

\* A load of DS or ES is LoadSegment.
LEMMA LoadSegmentImplements ==
  ASSUME CachesInv, StackInv, NEW seg \in {"ds", "es"}, NEW s \in Selectors, LoadSegment(seg, s)
  PROVE  StackInv' /\ Contexts!LoadSegment
<1> DEFINE q == updateSegReg(reg, seg, s)
<1>1. /\ Booted /\ tss' = tss /\ stack' = stack /\ IsRegs(reg)
      /\ reg' = [q EXCEPT !.ip = Next1(@)] /\ <<seg, s>> \in Loadable
  BY DEF CachesInv, RegInv, LoadSegment, Kernel, User, memory
<1>2. Loaded(reg, seg, s, q) /\ IsRegs(q)
  BY <1>1, Loads DEF SegRegs, Loaded
<1> HIDE DEF q
<1>3. MovedIP(q, Next1(q.ip), reg')
  BY <1>1, <1>2, IPFields
<1>4. /\ Ids(reg') = Ids(reg) /\ reg'.vm = reg.vm /\ reg'.cpl = reg.cpl
      /\ reg'.sp = reg.sp /\ reg'.if = reg.if /\ reg'.nt = reg.nt /\ General(reg') = General(reg)
      /\ reg'.sel[seg] = s
      /\ \A o \in {"ds", "es"} \ {seg} : reg'.sel[o] = reg.sel[o] /\ reg'.desc[o] = reg.desc[o]
  <2>1. Ids(q) = Ids(reg) /\ q.vm = reg.vm /\ q.cpl = reg.cpl
        /\ q.sp = reg.sp /\ q.if = reg.if /\ q.nt = reg.nt /\ General(q) = General(reg)
    BY <1>2 DEF Loaded, Others, Ids, General
  <2>2. /\ q.sel[seg] = s
        /\ \A o \in {"ds", "es"} \ {seg} : q.sel[o] = reg.sel[o] /\ q.desc[o] = reg.desc[o]
    BY <1>2 DEF Loaded, SegRegs
  <2> QED
    BY <1>3, <2>1, <2>2 DEF MovedIP, Moved
<1>5. reg'.dldt = reg.dldt /\ reg'.tr = reg.tr /\ reg'.ax = reg.ax /\ reg'.ts = reg.ts
  BY <1>4 DEF Ids, General
<1>6. Agrees(reg', seg)
  BY <1>2, <1>3 DEF Loaded, MovedIP, Moved, Agrees, DescOf, Ids
<1>7. \A o \in {"ds", "es"} \ {seg} : Agrees(reg', o) <=> Agrees(reg, o)
  BY <1>4, <1>5 DEF Agrees, DescOf
<1>8. ~reg.vm => s \in DataSelectors
  BY <1>1 DEF Loadable, DataSelectors, LdtSelectors
<1>9. ~reg.vm => IsData(reg', seg)
  BY <1>4, <1>5, <1>6, <1>8 DEF IsData, Agrees, DescOf
<1>10. \A o \in {"ds", "es"} \ {seg} : IsData(reg, o) => IsData(reg', o)
  BY <1>4, <1>5 DEF IsData
<1>11. DataInv(reg')
  <2>1. CASE seg = "es"
    BY <1>4, <1>6, <1>9, <1>10, <2>1 DEF DataInv, StackInv
  <2>2. CASE seg = "ds"
    BY <1>4, <1>7, <1>9, <1>10, <2>2 DEF DataInv, StackInv
  <2> QED
    BY <2>1, <2>2
<1>12. Current' = Current
  BY <1>5 DEF Current
<1>13. RunningInv' /\ OthersKept /\ Current \in Tasks
  BY <1>1, <1>4, <1>12, Shapes DEF StackInv, RunningInv, OthersKept, Shape
<1>14. StackInv'
  BY <1>1, <1>4, <1>11, <1>13, StaysInv DEF StackInv
<1>15. Deep(Current)' = Deep(Current) /\ SameAxes
  BY <1>1, <1>5, <1>12, <1>13 DEF Deep, SameAxes
<1>16. SameIn({"level", "if", "nt", "sp"}, Running(reg), Running(reg'))
  BY <1>4, RunningIs DEF SameIn, LevelOf, DepthOf
<1>17. Running(reg').ds = Running(reg).ds \/ Running(reg').es = Running(reg).es
  <2>1. CASE seg = "es"
    BY <1>4, <2>1, RunningIs
  <2>2. CASE seg = "ds"
    BY <1>4, <1>7, <2>2, RunningIs DEF EsOf
  <2> QED
    BY <2>1, <2>2
<1> QED
  BY <1>5, <1>12, <1>14, <1>15, <1>16, <1>17, LoadRefines

\* Words taken off the kernel stack in use.
LEMMA TakenOff ==
  ASSUME CachesInv, StackInv, reg.cpl = 0, NEW k \in Nat, k <= Len(stack[Current]),
         Forgot(State, k, stack')
  PROVE  /\ DOMAIN stack' = DOMAIN stack /\ \A u \in Tasks \ {Current} : stack'[u] = stack[u]
         /\ IsStack(stack'[Current]) /\ Len(stack'[Current]) = Len(stack[Current]) - k
         /\ Frames(stack'[Current], Len(stack'[Current])) = Frames(stack[Current], Len(stack[Current]) - k)
         /\ Len(stack[Current]) \in Nat
<1> DEFINE st == stack[Current]
           n == Len(st)
           c == SubSeq(st, 1, n - k)
<1>1. IsStack(st) /\ n \in Nat /\ Current \in DOMAIN stack /\ reg.sp[1] = Current /\ reg.sp[2] = n
  BY Shapes DEF StackInv, IsStack, IsSeq, Shape, RunningInv
<1>2. stack' = [stack EXCEPT ![Current] = c]
  BY <1>1 DEF Forgot, State
<1>3. n - k \in Nat /\ n - k <= n
  BY <1>1
<1> HIDE DEF st, n
<1>4. IsStack(c) /\ Len(c) = n - k /\ Frames(c, n - k) = Frames(st, n - k)
  <2> DEFINE j == n - k
  <2>1. j \in Nat /\ j <= Len(st) /\ c = SubSeq(st, 1, j) /\ IsStack(st)
    BY <1>1, <1>3 DEF n
  <2> HIDE DEF j, c
  <2>2. IsStack(c) /\ Len(c) = j /\ Frames(c, j) = Frames(st, j)
    BY <2>1, Shortened
  <2> QED
    BY <2>2 DEF j
<1>5. stack'[Current] = c
  BY <1>1, <1>2
<1> HIDE DEF c
<1> QED
  BY <1>1, <1>2, <1>4, <1>5 DEF st, n

\* An error code belongs to no context: to take it off is Compute.
LEMMA DropCodeImplements ==
  ASSUME CachesInv, StackInv, DropCode
  PROVE  StackInv' /\ Contexts!Compute
<1> DEFINE p == Pop(State, 1)
           n == [p EXCEPT !.reg.ip = Next1(@)]
           len == Len(stack[Current])
<1>1. Booted /\ IsMac(State) /\ State.reg = reg /\ State.tss = tss /\ reg.cpl = 0
  BY StateIsMac DEF DropCode, Kernel
<1>2. Set(n)
  BY DEF DropCode
<1>3. Popped(State, 1, p)
  BY <1>1, PopFields
<1> HIDE DEF p
<1>4. IsMac(p) /\ p.tss = tss /\ MovedSP(reg, <<reg.sp[1], reg.sp[2] - 1>>, p.reg)
      /\ Forgot(State, 1, p.stack)
  BY <1>1, <1>3 DEF Popped, Remaining
<1>5. MovedIP(p.reg, Next1(p.reg.ip), n.reg) /\ n.stack = p.stack /\ n.tss = p.tss
  <2> DEFINE r == p.reg
             q == [p.reg EXCEPT !.ip = Next1(@)]
             x == Next1(p.reg.ip)
  <2>1. IsRegs(r) /\ q = [r EXCEPT !.ip = x]
    BY <1>4 DEF IsMac
  <2>2. n.reg = q /\ n.stack = p.stack /\ n.tss = p.tss
    BY <1>4 DEF IsMac
  <2> HIDE DEF q, x, r
  <2>3. MovedIP(r, x, q)
    BY <2>1, IPFields
  <2> QED
    BY <2>2, <2>3 DEF r, x
<1> HIDE DEF n
<1>6. /\ reg' = n.reg /\ stack' = n.stack /\ tss' = tss
      /\ SameData(reg, reg') /\ reg'.sp = <<reg.sp[1], reg.sp[2] - 1>>
      /\ reg'.if = reg.if /\ reg'.nt = reg.nt /\ General(reg') = General(reg)
  BY <1>2, <1>4, <1>5 DEF Set, MovedSP, MovedIP, Moved, SameData
<1>7. /\ reg.sp[1] = Current /\ reg.sp[2] = len /\ len \in Nat /\ IsStack(stack[Current])
      /\ stack[Current] # << >> /\ IsSeq(stack[Current]) /\ Current \in Tasks
  BY <1>1, Shapes DEF StackInv, RunningInv, IsStack, IsSeq, Shape
<1>8. len > 0
  BY <1>7 DEF IsSeq
<1>9. stack[Current][len][1] = "code"
  BY <1>1, <1>7 DEF DropCode, Word, State
<1>10. len > 1
  BY <1>7, <1>8, <1>9 DEF IsStack, Framed, Placed
<1>11. Forgot(State, 1, stack')
  BY <1>4, <1>5, <1>6
<1>12. /\ DOMAIN stack' = DOMAIN stack /\ \A u \in Tasks \ {Current} : stack'[u] = stack[u]
       /\ IsStack(stack'[Current]) /\ Len(stack'[Current]) = len - 1
       /\ Frames(stack'[Current], len - 1) = Frames(stack[Current], len - 1)
  <2>1. 1 \in Nat /\ 1 <= Len(stack[Current])
    BY <1>7, <1>8
  <2> QED
    BY <1>1, <1>11, <2>1, TakenOff
<1>13. Frames(stack[Current], len) = Frames(stack[Current], len - 1)
  <2> DEFINE j == len - 1
  <2>1. j \in Nat /\ j <= len /\ len \in Nat /\ \A d \in j + 1 .. len : stack[Current][d][1] # "eip"
    BY <1>7, <1>8, <1>9
  <2> HIDE DEF j, len
  <2>2. Frames(stack[Current], len) = Frames(stack[Current], j)
    BY <2>1, FramesQuiet
  <2> QED
    BY <2>2 DEF j
<1>14. Current' = Current /\ OthersKept /\ Ids(reg') = Ids(reg)
  BY <1>6, <1>12 DEF Current, Ids, OthersKept, SameData
<1>15. RunningInv'
  <2>1. reg'.cpl = 0 /\ reg'.sp = <<Current, Len(stack'[Current])>>
    BY <1>1, <1>6, <1>7, <1>12 DEF SameData
  <2>2. stack'[Current] # << >>
    BY <1>7, <1>10, <1>12
  <2> QED
    BY <1>14, <2>1, <2>2 DEF RunningInv
<1>16. /\ Agrees(reg', "es") <=> Agrees(reg, "es")
       /\ \A o : IsData(reg, o) => IsData(reg', o)
  BY <1>6 DEF SameData, Agrees, DescOf, IsData, Ids
<1>17. DataInv(reg')
  BY <1>6, <1>16 DEF StackInv, DataInv, SameData
<1>18. StackInv'
  BY <1>1, <1>12, <1>14, <1>15, <1>17, StaysInv
<1>19. Deep(Current)' = Deep(Current)
  BY <1>12, <1>13, <1>14 DEF Deep
<1>20. SameIn({"level", "nt", "ds", "es"}, Running(reg), Running(reg'))
  <2>1. LevelOf(reg') = LevelOf(reg) /\ EsOf(reg') = EsOf(reg)
    BY <1>6, <1>16 DEF SameData, LevelOf, EsOf
  <2>2. Running(reg').level = Running(reg).level /\ Running(reg').es = Running(reg).es
    BY <2>1, RunningIs
  <2>3. Running(reg').nt = Running(reg).nt
    BY <1>6, RunningIs
  <2>4. Running(reg').ds = Running(reg).ds
    BY <1>6, RunningIs DEF SameData
  <2> QED
    BY <2>2, <2>3, <2>4 DEF SameIn
<1>21. Running(reg).level = "kernel"
  BY <1>1, Levels, RunningIs
<1>22. reg'.ts = reg.ts
  BY <1>6 DEF General
<1> QED
  BY <1>14, <1>18, <1>19, <1>20, <1>21, <1>22, ComputeRefines

\* The JMP that stops the emulator changes EIP alone.
LEMMA JmpBusyImplements ==
  ASSUME CachesInv, StackInv, NEW t \in Tasks, JmpBusy(t)
  PROVE  StackInv' /\ Contexts!Compute
<1> DEFINE r == [reg EXCEPT !.ip = 0]
<1>1. /\ Booted /\ reg.cpl = 0 /\ IsRegs(reg) /\ reg' = updateSegReg(r, "cs", t)
      /\ stack' = stack /\ tss' = tss /\ ~reg.vm
  BY Levels DEF JmpBusy, MaySwitchTo, Kernel, memory
<1>2. MovedIP(reg, 0, r)
  BY <1>1, IPFields
<1> HIDE DEF r
<1>3. Loaded(r, "cs", t, reg')
  BY <1>1, <1>2, Loads DEF SegRegs, MovedIP, Moved
<1>4. /\ Ids(reg') = Ids(reg) /\ reg'.vm = reg.vm /\ reg'.cpl = 0 /\ reg'.sp = reg.sp
      /\ reg'.nt = reg.nt /\ General(reg') = General(reg)
      /\ \A o \in {"ds", "es"} : reg'.sel[o] = reg.sel[o] /\ reg'.desc[o] = reg.desc[o]
  <2>1. Ids(r) = Ids(reg) /\ r.vm = reg.vm /\ r.sp = reg.sp /\ r.nt = reg.nt /\ General(r) = General(reg)
        /\ r.sel = reg.sel /\ r.desc = reg.desc
    BY <1>2 DEF MovedIP, Moved
  <2>2. Ids(reg') = Ids(r) /\ reg'.vm = r.vm /\ reg'.sp = r.sp /\ reg'.nt = r.nt /\ General(reg') = General(r)
    BY <1>3 DEF Loaded, Others, Ids, General
  <2>3. \A o \in {"ds", "es"} : reg'.sel[o] = r.sel[o] /\ reg'.desc[o] = r.desc[o]
    BY <1>3 DEF Loaded, SegRegs
  <2>4. reg'.cpl = RPL(t)
    BY <1>1, <1>3, <2>1 DEF Loaded
  <2>5. RPL(t) = 0
    BY ProtectedAssumption DEF RPL
  <2> QED
    BY <2>1, <2>2, <2>3, <2>4, <2>5
<1>5. reg'.dldt = reg.dldt /\ reg'.tr = reg.tr /\ reg'.ts = reg.ts
  BY <1>4 DEF Ids, General
<1>6. /\ Agrees(reg', "es") <=> Agrees(reg, "es")
      /\ \A o \in {"ds", "es"} : IsData(reg, o) => IsData(reg', o)
  BY <1>4, <1>5 DEF Agrees, DescOf, IsData
<1>7. DataInv(reg')
  BY <1>4, <1>6 DEF StackInv, DataInv
<1>8. Current' = Current /\ OthersKept /\ Current \in Tasks
  BY <1>1, <1>5, Shapes DEF Current, OthersKept, Shape
<1>9. RunningInv'
  BY <1>1, <1>4, <1>8 DEF StackInv, RunningInv
<1>10. StackInv'
  BY <1>1, <1>4, <1>7, <1>8, <1>9, StaysInv DEF StackInv
<1>11. Deep(Current)' = Deep(Current)
  BY <1>1, <1>8 DEF Deep
<1>12. SameIn({"level", "nt", "ds", "es"}, Running(reg), Running(reg'))
  <2>1. LevelOf(reg') = LevelOf(reg)
    BY <1>1, <1>4 DEF LevelOf
  <2>2. EsOf(reg') = EsOf(reg) /\ reg'.desc["ds"] = reg.desc["ds"]
    BY <1>4, <1>6 DEF EsOf
  <2>3. Running(reg').level = Running(reg).level /\ Running(reg').es = Running(reg).es
    BY <2>1, <2>2, RunningIs
  <2>4. Running(reg').nt = Running(reg).nt
    BY <1>4, RunningIs
  <2>5. Running(reg').ds = Running(reg).ds
    BY <2>2, RunningIs
  <2> QED
    BY <2>3, <2>4, <2>5 DEF SameIn
<1>13. Running(reg).level = "kernel"
  BY <1>1, RunningIs
<1> QED
  BY <1>5, <1>8, <1>10, <1>11, <1>12, <1>13, ComputeRefines

-----------------------------------------------------------------------------
(***************************************************************************)
(* What an interrupt pushes.                                               *)
(***************************************************************************)
FrameOf(f, cs, ip) == << <<"eflags", f>>, <<"cs", cs>>, <<"eip", ip>> >>
Code == << <<"code", 0>> >>
MayBeCode(codes) == codes = << >> \/ codes = Code

HasFrame(f, cs, ip, ws) ==
    /\ IsSeq(ws) /\ Len(ws) \in {3, 4}
    /\ ws[1] = <<"eflags", f>> /\ ws[2] = <<"cs", cs>> /\ ws[3] = <<"eip", ip>>
    /\ Len(ws) = 4 => ws[4] = <<"code", 0>>

\* The words that an interrupt pushes.
LEMMA FrameHas ==
  ASSUME NEW f, NEW cs, NEW ip, NEW codes, MayBeCode(codes), NEW ws, ws = FrameOf(f, cs, ip) \o codes
  PROVE  HasFrame(f, cs, ip, ws)
<1> DEFINE a == <<"eflags", f>>
           b == <<"cs", cs>>
           c == <<"eip", ip>>
           e == <<"code", 0>>
           fr == << a, b, c >>
<1>1. IsSeq(fr) /\ Len(fr) = 3 /\ fr[1] = a /\ fr[2] = b /\ fr[3] = c
  <2> DEFINE S == {a, b, c}
  <2>1. fr \in Seq(S)
    OBVIOUS
  <2> QED
    BY <2>1 DEF IsSeq
<1>2. IsSeq(codes) /\ (Len(codes) = 0 \/ (Len(codes) = 1 /\ codes[1] = e))
  <2> DEFINE S == {e}
  <2>1. CASE codes = << >>
    <3>1. codes \in Seq(S) /\ Len(codes) = 0
      BY <2>1
    <3> QED
      BY <3>1 DEF IsSeq
  <2>2. CASE codes = << e >>
    <3>1. codes \in Seq(S) /\ Len(codes) = 1 /\ codes[1] = e
      BY <2>2
    <3> QED
      BY <3>1 DEF IsSeq
  <2> QED
    BY <2>1, <2>2 DEF MayBeCode, Code
<1>3. ws = fr \o codes
  BY DEF FrameOf
<1> HIDE DEF fr, a, b, c, e
<1>4. /\ IsSeq(ws) /\ Len(ws) = Len(fr) + Len(codes)
      /\ \A i \in 1 .. Len(fr) : ws[i] = fr[i]
      /\ \A i \in 1 .. Len(codes) : ws[Len(fr) + i] = codes[i]
  <2>1. Joined(fr, codes, fr \o codes)
    BY <1>1, <1>2, Concat
  <2>2. Joined(fr, codes, ws)
    BY <1>3, <2>1
  <2> QED
    BY <2>2 DEF Joined
<1>5. ws[1] = a /\ ws[2] = b /\ ws[3] = c /\ Len(ws) = 3 + Len(codes)
  BY <1>1, <1>4
<1>6. Len(codes) = 1 => ws[4] = e
  BY <1>1, <1>2, <1>4
<1> QED
  BY <1>2, <1>4, <1>5, <1>6 DEF a, b, c, e, HasFrame

\* A frame upon a stack: one more context.
Stacked(b, f, cs, ip, c, n) ==
    /\ IsStack(c) /\ Len(c) \in {n + 3, n + 4}
    /\ Frames(c, Len(c)) = Append(Frames(b, n), Frame(c, n + 3))
    /\ \A i \in 1 .. n : c[i] = b[i]
    /\ c[n + 1] = <<"eflags", f>> /\ c[n + 2] = <<"cs", cs>> /\ c[n + 3] = <<"eip", ip>>

Fits(b, n, f, cs) ==
    /\ IsStack(b) /\ n = Len(b) /\ n > 0
    /\ f.vm => n = 4 /\ \A i \in 1 .. 4 : b[i][1] # "eip"
    /\ ~f.vm /\ RPL(cs) = 3 => n = 2 /\ \A i \in 1 .. 2 : b[i][1] # "eip"

Upon(b, f, cs, ip, ws, c, n) == Stacked(b, f, cs, ip, c, n) /\ Len(c) = n + Len(ws)

\* A frame pushed upon a stack that it fits is one more context.
LEMMA OnTop ==
  ASSUME NEW b, NEW n, NEW f, NEW cs, Fits(b, n, f, cs),
         NEW ip, NEW codes, MayBeCode(codes)
  PROVE  Upon(b, f, cs, ip, FrameOf(f, cs, ip) \o codes, b \o (FrameOf(f, cs, ip) \o codes), n)
<1> DEFINE ws == FrameOf(f, cs, ip) \o codes
           c == b \o ws
<1> USE DEF Fits
<1>a. ws = FrameOf(f, cs, ip) \o codes /\ c = b \o ws
  OBVIOUS
<1> HIDE DEF ws, c
<1>0. IsSeq(b) /\ n \in Nat
  BY DEF IsStack, IsSeq
<1>1. /\ IsSeq(ws) /\ Len(ws) \in {3, 4}
      /\ ws[1] = <<"eflags", f>> /\ ws[2] = <<"cs", cs>> /\ ws[3] = <<"eip", ip>>
      /\ Len(ws) = 4 => ws[4] = <<"code", 0>>
  <2>1. HasFrame(f, cs, ip, ws)
    BY <1>a, FrameHas
  <2> QED
    BY <2>1 DEF HasFrame
<1>2. /\ IsSeq(c) /\ Len(c) = n + Len(ws)
      /\ \A i \in 1 .. n : c[i] = b[i]
      /\ \A i \in 1 .. Len(ws) : c[n + i] = ws[i]
  <2>1. Joined(b, ws, b \o ws)
    BY <1>0, <1>1, Concat
  <2>2. Joined(b, ws, c)
    BY <1>a, <2>1
  <2> QED
    BY <2>2 DEF Joined
<1>3. /\ c[n + 1] = <<"eflags", f>> /\ c[n + 2] = <<"cs", cs>> /\ c[n + 3] = <<"eip", ip>>
      /\ Len(ws) = 4 => c[n + 4] = <<"code", 0>>
  <2>1. 1 \in 1 .. Len(ws) /\ 2 \in 1 .. Len(ws) /\ 3 \in 1 .. Len(ws)
        /\ (Len(ws) = 4 => 4 \in 1 .. Len(ws))
    BY <1>1
  <2>2. c[n + 1] = ws[1] /\ c[n + 2] = ws[2] /\ c[n + 3] = ws[3] /\ (Len(ws) = 4 => c[n + 4] = ws[4])
    BY <1>2, <2>1
  <2> QED
    BY <1>1, <2>2
<1>4. Frames(c, n) = Frames(b, n) /\ \A d \in 1 .. n : Placed(c, d)
  <2>1. PlacedTo(b, n) /\ SameTo(b, c, n)
    BY <1>2 DEF IsStack, Framed, PlacedTo, SameTo
  <2> QED
    BY <1>0, <2>1, WhatLiesBelow DEF PlacedTo
<1>5. /\ c[n + 1][1] # "eip" /\ c[n + 2][1] # "eip" /\ c[n + 3][1] = "eip"
      /\ c[n + 1][1] # "code" /\ c[n + 2][1] # "code"
      /\ Len(ws) = 4 => c[n + 4][1] # "eip"
  BY <1>3
<1>6. Placed(c, n + 3)
  <2> DEFINE d == n + 3
  <2>0. d > 3 /\ d - 1 = n + 2 /\ d - 2 = n + 1
    BY <1>0
  <2>1. d > 3 /\ d - 1 = n + 2 /\ d - 2 = n + 1 /\ c[d - 2][2] = f /\ c[d - 1][2] = cs
    <3>1. c[d - 2] = c[n + 1] /\ c[d - 1] = c[n + 2]
      BY <2>0
    <3> HIDE DEF d
    <3> QED
      BY <1>3, <2>0, <3>1
  <2>2. f.vm => d = 7 /\ \A i \in 1 .. 6 : c[i][1] # "eip"
    <3> SUFFICES ASSUME f.vm PROVE d = 7 /\ \A i \in 1 .. 6 : c[i][1] # "eip"
      OBVIOUS
    <3>1. n = 4 /\ \A k \in 1 .. 4 : b[k][1] # "eip"
      OBVIOUS
    <3>2. d = 7 /\ 1 .. n = 1 .. 4
      BY <3>1
    <3>3. ASSUME NEW i \in 1 .. 6 PROVE c[i][1] # "eip"
      <4>1. i \in 1 .. n \/ i = n + 1 \/ i = n + 2
        BY <3>1
      <4>2. CASE i \in 1 .. n
        BY <1>2, <3>1, <3>2, <4>2
      <4>3. CASE i = n + 1 \/ i = n + 2
        BY <1>5, <4>3
      <4> QED
        BY <4>1, <4>2, <4>3
    <3> QED
      BY <3>2, <3>3
  <2>3. ~f.vm /\ RPL(cs) = 3 => d = 5 /\ \A i \in 1 .. 4 : c[i][1] # "eip"
    <3> SUFFICES ASSUME ~f.vm, RPL(cs) = 3 PROVE d = 5 /\ \A i \in 1 .. 4 : c[i][1] # "eip"
      OBVIOUS
    <3>1. n = 2 /\ \A k \in 1 .. 2 : b[k][1] # "eip"
      OBVIOUS
    <3>2. d = 5 /\ 1 .. n = 1 .. 2
      BY <3>1
    <3>3. ASSUME NEW i \in 1 .. 4 PROVE c[i][1] # "eip"
      <4>1. i \in 1 .. n \/ i = n + 1 \/ i = n + 2
        BY <3>1
      <4>2. CASE i \in 1 .. n
        BY <1>2, <3>1, <3>2, <4>2
      <4>3. CASE i = n + 1 \/ i = n + 2
        BY <1>5, <4>3
      <4> QED
        BY <4>1, <4>2, <4>3
    <3> QED
      BY <3>2, <3>3
  <2>4. c[d][1] = "eip" /\ c[d - 1][1] # "eip" /\ c[d - 2][1] # "eip"
    BY <1>5, <2>1
  <2> HIDE DEF d
  <2>5. Placed(c, d)
    BY <2>1, <2>2, <2>3, <2>4 DEF Placed
  <2> QED
    BY <2>5 DEF d
<1>7. ASSUME NEW d \in 1 .. Len(c) PROVE Placed(c, d)
  <2>0. Len(c) = n + 3 \/ (Len(c) = n + 4 /\ Len(ws) = 4)
    BY <1>1, <1>2
  <2>1. d \in 1 .. n \/ d = n + 1 \/ d = n + 2 \/ d = n + 3 \/ (d = n + 4 /\ Len(ws) = 4)
    <3>1. CASE Len(c) = n + 3
      BY <1>0, <3>1
    <3>2. CASE Len(c) = n + 4 /\ Len(ws) = 4
      BY <1>0, <3>2
    <3> QED
      BY <2>0, <3>1, <3>2
  <2>2. CASE d = n + 1 \/ d = n + 2
    BY <1>5, <2>2 DEF Placed
  <2>3. CASE d = n + 4 /\ Len(ws) = 4
    <3>1. d > 1 /\ c[d][1] # "eip"
      BY <1>0, <1>5, <2>3
    <3> QED
      BY <3>1 DEF Placed
  <2> QED
    BY <1>4, <1>6, <2>1, <2>2, <2>3
<1>8. Frames(c, n + 3) = Append(Frames(b, n), Frame(c, n + 3))
  <2>1. Frames(c, n + 1) = Frames(c, n)
    BY <1>0, <1>5, FramesStep
  <2>2. Frames(c, n + 2) = Frames(c, n + 1)
    <3> DEFINE k == n + 1
    <3>0. k \in Nat /\ k + 1 = n + 2
      BY <1>0
    <3>1. c[k + 1][1] # "eip"
      BY <3>0, <1>5
    <3> HIDE DEF k
    <3>2. Frames(c, k + 1) = Frames(c, k)
      BY <3>0, <3>1, FramesStep
    <3> QED
      BY <3>0, <3>2 DEF k
  <2>3. Frames(c, n + 3) = Append(Frames(c, n + 2), Frame(c, n + 3))
    <3> DEFINE k == n + 2
    <3>0. k \in Nat /\ k + 1 = n + 3
      BY <1>0
    <3>1. c[k + 1][1] = "eip"
      BY <3>0, <1>5
    <3> HIDE DEF k
    <3>2. Frames(c, k + 1) = Append(Frames(c, k), Frame(c, k + 1))
      BY <3>0, <3>1, FramesStep
    <3> QED
      BY <3>0, <3>2 DEF k
  <2> QED
    BY <1>4, <2>1, <2>2, <2>3
<1>9. Frames(c, Len(c)) = Frames(c, n + 3)
  <2>1. CASE Len(ws) = 3
    BY <1>2, <2>1
  <2>2. CASE Len(ws) = 4
    <3> DEFINE k == n + 3
    <3>0. k \in Nat /\ k + 1 = n + 4
      BY <1>0
    <3>1. c[k + 1][1] # "eip"
      BY <3>0, <1>5, <2>2
    <3> HIDE DEF k
    <3>2. Frames(c, k + 1) = Frames(c, k)
      BY <3>0, <3>1, FramesStep
    <3> QED
      BY <1>2, <2>2, <3>0, <3>2 DEF k
  <2> QED
    BY <1>1, <2>1, <2>2
<1> QED
  BY <1>0, <1>1, <1>2, <1>3, <1>7, <1>8, <1>9 DEF Stacked, Upon, IsStack, Framed, ws, c

\* What an interrupt leaves on the stack below the frame.
SpotOf(m, o, b, n) ==
    /\ IsStack(b) /\ Len(b) = n /\ n \in Nat /\ n > 0
    /\ BelowSP(m.reg)[1] = o /\ BelowSP(m.reg)[2] = n
    /\ Frames(b, n) = Frames(m.stack[o], Len(m.stack[o]))
    /\ m.reg.cpl = 3 /\ ~m.reg.vm
         => n = 2 /\ b[2] = <<"esp", m.reg.sp>> /\ \A i \in 1 .. 2 : b[i][1] # "eip"
    /\ m.reg.cpl = 3 /\ m.reg.vm
         => n = 4 /\ b[1][2] = m.reg.sel["ds"] /\ b[2][2] = m.reg.sel["es"] /\ b[4] = <<"esp", m.reg.sp>>
            /\ \A i \in 1 .. 4 : b[i][1] # "eip"

\* Words that are neither a code nor the end of a frame.
LEMMA PlainStack ==
  ASSUME NEW b, IsSeq(b), NEW n \in Nat, Len(b) = n,
         \A i \in 1 .. n : b[i][1] # "eip" /\ b[i][1] # "code"
  PROVE  IsStack(b) /\ Frames(b, n) = << >>
<1>1. IsStack(b)
  BY DEF IsStack, Framed, Placed
<1>2. Frames(b, n) = Frames(b, 0)
  <2> DEFINE z == 0
  <2>1. z \in Nat /\ z <= n /\ \A d \in z + 1 .. n : b[d][1] # "eip"
    OBVIOUS
  <2> HIDE DEF z
  <2>2. Frames(b, n) = Frames(b, z)
    BY <2>1, FramesQuiet
  <2> QED
    BY <2>2 DEF z
<1> QED
  BY <1>1, <1>2, FramesStep

\* Entering at level 0 leaves the stack as it is; from an outer level the stack is
\* empty, and gets the words of that level.
LEMMA BelowIs ==
  ASSUME NEW m, NEW o, m.reg.cpl \in {0, 3}, m.reg.cpl = 0 => ~m.reg.vm, m.reg.dtr = o,
         IsStack(m.stack[o]),
         IF m.reg.cpl = 0 THEN m.reg.sp = <<o, Len(m.stack[o])>> /\ m.stack[o] # << >>
         ELSE m.stack[o] = << >>
  PROVE  SpotOf(m, o, Below(m), Len(Below(m)))
<1> DEFINE r == m.reg
           st == m.stack[o]
           b == Below(m)
<1>1. CASE r.cpl = 0
  <2>1. b = st /\ BelowSP(r)[1] = o /\ BelowSP(r)[2] = Len(st)
    BY <1>1 DEF Below, BelowSP
  <2>2. Len(st) \in Nat /\ Len(st) > 0
    BY <1>1 DEF IsStack, IsSeq
  <2> QED
    BY <1>1, <2>1, <2>2 DEF SpotOf
<1>2. CASE r.cpl # 0
  <2>0. st = << >> /\ Len(st) = 0 /\ r.cpl = 3
    BY <1>2
  <2>1. Frames(st, Len(st)) = << >>
    BY <2>0, FramesStep
  <2>2. CASE ~r.vm
    <3> DEFINE x == <<"ss", r.sel["ss"]>>
               y == <<"esp", r.sp>>
               S == {x, y}
    <3>1. b = << >> \o << x, y >> /\ BelowSP(r)[1] = o /\ BelowSP(r)[2] = 2
      BY <1>2, <2>0, <2>2 DEF Below, BelowSP, StackWords
    <3>2. x[1] # "eip" /\ x[1] # "code" /\ y[1] # "eip" /\ y[1] # "code"
      OBVIOUS
    <3> HIDE DEF x, y, b
    <3>3. b = << x, y >>
      BY <3>1
    <3>4. b \in Seq(S) /\ Len(b) = 2 /\ b[1] = x /\ b[2] = y
      BY <3>3
    <3>5. \A i \in 1 .. 2 : b[i][1] # "eip" /\ b[i][1] # "code"
      BY <3>2, <3>4
    <3>6. IsSeq(b)
      BY <3>4 DEF IsSeq
    <3>7. IsStack(b) /\ Frames(b, 2) = << >>
      BY <3>4, <3>5, <3>6, PlainStack
    <3>8. SpotOf(m, o, b, 2)
      BY <2>1, <2>2, <3>1, <3>4, <3>5, <3>7 DEF SpotOf, y
    <3> QED
      BY <3>4, <3>8 DEF b
  <2>3. CASE r.vm
    <3> DEFINE v == <<"ds", r.sel["ds"]>>
               w == <<"es", r.sel["es"]>>
               x == <<"ss", r.sel["ss"]>>
               y == <<"esp", r.sp>>
               S == {v, w, x, y}
    <3>1. b = (<< >> \o << v, w >>) \o << x, y >> /\ BelowSP(r)[1] = o /\ BelowSP(r)[2] = 4
      BY <1>2, <2>0, <2>3 DEF Below, BelowSP, StackWords, VmWords
    <3>2. /\ x[1] # "eip" /\ x[1] # "code" /\ y[1] # "eip" /\ y[1] # "code"
          /\ v[1] # "eip" /\ v[1] # "code" /\ w[1] # "eip" /\ w[1] # "code"
      OBVIOUS
    <3> HIDE DEF v, w, x, y, b
    <3> DEFINE p == << v, w >>
               q == << x, y >>
    <3>3. /\ IsSeq(p) /\ Len(p) = 2 /\ p[1] = v /\ p[2] = w
          /\ IsSeq(q) /\ Len(q) = 2 /\ q[1] = x /\ q[2] = y
          /\ << >> \o p = p
      <4>1. p \in Seq(S) /\ Len(p) = 2 /\ p[1] = v /\ p[2] = w
        OBVIOUS
      <4>2. q \in Seq(S) /\ Len(q) = 2 /\ q[1] = x /\ q[2] = y
        OBVIOUS
      <4>3. << >> \o p = p
        OBVIOUS
      <4> HIDE DEF p, q, S
      <4> QED
        BY <4>1, <4>2, <4>3 DEF IsSeq
    <3> HIDE DEF p, q
    <3>4. IsSeq(b) /\ Len(b) = 4 /\ b[1] = v /\ b[2] = w /\ b[3] = x /\ b[4] = y
      <4>1. b = p \o q
        BY <3>1, <3>3 DEF p, q
      <4>2. Joined(p, q, p \o q)
        BY <3>3, Concat
      <4>3. Joined(p, q, b)
        BY <4>1, <4>2
      <4>4. /\ IsSeq(b) /\ Len(b) = 4 /\ \A i \in 1 .. 2 : b[i] = p[i]
            /\ \A i \in 1 .. 2 : b[2 + i] = q[i]
        BY <3>3, <4>3 DEF Joined
      <4>5. b[1] = p[1] /\ b[2] = p[2] /\ b[2 + 1] = q[1] /\ b[2 + 2] = q[2]
        BY <4>4
      <4> QED
        BY <3>3, <4>4, <4>5
    <3>5. \A i \in 1 .. 4 : b[i][1] # "eip" /\ b[i][1] # "code"
      BY <3>2, <3>4
    <3>7. IsStack(b) /\ Frames(b, 4) = << >>
      BY <3>4, <3>5, PlainStack
    <3>8. SpotOf(m, o, b, 4)
      BY <2>1, <2>3, <3>1, <3>4, <3>5, <3>7 DEF SpotOf, v, w, y
    <3> QED
      BY <3>4, <3>8 DEF b
  <2> QED
    BY <2>2, <2>3
<1> QED
  BY <1>1, <1>2

\* The frame is the context that was interrupted.
FrameOn(m, o, c, n) ==
    /\ IsStack(c) /\ Len(c) > 0
    /\ Frames(c, Len(c)) = Append(Frames(m.stack[o], Len(m.stack[o])), Frame(c, n + 3))

\* What a frame says of the registers it was pushed with.
Shows(r, F) ==
    /\ r.vm => F = VmFrameOf(r.ip, Flags(r), r.sp[2], r.sel["ds"], r.sel["es"])
    /\ ~r.vm /\ r.cpl = 3 => F = UserFrameOf(r.ip, Flags(r), r.sp[2])
    /\ r.cpl = 0 => F = KernelFrame(r.ip, Flags(r))
Levelled(r) ==
    /\ r.cpl \in {0, 3} /\ (r.cpl = 0 => ~r.vm /\ RPL(r.sel["cs"]) # 3)
    /\ ~r.vm /\ r.cpl = 3 => RPL(r.sel["cs"]) = 3
FrameShown(m, o, n, ws, c) ==
    FrameOn(m, o, c, n) /\ Len(c) = n + Len(ws) /\ Shows(m.reg, Frame(c, n + 3))

\* What an interrupt pushes is a frame of the registers that it interrupts.
LEMMA FrameUpon ==
  ASSUME NEW m, Levelled(m.reg), NEW o, NEW b, NEW n, SpotOf(m, o, b, n),
         NEW codes, MayBeCode(codes)
  PROVE  FrameShown(m, o, n, FrameWords(m.reg) \o codes, b \o (FrameWords(m.reg) \o codes))
<1> DEFINE r == m.reg
           f == Flags(r)
           cs == r.sel["cs"]
           ip == r.ip
           ws == FrameOf(f, cs, ip) \o codes
           d == n + 3
           c == b \o ws
<1> USE DEF Levelled
<1>0. f.vm = r.vm
  BY DEF Flags
<1>1. c = b \o ws /\ ws = FrameWords(r) \o codes
  BY DEF FrameWords, FrameOf
<1>2. Fits(b, n, f, cs) /\ n \in Nat
  BY <1>0 DEF SpotOf, Fits
<1> HIDE DEF f, cs, ip, c
<1>3. Stacked(b, f, cs, ip, c, n) /\ Len(c) = n + Len(ws)
  <2>1. Upon(b, f, cs, ip, ws, b \o ws, n)
    BY <1>2, OnTop
  <2> HIDE DEF ws
  <2>2. Upon(b, f, cs, ip, ws, c, n)
    BY <1>1, <2>1 DEF c
  <2> QED
    BY <2>2 DEF Upon
<1> HIDE DEF ws
<1>4. FrameOn(m, o, c, n)
  <2>1. Frames(b, n) = Frames(m.stack[o], Len(m.stack[o]))
    BY DEF SpotOf
  <2> QED
    BY <1>2, <1>3, <2>1 DEF Stacked, FrameOn
<1>5. d - 2 = n + 1 /\ d - 1 = n + 2 /\ d - 3 = n
  BY <1>2
<1>6. c[d - 2][2] = f /\ c[d - 1][2] = cs /\ c[d][2] = ip
  <2>1. c[n + 1] = <<"eflags", f>> /\ c[n + 2] = <<"cs", cs>> /\ c[d] = <<"eip", ip>>
    BY <1>3 DEF Stacked
  <2>2. c[d - 2] = c[n + 1] /\ c[d - 1] = c[n + 2]
    BY <1>5
  <2> HIDE DEF d
  <2> QED
    BY <2>1, <2>2
<1>7. r.vm => Frame(c, d) = VmFrameOf(ip, f, r.sp[2], r.sel["ds"], r.sel["es"])
  <2> SUFFICES ASSUME r.vm PROVE Frame(c, d) = VmFrameOf(ip, f, r.sp[2], r.sel["ds"], r.sel["es"])
    OBVIOUS
  <2>1. n = 4 /\ b[1][2] = r.sel["ds"] /\ b[2][2] = r.sel["es"] /\ b[4] = <<"esp", r.sp>>
    BY DEF SpotOf
  <2>2. c[1] = b[1] /\ c[2] = b[2] /\ c[4] = b[4]
    <3>1. 1 \in 1 .. n /\ 2 \in 1 .. n /\ 4 \in 1 .. n
      BY <2>1
    <3> QED
      BY <1>3, <3>1 DEF Stacked
  <2>3. d - 6 = 1 /\ d - 5 = 2 /\ d - 3 = 4
    BY <2>1
  <2>4. c[d - 6][2] = r.sel["ds"] /\ c[d - 5][2] = r.sel["es"] /\ c[d - 3][2][2] = r.sp[2]
    <3>1. c[d - 6] = c[1] /\ c[d - 5] = c[2] /\ c[d - 3] = c[4]
      BY <2>3
    <3> HIDE DEF d
    <3> QED
      BY <2>1, <2>2, <3>1
  <2> HIDE DEF d, r
  <2>5. Frame(c, d) = VmFrameOf(c[d][2], c[d - 2][2], c[d - 3][2][2], c[d - 6][2], c[d - 5][2])
    BY <1>0, <1>6, FrameIs DEF r
  <2> QED
    BY <1>6, <2>4, <2>5
<1>8. ~r.vm /\ r.cpl = 3 => Frame(c, d) = UserFrameOf(ip, f, r.sp[2])
  <2> SUFFICES ASSUME ~r.vm, r.cpl = 3 PROVE Frame(c, d) = UserFrameOf(ip, f, r.sp[2])
    OBVIOUS
  <2>1. n = 2 /\ b[2] = <<"esp", r.sp>> /\ RPL(cs) = 3
    BY DEF SpotOf, cs
  <2>2. c[2] = b[2]
    BY <1>3, <2>1 DEF Stacked
  <2>3. d - 3 = 2
    BY <2>1
  <2>4. c[d - 3][2][2] = r.sp[2]
    <3>1. c[d - 3] = c[2]
      BY <2>3
    <3> HIDE DEF d
    <3> QED
      BY <2>1, <2>2, <3>1
  <2> HIDE DEF d, r
  <2>5. Frame(c, d) = UserFrameOf(c[d][2], c[d - 2][2], c[d - 3][2][2])
    BY <1>0, <1>6, <2>1, FrameIs DEF r
  <2> QED
    BY <1>6, <2>4, <2>5
<1>9. r.cpl = 0 => Frame(c, d) = KernelFrame(ip, f)
  <2> SUFFICES ASSUME r.cpl = 0 PROVE Frame(c, d) = KernelFrame(ip, f)
    OBVIOUS
  <2>1. ~f.vm /\ RPL(cs) # 3
    BY <1>0 DEF cs
  <2> HIDE DEF d, r
  <2>2. Frame(c, d) = KernelFrame(c[d][2], c[d - 2][2])
    BY <1>6, <2>1, FrameIs
  <2> QED
    BY <1>6, <2>2
<1>10. Shows(r, Frame(c, d))
  BY <1>7, <1>8, <1>9 DEF f, ip, Shows
<1>11. FrameShown(m, o, n, ws, c)
  BY <1>3, <1>4, <1>10 DEF FrameShown
<1> QED
  BY <1>1, <1>11

-----------------------------------------------------------------------------
(***************************************************************************)
(* Interrupts and faults.                                                  *)
(***************************************************************************)
\* The registers with which a handler is entered: those of the state, or the same
\* with a selector in ES that could not be loaded.
Enters(r) ==
    /\ IsRegs(r) /\ r.cpl = reg.cpl /\ r.vm = reg.vm /\ r.sp = reg.sp /\ r.ip = reg.ip
    /\ r.if = reg.if /\ r.nt = reg.nt /\ r.desc = reg.desc
    /\ Ids(r) = Ids(reg) /\ General(r) = General(reg)
    /\ \A o \in SegRegs \ {"es"} : r.sel[o] = reg.sel[o]
    /\ r.sel["es"] = reg.sel["es"] \/ (~reg.vm /\ reg.cpl = 3 /\ r.sel["es"] = "UXS")

\* What the frame says is what was interrupted.
LEMMA FrameInterrupted ==
  ASSUME CachesInv, StackInv, NEW r, Enters(r), NEW F,
         r.vm => F = VmFrameOf(r.ip, Flags(r), r.sp[2], r.sel["ds"], r.sel["es"]),
         ~r.vm /\ r.cpl = 3 => F = UserFrameOf(r.ip, Flags(r), r.sp[2]),
         r.cpl = 0 => F = KernelFrame(r.ip, Flags(r))
  PROVE  F = Contexts!Interrupted(Running(reg))
<1> DEFINE c == Running(reg)
<1>1. /\ r.cpl = reg.cpl /\ r.vm = reg.vm /\ r.sp = reg.sp /\ r.ip = reg.ip /\ r.if = reg.if /\ r.nt = reg.nt
      /\ r.sel["ds"] = reg.sel["ds"]
  BY DEF Enters, SegRegs
<1>2. c.ip = r.ip /\ c.if = r.if /\ c.nt = r.nt /\ c.sp = DepthOf(reg) /\ c.level = LevelOf(reg)
      /\ c.ds = reg.desc["ds"].of /\ c.es = EsOf(reg)
  BY <1>1, RunningIs
<1>3. Flags(r).if = r.if /\ Flags(r).nt = r.nt
  BY DEF Flags
<1>4. IsContext(c)
  BY AreContexts
<1>5. CASE r.vm
  <2>1. /\ reg.cpl = 3 /\ reg.vm /\ Agrees(reg, "ds") /\ Agrees(reg, "es") /\ r.sel["es"] = reg.sel["es"]
    BY <1>1, <1>5, Levels DEF StackInv, DataInv, Enters
  <2>2. reg.desc["ds"].of = RealDesc(r.sel["ds"]).of /\ EsOf(reg) = RealDesc(r.sel["es"]).of
    BY <1>1, <2>1 DEF Agrees, DescOf, EsOf
  <2>3. c.level = "vm" /\ c.sp = r.sp[2]
    BY <1>1, <1>2, <2>1 DEF LevelOf, DepthOf
  <2>4. IsContext(F) /\ SameIn(Fields, c, F)
    <3> DEFINE G == VmFrameOf(r.ip, Flags(r), r.sp[2], r.sel["ds"], r.sel["es"])
    <3>1. IsContext(G) /\ G.level = "vm" /\ G.ip = r.ip /\ G.if = r.if /\ G.nt = r.nt /\ G.sp = r.sp[2]
          /\ G.ds = RealDesc(r.sel["ds"]).of /\ G.es = RealDesc(r.sel["es"]).of
      BY <1>3 DEF VmFrameOf, IsContext, Fields
    <3>2. F = G
      BY <1>5
    <3> HIDE DEF G, c
    <3> QED
      BY <1>2, <2>2, <2>3, <3>1, <3>2 DEF SameIn, Fields
  <2> HIDE DEF c
  <2>5. F = c
    BY <1>4, <2>4, SameFields
  <2> QED
    BY <2>3, <2>5 DEF c, Contexts!Interrupted
<1> DEFINE I == [c EXCEPT !.ds = InHandler, !.es = InHandler]
<1>6. ASSUME NEW level, level # "vm", c.level = level, NEW sp, c.sp = sp,
             NEW G, G = [level |-> level, ip |-> r.ip, if |-> r.if, nt |-> r.nt, sp |-> sp,
                         ds |-> InHandler, es |-> InHandler]
      PROVE  G = Contexts!Interrupted(c)
  <2>1. IsContext(G) /\ G.level = level /\ G.ip = r.ip /\ G.if = r.if /\ G.nt = r.nt /\ G.sp = sp
        /\ G.ds = InHandler /\ G.es = InHandler
    BY <1>6 DEF IsContext, Fields
  <2> HIDE DEF c
  <2>2. /\ IsContext(I) /\ I.level = c.level /\ I.ip = c.ip /\ I.if = c.if /\ I.nt = c.nt /\ I.sp = c.sp
        /\ I.ds = InHandler /\ I.es = InHandler
    <3>1. c = [z \in Fields |-> c[z]]
      BY <1>4 DEF IsContext
    <3> QED
      BY <3>1 DEF IsContext, Fields
  <2>3. Contexts!Interrupted(c) = I
    BY <1>6 DEF Contexts!Interrupted
  <2> HIDE DEF I
  <2>4. SameIn(Fields, I, G)
    BY <1>2, <1>6, <2>1, <2>2 DEF SameIn, Fields
  <2>5. G = I
    BY <2>1, <2>2, <2>4, SameFields
  <2> QED
    BY <2>3, <2>5
<1>7. CASE ~r.vm /\ r.cpl = 3
  <2>1. c.level = "user" /\ c.sp = r.sp[2]
    BY <1>1, <1>2, <1>7 DEF LevelOf, DepthOf
  <2>2. F = [level |-> "user", ip |-> r.ip, if |-> r.if, nt |-> r.nt, sp |-> r.sp[2],
             ds |-> InHandler, es |-> InHandler]
    BY <1>3, <1>7 DEF UserFrameOf
  <2> HIDE DEF c
  <2> QED
    BY <1>6, <2>1, <2>2 DEF c
<1>8. CASE r.cpl = 0
  <2>1. c.level = "kernel" /\ c.sp = 0
    BY <1>1, <1>2, <1>8, Levels DEF LevelOf, DepthOf
  <2>2. F = [level |-> "kernel", ip |-> r.ip, if |-> r.if, nt |-> r.nt, sp |-> 0,
             ds |-> InHandler, es |-> InHandler]
    BY <1>3, <1>8 DEF KernelFrame
  <2> HIDE DEF c
  <2> QED
    BY <1>6, <2>1, <2>2 DEF c
<1> QED
  BY <1>1, <1>5, <1>7, <1>8, Levels

\* The handler's context.
LEMMA HandlerStarts ==
  ASSUME CachesInv, StackInv, NEW r, Enters(r), NEW q, Handling(r, q), q.ip = 0
  PROVE  /\ DataInv(q)
         /\ \E es \in {Running(reg).es, ToBeLoaded} :
               Running(q) = Contexts!Handler([Running(reg) EXCEPT !.es = es], Running(q).if)
<1> DEFINE c == Running(reg)
           d == Running(q)
<1>1. /\ IsRegs(q) /\ q.dldt = reg.dldt /\ q.cpl = 0 /\ q.vm = FALSE /\ q.nt = FALSE
      /\ r.cpl = reg.cpl /\ r.vm = reg.vm /\ r.desc = reg.desc /\ r.sel["ds"] = reg.sel["ds"]
      /\ r.sel["es"] = reg.sel["es"] \/ (~reg.vm /\ reg.cpl = 3 /\ r.sel["es"] = "UXS")
  BY DEF Handling, Enters, Ids, SegRegs
<1>2. /\ d.level = "kernel" /\ d.ip = 0 /\ d.nt = FALSE /\ d.sp = 0
      /\ d.ds = q.desc["ds"].of /\ d.es = EsOf(q)
  BY <1>1, RunningIs DEF LevelOf, DepthOf
<1>3. c.ds = reg.desc["ds"].of /\ c.es = EsOf(reg) /\ c.level = LevelOf(reg)
  BY RunningIs
<1>4. IsContext(c) /\ IsContext(d)
  BY AreContexts
<1>5. CASE reg.vm
  <2>0. reg.cpl = 3
    BY <1>5, Levels
  <2>1. \A o \in {"ds", "es"} : q.sel[o] = "null" /\ Agrees(q, o)
    BY <1>1, <1>5, <2>0 DEF Handling
  <2>2. \A o \in {"ds", "es"} : q.desc[o] = RawDesc("null", q.dldt) /\ q.desc[o].of = <<None, "null">>
    <3>1. \A o \in {"ds", "es"} : q.desc[o] = RawDesc("null", q.dldt)
      BY <1>1, <2>1 DEF Agrees, DescOf
    <3>2. RawDesc("null", q.dldt).of = <<None, "null">>
      BY DEF RawDesc, LdtSelectors
    <3> QED
      BY <3>1, <3>2
  <2>3. DataInv(q)
    BY <2>1, <2>2 DEF DataInv, IsData, DataSelectors
  <2>4. EsOf(q) = <<None, "null">>
    BY <2>1, <2>2 DEF EsOf
  <2>5. d = Contexts!Handler([c EXCEPT !.es = c.es], d.if)
    <3> DEFINE e == [c EXCEPT !.es = c.es]
               h == [level |-> "kernel", ip |-> 0, sp |-> 0, if |-> d.if, nt |-> FALSE,
                     ds |-> <<None, "null">>, es |-> <<None, "null">>]
    <3>1. c.level = "vm"
      BY <1>3, <1>5 DEF LevelOf
    <3> HIDE DEF c
    <3>2. e.level = "vm"
      <4>1. c = [z \in Fields |-> c[z]]
        BY <1>4 DEF IsContext
      <4> QED
        BY <3>1, <4>1 DEF Fields
    <3> HIDE DEF e, d
    <3>3. Contexts!Handler(e, d.if) = h
      BY <3>2 DEF Contexts!Handler
    <3>4. IsContext(h) /\ h.level = "kernel" /\ h.ip = 0 /\ h.sp = 0 /\ h.if = d.if /\ h.nt = FALSE
          /\ h.ds = <<None, "null">> /\ h.es = <<None, "null">>
      BY DEF IsContext, Fields
    <3> HIDE DEF h
    <3>5. SameIn(Fields, h, d)
      BY <1>2, <2>2, <2>4, <3>4 DEF SameIn, Fields
    <3>6. d = h
      BY <1>4, <3>4, <3>5, SameFields
    <3> QED
      BY <3>3, <3>6 DEF e
  <2> QED
    BY <2>3, <2>5
<1>6. CASE ~reg.vm
  <2>1. \A o \in {"ds", "es"} : q.sel[o] = r.sel[o] /\ q.desc[o] = reg.desc[o]
    BY <1>1, <1>6 DEF Handling
  <2>2. IsData(reg, "ds") /\ IsData(reg, "es") /\ (Agrees(reg, "es") \/ reg.sel["es"] = "UXS")
    BY <1>6 DEF StackInv, DataInv
  <2>3. q.sel["ds"] = reg.sel["ds"] /\ (q.sel["es"] = reg.sel["es"] \/ q.sel["es"] = "UXS")
    BY <1>1, <2>1
  <2>4. IsData(q, "ds") /\ IsData(q, "es")
    BY <1>1, <2>1, <2>2, <2>3 DEF IsData, DataSelectors, LdtSelectors
  <2>5. q.sel["es"] = reg.sel["es"] => (Agrees(q, "es") <=> Agrees(reg, "es"))
    BY <1>1, <1>6, <2>1 DEF Agrees, DescOf
  <2>6. DataInv(q)
    BY <1>1, <2>2, <2>3, <2>4, <2>5 DEF DataInv
  <2>7. EsOf(q) \in {EsOf(reg), ToBeLoaded}
    <3>1. CASE Agrees(reg, "es")
      BY <2>1, <3>1 DEF EsOf
    <3>2. CASE ~Agrees(reg, "es")
      <4>1. ~Agrees(q, "es")
        BY <2>2, <2>3, <2>5, <3>2
      <4> QED
        BY <4>1 DEF EsOf
    <3> QED
      BY <3>1, <3>2
  <2>8. d.ds = c.ds /\ d.es \in {c.es, ToBeLoaded}
    BY <1>2, <1>3, <2>1, <2>7
  <2>9. c.level # "vm"
    BY <1>3, <1>6 DEF LevelOf
  <2>10. d = Contexts!Handler([c EXCEPT !.es = d.es], d.if)
    <3> DEFINE e == [c EXCEPT !.es = d.es]
               h == [level |-> "kernel", ip |-> 0, sp |-> 0, if |-> d.if, nt |-> FALSE,
                     ds |-> c.ds, es |-> d.es]
    <3> HIDE DEF c, d
    <3>2. e.level # "vm" /\ e.ds = c.ds /\ e.es = d.es
      <4>1. c = [z \in Fields |-> c[z]]
        BY <1>4 DEF IsContext
      <4> QED
        BY <2>9, <4>1 DEF Fields
    <3> HIDE DEF e
    <3>3. Contexts!Handler(e, d.if) = h
      BY <3>2 DEF Contexts!Handler
    <3>4. IsContext(h) /\ h.level = "kernel" /\ h.ip = 0 /\ h.sp = 0 /\ h.if = d.if /\ h.nt = FALSE
          /\ h.ds = c.ds /\ h.es = d.es
      BY DEF IsContext, Fields
    <3> HIDE DEF h
    <3>5. SameIn(Fields, h, d)
      BY <1>2, <2>8, <3>4 DEF SameIn, Fields
    <3>6. d = h
      BY <1>4, <3>4, <3>5, SameFields
    <3> QED
      BY <3>3, <3>6 DEF e
  <2> QED
    BY <2>6, <2>8, <2>10
<1> QED
  BY <1>5, <1>6

\* Entering a handler, of the state or of the state with ES torn.
LEMMA EnterImplements ==
  ASSUME CachesInv, StackInv, Booted, NEW m, IsMac(m), Enters(m.reg), m.stack = stack, m.tss = tss,
         NEW gate, NEW codes, MayBeCode(codes), Set(EnterINT(m, gate, codes))
  PROVE  StackInv' /\ Contexts!Interrupt
<1> DEFINE r == m.reg
           n == EnterINT(m, gate, codes)
           o == Current
           b == Below(m)
           k == Len(b)
           ws == FrameWords(r) \o codes
           c == b \o ws
           F == Frame(c, k + 3)
<1>1. /\ r.cpl \in {0, 3} /\ (r.cpl = 0 => ~r.vm) /\ r.cpl = reg.cpl /\ r.vm = reg.vm /\ r.sp = reg.sp
      /\ r.dtr = reg.tr /\ reg.tr # None /\ o = reg.tr /\ r.sel["cs"] = reg.sel["cs"]
      /\ r.if = reg.if
  BY Levels DEF Enters, Ids, Booted, Current, SegRegs
<1>2. /\ r.cpl = 0 => RPL(r.sel["cs"]) # 3
      /\ ~r.vm /\ r.cpl = 3 => RPL(r.sel["cs"]) = 3
  BY <1>1, Levels
<1>3. o \in Tasks /\ DOMAIN stack = Tasks /\ IsStack(stack[o])
      /\ IF r.cpl = 0 THEN r.sp = <<o, Len(stack[o])>> /\ stack[o] # << >> ELSE stack[o] = << >>
  BY <1>1, Shapes DEF StackInv, RunningInv, Shape
<1>4. Entered(m, gate, codes, n)
  BY <1>1, EnterFields
<1>5. Gated(r, gate).if => r.if
  <2> DEFINE i == r.if /\ gate = "trap"
  <2>1. Gated(r, gate) = [r EXCEPT !.if = i, !.nt = FALSE, !.vm = FALSE]
    BY DEF Gated
  <2>2. "if" \in DOMAIN r /\ (i => r.if)
    BY DEF IsMac, IsRegs, RegNames
  <2> HIDE DEF i, r
  <2> QED
    BY <2>1, <2>2
<1>6. reg' = n.reg /\ stack' = n.stack /\ tss' = n.tss
  BY DEF Set
<1> HIDE DEF n
<1>7. SpotOf(m, o, b, k)
  <2>1. IsStack(m.stack[o]) /\ m.reg.dtr = o
        /\ IF m.reg.cpl = 0 THEN m.reg.sp = <<o, Len(m.stack[o])>> /\ m.stack[o] # << >>
           ELSE m.stack[o] = << >>
    BY <1>1, <1>3
  <2> HIDE DEF o
  <2> QED
    BY <1>1, <2>1, BelowIs
<1>8. /\ FrameOn(m, o, c, k) /\ Len(c) = k + Len(ws)
      /\ r.vm => F = VmFrameOf(r.ip, Flags(r), r.sp[2], r.sel["ds"], r.sel["es"])
      /\ ~r.vm /\ r.cpl = 3 => F = UserFrameOf(r.ip, Flags(r), r.sp[2])
      /\ r.cpl = 0 => F = KernelFrame(r.ip, Flags(r))
  <2>1. Levelled(r)
    BY <1>1, <1>2 DEF Levelled
  <2> HIDE DEF b, k, o
  <2>2. FrameShown(m, o, k, ws, b \o ws)
    BY <1>7, <2>1, FrameUpon
  <2> QED
    BY <2>2 DEF FrameShown, Shows
<1>9. BelowSP(r)[1] = o /\ BelowSP(r)[2] = k
  BY <1>7 DEF SpotOf
<1> HIDE DEF b, k, ws, c
<1>10. stack' = [stack EXCEPT ![o] = c] /\ reg'.sp = <<o, Len(c)>>
       /\ Handling(r, reg') /\ reg'.ip = 0 /\ reg'.if = Gated(r, gate).if /\ tss' = tss
  <2>1. BelowSP(r)[1] \in DOMAIN m.stack
    BY <1>3, <1>9
  <2>2. n.stack = [m.stack EXCEPT ![BelowSP(r)[1]] = c] /\ n.reg.sp = <<BelowSP(r)[1], BelowSP(r)[2] + Len(ws)>>
    BY <1>4, <2>1 DEF Entered, b, ws, c
  <2>3. Handling(r, n.reg) /\ n.reg.ip = 0 /\ n.reg.if = Gated(r, gate).if /\ n.tss = m.tss
    BY <1>4 DEF Entered, Remaining
  <2> QED
    BY <1>6, <1>8, <1>9, <2>2, <2>3
<1>11. /\ Ids(reg') = Ids(reg) /\ reg'.ax = reg.ax /\ reg'.ts = reg.ts /\ reg'.cpl = 0
  BY <1>10 DEF Handling, Enters, Ids, General
<1>12. reg'.tr = reg.tr /\ Current' = Current
  BY <1>11 DEF Ids, Current
<1>13. DOMAIN stack' = DOMAIN stack /\ OthersKept /\ stack'[o] = c
  BY <1>3, <1>10 DEF OthersKept
<1>14. IsStack(c) /\ Len(c) > 0 /\ c # << >>
  BY <1>8 DEF FrameOn
<1>15. RunningInv'
  BY <1>10, <1>11, <1>12, <1>13, <1>14 DEF RunningInv
<1>16. /\ DataInv(reg')
       /\ \E es \in {Running(reg).es, ToBeLoaded} :
             Running(reg') = Contexts!Handler([Running(reg) EXCEPT !.es = es], Running(reg').if)
  <2> DEFINE q == reg'
  <2>1. Handling(r, q) /\ q.ip = 0 /\ Enters(r)
    BY <1>10
  <2> HIDE DEF q, r
  <2>2. /\ DataInv(q)
        /\ \E es \in {Running(reg).es, ToBeLoaded} :
             Running(q) = Contexts!Handler([Running(reg) EXCEPT !.es = es], Running(q).if)
    BY <2>1, HandlerStarts
  <2> QED
    BY <2>2 DEF q
<1>17. StackInv'
  BY <1>11, <1>13, <1>14, <1>15, <1>16, StaysInv
<1>18. F = Contexts!Interrupted(Running(reg))
  <2> HIDE DEF F, r
  <2> QED
    BY <1>8, FrameInterrupted DEF r
<1>19. Deep(Current)' = Append(Deep(Current), F)
  <2>1. Frames(c, Len(c)) = Append(Frames(stack[o], Len(stack[o])), F)
    BY <1>8 DEF FrameOn
  <2> QED
    BY <1>12, <1>13, <2>1 DEF Deep
<1>20. Running(reg').if => Running(reg).if
  BY <1>1, <1>5, <1>10, RunningIs
<1>21. PICK es \in {Running(reg).es, ToBeLoaded} :
             Running(reg') = Contexts!Handler([Running(reg) EXCEPT !.es = es], Running(reg').if)
  BY <1>16
<1>22. SameAxes
  BY <1>11, <1>13 DEF SameAxes
<1> QED
  BY <1>11, <1>12, <1>17, <1>18, <1>19, <1>20, <1>21, <1>22, InterruptRefines

\* An interrupt enters with the registers of the state.
LEMMA StateEnters == CachesInv => Enters(reg) /\ IsMac(State) /\ State.stack = stack /\ State.tss = tss
BY StateIsMac, Levels DEF Enters, State

\* An interrupt is Interrupt.
LEMMA InterruptImplements ==
  ASSUME CachesInv, StackInv, NEW gate, Interrupt(gate)
  PROVE  StackInv' /\ Contexts!Interrupt
<1> DEFINE m == State
           codes == << >>
<1>1. Booted /\ Set(EnterINT(m, gate, codes))
  BY DEF Interrupt, Kernel, User
<1>2. IsMac(m) /\ Enters(m.reg) /\ m.stack = stack /\ m.tss = tss /\ MayBeCode(codes)
  BY StateEnters, StateIsMac DEF MayBeCode
<1> HIDE DEF m, codes
<1> QED
  BY <1>1, <1>2, EnterImplements

\* So is a fault.
LEMMA FaultsImplement ==
  ASSUME CachesInv, StackInv, Booted, NEW m, IsMac(m), Enters(m.reg), m.stack = stack, m.tss = tss,
         Set(Faults(m))
  PROVE  StackInv' /\ Contexts!Interrupt
<1> DEFINE gate == "int"
           codes == << <<"code", 0>> >>
<1>1. Set(EnterINT(m, gate, codes)) /\ MayBeCode(codes)
  BY DEF Faults, MayBeCode, Code
<1> HIDE DEF gate, codes
<1> QED
  BY <1>1, EnterImplements

\* A load of ES that fails starts a handler that finds the register pending.
LEMMA LoadAbsentImplements ==
  ASSUME CachesInv, StackInv, LoadAbsent
  PROVE  StackInv' /\ Contexts!Interrupt
<1> DEFINE r == updateSegRegNP(reg, "es", "UXS")
           m == [State EXCEPT !.reg = r]
<1>1. /\ Booted /\ IsRegs(reg) /\ ~reg.vm /\ reg.cpl = 3
  BY Levels DEF LoadAbsent, User
<1>2. Set(Faults(m))
  BY DEF LoadAbsent, State
<1>3. Enters(r) /\ IsRegs(r)
  <2>1. r = [reg EXCEPT !.sel["es"] = "UXS"]
    BY DEF updateSegRegNP
  <2> HIDE DEF r
  <2>2. /\ IsRegs(r) /\ r.cpl = reg.cpl /\ r.vm = reg.vm /\ r.sp = reg.sp /\ r.ip = reg.ip
        /\ r.if = reg.if /\ r.nt = reg.nt /\ r.desc = reg.desc
        /\ Ids(r) = Ids(reg) /\ General(r) = General(reg)
        /\ \A o \in SegRegs \ {"es"} : r.sel[o] = reg.sel[o]
    BY <1>1, <2>1 DEF IsRegs, RegNames, Ids, General
  <2>3. r.sel["es"] = "UXS"
    BY <1>1, <2>1 DEF IsRegs, RegNames, SegRegs
  <2> QED
    BY <1>1, <2>2, <2>3 DEF Enters
<1> HIDE DEF r
<1>4. IsMac(m) /\ m.reg = r /\ m.stack = stack /\ m.tss = tss
  BY <1>3, StateIsMac DEF IsMac, State
<1> HIDE DEF m
<1> QED
  BY <1>1, <1>2, <1>3, <1>4, FaultsImplement

\* IRET to a task, with a link that is null, faults.
LEMMA IretNTFaultsImplements ==
  ASSUME CachesInv, StackInv, IretNTFaults
  PROVE  StackInv' /\ Contexts!Interrupt
BY StateEnters, StateIsMac, FaultsImplement DEF IretNTFaults, Kernel

\* A JMP to a TSS in user mode faults, and leaves a mark that is in no context.
LEMMA JmpRefusedImplements ==
  ASSUME CachesInv, StackInv, NEW t, JmpRefused(t)
  PROVE  StackInv' /\ Contexts!Interrupt
<1> DEFINE l == loadTaskRegister(State, t, TRUE, None)
           m == IF t \in busy THEN State ELSE l
<1>1. Booted /\ Set(Faults(m)) /\ IsMac(State) /\ State.reg = reg /\ State.tss = tss /\ State.stack = stack
  BY StateEnters, StateIsMac DEF JmpRefused, User
<1>2. IsMac(l) /\ l.reg = reg /\ l.tss = tss /\ l.stack = stack
  <2> DEFINE b == State.busy \cup {t}
             k == [u \in Tasks |-> IF u = State.reg.dtr /\ None # None THEN None ELSE State.link[u]]
  <2>1. l = [State EXCEPT !.busy = b, !.link = k]
    BY DEF loadTaskRegister
  <2> HIDE DEF b, k, l
  <2> QED
    BY <1>1, <2>1 DEF IsMac, State
<1> HIDE DEF l
<1>3. IsMac(m) /\ m.reg = reg /\ m.tss = tss /\ m.stack = stack
  BY <1>1, <1>2
<1> HIDE DEF m
<1>4. Enters(m.reg)
  BY <1>3, StateEnters
<1> QED
  BY <1>1, <1>3, <1>4, FaultsImplement

-----------------------------------------------------------------------------
(***************************************************************************)
(* Returns.                                                                *)
(***************************************************************************)
\* What a pop by IRET does to the contexts: the last frame goes.
FramePopped(k, F) ==
    /\ DOMAIN stack' = DOMAIN stack /\ OthersKept
    /\ IsStack(stack'[Current]) /\ Len(stack'[Current]) = Len(stack[Current]) - k
    /\ Len(stack[Current]) \in Nat
    /\ Deep(Current) = Append(Frames(stack'[Current], Len(stack'[Current])), F)

\* If the words that a return takes off are those of the last frame, the context
\* that goes is that frame's.
LEMMA PopsFrame ==
  ASSUME CachesInv, StackInv, reg.cpl = 0, tss' = tss, NEW n, n = Len(stack[Current]), n > 0,
         NEW k \in {3, 5, 7}, k <= n, stack[Current][n][1] = "eip",
         \A d \in (n - k) + 1 .. n - 1 : stack[Current][d][1] # "eip",
         Forgot(State, k, stack')
  PROVE  FramePopped(k, Frame(stack[Current], n))
<1> DEFINE st == stack[Current]
<1>1. n \in Nat /\ k \in Nat /\ n - k \in Nat /\ n - 1 \in Nat /\ n - k <= n - 1 /\ (n - 1) + 1 = n
  BY Shapes DEF StackInv, IsStack, IsSeq, Shape
<1>2. /\ DOMAIN stack' = DOMAIN stack /\ \A u \in Tasks \ {Current} : stack'[u] = stack[u]
      /\ IsStack(stack'[Current]) /\ Len(stack'[Current]) = n - k
      /\ Frames(stack'[Current], n - k) = Frames(st, n - k)
  BY <1>1, TakenOff
<1>3. Frames(st, n - 1) = Frames(st, n - k)
  <2> DEFINE i == n - k
             j == n - 1
  <2>1. i \in Nat /\ j \in Nat /\ i <= j /\ \A d \in i + 1 .. j : st[d][1] # "eip"
    BY <1>1
  <2> HIDE DEF i, j, st
  <2>2. Frames(st, j) = Frames(st, i)
    BY <2>1, FramesQuiet
  <2> QED
    BY <2>2 DEF i, j
<1>4. Frames(st, n) = Append(Frames(st, n - 1), Frame(st, n))
  <2> DEFINE j == n - 1
  <2>1. j \in Nat /\ j + 1 = n /\ st[j + 1][1] = "eip"
    BY <1>1
  <2> HIDE DEF j, st
  <2>2. Frames(st, j + 1) = Append(Frames(st, j), Frame(st, j + 1))
    BY <2>1, FramesStep
  <2> QED
    BY <2>1, <2>2 DEF j
<1>5. Deep(Current) = Append(Frames(stack'[Current], n - k), Frame(st, n))
  BY <1>2, <1>3, <1>4 DEF Deep
<1> QED
  BY <1>1, <1>2, <1>5 DEF FramePopped, OthersKept

\* The frame on top, by its words.
TopFrame(F) ==
    /\ Word(State, 2)[2].vm
         => F = VmFrameOf(Word(State, 0)[2], Word(State, 2)[2], Word(State, 3)[2][2],
                          Word(State, 6)[2], Word(State, 5)[2])
    /\ ~Word(State, 2)[2].vm /\ RPL(Word(State, 1)[2]) = 3
         => F = UserFrameOf(Word(State, 0)[2], Word(State, 2)[2], Word(State, 3)[2][2])
    /\ ~Word(State, 2)[2].vm /\ RPL(Word(State, 1)[2]) # 3
         => F = KernelFrame(Word(State, 0)[2], Word(State, 2)[2])
WordsOf(vm, user, k, n) ==
    /\ k \in {3, 5, 7} /\ k <= n
    /\ vm => k = 7 /\ n = 7
    /\ ~vm /\ user => k = 5 /\ n = 5
    /\ ~vm /\ ~user => k = 3 /\ n > 3

\* When IRET runs, the last frame is on top, and has as many words as IRET takes.
LEMMA FrameAtTop ==
  ASSUME CachesInv, StackInv, Iret
  PROVE  \E n : /\ n = Len(stack[Current]) /\ n > 0 /\ n \in Nat /\ reg.sp = <<Current, n>>
                /\ stack[Current][n][1] = "eip"
                /\ TopFrame(Frame(stack[Current], n))
                /\ \E k : /\ WordsOf(Word(State, 2)[2].vm, RPL(Word(State, 1)[2]) = 3, k, n)
                          /\ \A d \in (n - k) + 1 .. n - 1 : stack[Current][d][1] # "eip"
<1> DEFINE st == stack[Current]
           n == Len(st)
           f == Word(State, 2)[2]
           cs == Word(State, 1)[2]
           user == RPL(cs) = 3
<1>1. reg.cpl = 0 /\ Booted
  BY DEF Iret, Kernel
<1>2. reg.sp = <<Current, n>> /\ st # << >> /\ IsStack(st) /\ n \in Nat /\ n > 0
  <2>1. reg.sp = <<Current, n>> /\ st # << >> /\ IsStack(st)
    BY <1>1, Shapes DEF StackInv, RunningInv, Shape
  <2> HIDE DEF st
  <2> QED
    BY <2>1 DEF IsStack, IsSeq
<1>3. \A i : Word(State, i) = st[n - i]
  BY <1>2 DEF Word, State
<1>4. st[n][1] = "eip"
  BY <1>2, <1>3 DEF Iret
<1>5. f = st[n - 2][2] /\ cs = st[n - 1][2]
  BY <1>3
<1> HIDE DEF f, cs
<1>6. /\ n > 3 /\ st[n - 1][1] # "eip" /\ st[n - 2][1] # "eip"
      /\ f.vm => n = 7 /\ \A i \in 1 .. 6 : st[i][1] # "eip"
      /\ ~f.vm /\ user => n = 5 /\ \A i \in 1 .. 4 : st[i][1] # "eip"
  <2>1. Placed(st, n)
    BY <1>2 DEF IsStack, Framed
  <2> HIDE DEF st, n
  <2> QED
    BY <1>4, <1>5, <2>1 DEF Placed
<1>7. TopFrame(Frame(st, n))
  <2> DEFINE w(i) == Word(State, i)
  <2>1. w(0) = st[n] /\ w(1) = st[n - 1] /\ w(2) = st[n - 2] /\ w(3) = st[n - 3]
        /\ w(5) = st[n - 5] /\ w(6) = st[n - 6]
    BY <1>2, <1>3
  <2> HIDE DEF st, n, w
  <2>2. /\ w(2)[2].vm => Frame(st, n) = VmFrameOf(w(0)[2], w(2)[2], w(3)[2][2], w(6)[2], w(5)[2])
        /\ ~w(2)[2].vm /\ RPL(w(1)[2]) = 3 => Frame(st, n) = UserFrameOf(w(0)[2], w(2)[2], w(3)[2][2])
        /\ ~w(2)[2].vm /\ RPL(w(1)[2]) # 3 => Frame(st, n) = KernelFrame(w(0)[2], w(2)[2])
    BY <2>1, FrameIs
  <2> QED
    BY <2>2 DEF TopFrame, w
<1> HIDE DEF st, n, user
<1>8. \E k : WordsOf(f.vm, user, k, n) /\ \A d \in (n - k) + 1 .. n - 1 : st[d][1] # "eip"
  <2>1. CASE f.vm
    <3>1. WordsOf(f.vm, user, 7, n)
      BY <1>6, <2>1 DEF WordsOf
    <3>2. \A d \in (n - 7) + 1 .. n - 1 : st[d][1] # "eip"
      BY <1>6, <2>1
    <3> QED
      BY <3>1, <3>2
  <2>2. CASE ~f.vm /\ user
    <3>1. WordsOf(f.vm, user, 5, n)
      BY <1>6, <2>2 DEF WordsOf
    <3>2. \A d \in (n - 5) + 1 .. n - 1 : st[d][1] # "eip"
      BY <1>6, <2>2
    <3> QED
      BY <3>1, <3>2
  <2>3. CASE ~f.vm /\ ~user
    <3>1. WordsOf(f.vm, user, 3, n)
      BY <1>2, <1>6, <2>3 DEF WordsOf
    <3>2. \A d \in (n - 3) + 1 .. n - 1 : d = n - 1 \/ d = n - 2
      BY <1>2
    <3>3. \A d \in (n - 3) + 1 .. n - 1 : st[d][1] # "eip"
      BY <1>6, <3>2
    <3> QED
      BY <3>1, <3>3
  <2> QED
    BY <2>1, <2>2, <2>3
<1> QED
  BY <1>2, <1>4, <1>7, <1>8 DEF f, cs, user, n, st

\* What a context that goes on looks like.
LEMMA ResumedIs ==
  ASSUME NEW F, IsContext(F), NEW d, IsContext(d), NEW ds, NEW es
  PROVE  /\ F.level = "vm" /\ SameIn(Fields, F, d) => d = Contexts!Resumed(F, ds, es)
         /\ F.level # "vm" /\ SameIn({"level", "ip", "if", "nt", "sp"}, F, d)
            /\ d.ds = Contexts!Kept(F.level, ds) /\ d.es = Contexts!Kept(F.level, es)
              => d = Contexts!Resumed(F, ds, es)
<1>1. ASSUME F.level = "vm", SameIn(Fields, F, d) PROVE d = Contexts!Resumed(F, ds, es)
  <2>1. F = d
    BY <1>1, SameFields
  <2> QED
    BY <1>1, <2>1 DEF Contexts!Resumed
<1>2. ASSUME F.level # "vm", SameIn({"level", "ip", "if", "nt", "sp"}, F, d),
             NEW x, d.ds = x, NEW y, d.es = y
      PROVE  d = [F EXCEPT !.ds = x, !.es = y]
  <2>1. F = [z \in Fields |-> F[z]] /\ d = [z \in Fields |-> d[z]]
    BY DEF IsContext
  <2> QED
    BY <1>2, <2>1 DEF Fields, SameIn
<1>3. ASSUME F.level # "vm", SameIn({"level", "ip", "if", "nt", "sp"}, F, d),
             d.ds = Contexts!Kept(F.level, ds), d.es = Contexts!Kept(F.level, es)
      PROVE  d = Contexts!Resumed(F, ds, es)
  <2> DEFINE x == Contexts!Kept(F.level, ds)
             y == Contexts!Kept(F.level, es)
  <2>1. Contexts!Resumed(F, ds, es) = [F EXCEPT !.ds = x, !.es = y]
    BY <1>3 DEF Contexts!Resumed
  <2>2. d.ds = x /\ d.es = y
    BY <1>3
  <2> HIDE DEF x, y
  <2> QED
    BY <1>2, <1>3, <2>1, <2>2
<1> QED
  BY <1>1, <1>3

\* What every return has in common.
GoesBack(k, F) ==
    /\ tss' = tss /\ Ids(reg') = Ids(reg) /\ General(reg') = General(reg)
    /\ FramePopped(k, F)
Taken(es) == es = Running(reg).es \/ (Running(reg).es = ToBeLoaded /\ es = <<None, "null">>)

\* A return whose registers are those of the context that it takes off.
LEMMA Returning ==
  ASSUME CachesInv, StackInv, Booted, NEW k, NEW F, GoesBack(k, F),
         RunningInv', DataInv(reg'),
         NEW es, Taken(es), Running(reg') = Contexts!Resumed(F, Running(reg).ds, es)
  PROVE  StackInv' /\ Contexts!Return
<1>1. reg'.tr = reg.tr /\ Current' = Current /\ reg'.ax = reg.ax /\ reg'.ts = reg.ts
  BY DEF GoesBack, Ids, General, Current
<1>2. StackInv'
  BY StaysInv DEF GoesBack, FramePopped
<1>3. SameAxes
  BY <1>1 DEF SameAxes, GoesBack, FramePopped
<1>4. Deep(Current) = Append(Deep(Current)', F)
  BY <1>1 DEF Deep, GoesBack, FramePopped
<1> QED
  BY <1>1, <1>2, <1>3, <1>4, ReturnRefines DEF Taken

\* To an outer level the stack is left empty.
LEMMA EmptyStack ==
  ASSUME StackInv, NEW F, NEW k, GoesBack(k, F), reg'.cpl = 3, Len(stack[Current]) = k
  PROVE  RunningInv'
<1>1. Current' = Current
  BY DEF GoesBack, Ids, Current
<1>2. IsSeq(stack'[Current]) /\ Len(stack'[Current]) = 0
  BY DEF GoesBack, FramePopped, IsStack
<1>3. stack'[Current] = << >>
  <2> DEFINE s == stack'[Current]
  <2>1. PICK S : s \in Seq(S)
    BY <1>2 DEF IsSeq
  <2>2. Len(s) = 0
    BY <1>2
  <2> HIDE DEF s
  <2>3. s = << >>
    BY <2>1, <2>2
  <2> QED
    BY <2>3 DEF s
<1> QED
  BY <1>1, <1>3 DEF RunningInv

\* To virtual 8086 mode.
IsVm(F) == F = VmFrameOf(Word(State, 0)[2], Word(State, 2)[2], Word(State, 3)[2][2],
                         Word(State, 6)[2], Word(State, 5)[2])
\* IRET to virtual 8086 mode is Return: all segment registers come from the frame.
LEMMA BackToVM ==
  ASSUME CachesInv, StackInv, Booted, NEW F, GoesBack(7, F), Len(stack[Current]) = 7,
         NEW n, ReturnedToVM(State, n), reg' = n.reg, Word(State, 2)[2].vm = TRUE, IsVm(F)
  PROVE  StackInv' /\ Contexts!Return
<1> DEFINE w0 == Word(State, 0)[2]
           f == Word(State, 2)[2]
           w3 == Word(State, 3)[2]
           w5 == Word(State, 5)[2]
           w6 == Word(State, 6)[2]
           q == reg'
           d == Running(q)
<1>1. /\ q.cpl = 3 /\ q.vm = TRUE /\ q.if = f.if /\ q.nt = f.nt /\ q.ip = w0 /\ q.sp = w3
      /\ Agrees(q, "es") /\ Agrees(q, "ds") /\ q.sel["es"] = w5 /\ q.sel["ds"] = w6
  BY DEF ReturnedToVM, SegRegs
<1>2. F = VmFrameOf(w0, f, w3[2], w6, w5)
  BY DEF IsVm
<1> HIDE DEF w0, f, w3, w5, w6, q
<1>3. q.desc["es"].of = RealDesc(w5).of /\ q.desc["ds"].of = RealDesc(w6).of
  BY <1>1 DEF Agrees, DescOf
<1>4. /\ d.level = "vm" /\ d.ip = w0 /\ d.if = f.if /\ d.nt = f.nt /\ d.sp = w3[2]
      /\ d.ds = RealDesc(w6).of /\ d.es = RealDesc(w5).of /\ IsContext(d)
  <2>1. DepthOf(q) = w3[2] /\ EsOf(q) = RealDesc(w5).of
    BY <1>1, <1>3 DEF DepthOf, EsOf
  <2> QED
    BY <1>1, <1>3, <2>1, RunningIs, AreContexts
<1>5. /\ IsContext(F) /\ F.level = "vm" /\ F.ip = w0 /\ F.if = f.if /\ F.nt = f.nt /\ F.sp = w3[2]
      /\ F.ds = RealDesc(w6).of /\ F.es = RealDesc(w5).of
  BY <1>2 DEF VmFrameOf, IsContext, Fields
<1> HIDE DEF d
<1>6. SameIn(Fields, F, d)
  BY <1>4, <1>5 DEF SameIn, Fields
<1>7. d = Contexts!Resumed(F, Running(reg).ds, Running(reg).es)
  <2> DEFINE a == Running(reg).ds
             b == Running(reg).es
  <2> HIDE DEF a, b
  <2>1. d = Contexts!Resumed(F, a, b)
    BY <1>4, <1>5, <1>6, ResumedIs
  <2> QED
    BY <2>1 DEF a, b
<1>8. RunningInv'
  BY <1>1, EmptyStack DEF q
<1>9. DataInv(q)
  BY <1>1 DEF DataInv
<1>10. Taken(Running(reg).es)
  BY DEF Taken
<1> QED
  BY <1>7, <1>8, <1>9, <1>10, Returning DEF q, d

\* A data segment that was the kernel's is taken away; one of the task's own stays.
LEMMA OuterData ==
  ASSUME NEW r, IsData(r, "ds") /\ IsData(r, "es"), NEW q, ~r.vm, ~q.vm, q.dldt = r.dldt,
         NEW o \in {"ds", "es"},
         IF 3 > r.desc[o].dpl THEN q.sel[o] = "null" /\ Agrees(q, o)
         ELSE q.sel[o] = r.sel[o] /\ q.desc[o] = r.desc[o]
  PROVE  /\ IsData(q, o)
         /\ q.desc[o].of = Contexts!Kept("user", r.desc[o].of)
         /\ \/ Agrees(q, o) /\ q.desc[o].of = <<None, "null">>
            \/ /\ q.sel[o] = r.sel[o]
               /\ Agrees(q, o) <=> Agrees(r, o)
<1>1. PICK s \in DataSelectors : r.desc[o] = RawDesc(s, r.dldt)
  BY DEF IsData
<1>2. "null" \notin LdtSelectors /\ "KDS" \notin LdtSelectors
  BY DEF LdtSelectors
<1>3. CASE s \in {"null", "KDS"}
  <2>1. r.desc[o] = [of |-> <<None, s>>, dpl |-> 0]
    BY <1>1, <1>2, <1>3 DEF RawDesc
  <2>2. q.sel[o] = "null" /\ Agrees(q, o)
    BY <2>1
  <2>3. q.desc[o] = RawDesc("null", q.dldt)
    BY <2>2 DEF Agrees, DescOf
  <2>4. q.desc[o].of = <<None, "null">>
    BY <2>3 DEF RawDesc, LdtSelectors
  <2>5. IsData(q, o)
    BY <2>2, <2>3 DEF IsData, DataSelectors
  <2>6. r.desc[o].of = <<None, s>>
    BY <2>1
  <2>7. Contexts!Kept("user", r.desc[o].of) = <<None, "null">>
    BY <1>3, <2>6 DEF Contexts!Kept
  <2> QED
    BY <2>2, <2>4, <2>5, <2>7
<1>4. CASE s \in LdtSelectors
  <2>1. r.desc[o] = [of |-> <<r.dldt, s>>, dpl |-> 3]
    BY <1>1, <1>2, <1>4 DEF RawDesc
  <2>2. q.sel[o] = r.sel[o] /\ q.desc[o] = r.desc[o]
    BY <2>1
  <2>3. IsData(q, o)
    BY <2>2 DEF IsData
  <2>4. Agrees(q, o) <=> Agrees(r, o)
    BY <2>2 DEF Agrees, DescOf
  <2>5. r.desc[o].of = <<r.dldt, s>> /\ s # "KDS"
    BY <1>2, <1>4, <2>1
  <2>6. Contexts!Kept("user", r.desc[o].of) = r.desc[o].of
    BY <2>5 DEF Contexts!Kept
  <2> QED
    BY <2>2, <2>3, <2>4, <2>6
<1> QED
  BY <1>1, <1>3, <1>4 DEF DataSelectors

IsUser(F) == F = UserFrameOf(Word(State, 0)[2], Word(State, 2)[2], Word(State, 3)[2][2])

\* IRET to user mode is Return: the kernel's data segments are taken away.
LEMMA BackToUser ==
  ASSUME CachesInv, StackInv, Booted, reg.cpl = 0, NEW F, GoesBack(5, F), Len(stack[Current]) = 5,
         NEW n, ReturnedOut(State, n), reg' = n.reg, RPL(Word(State, 1)[2]) = 3, IsUser(F)
  PROVE  StackInv' /\ Contexts!Return
<1> DEFINE w0 == Word(State, 0)[2]
           f == Word(State, 2)[2]
           w3 == Word(State, 3)[2]
           q == reg'
           d == Running(q)
<1>0. State.reg = reg /\ ~reg.vm
  BY StateIsMac, Levels
<1>1. /\ q.cpl = 3 /\ ~q.vm /\ q.if = f.if /\ q.nt = f.nt /\ q.ip = w0 /\ q.sp = w3
      /\ \A o \in {"ds", "es"} :
            IF 3 > reg.desc[o].dpl THEN q.sel[o] = "null" /\ Agrees(q, o)
            ELSE q.sel[o] = reg.sel[o] /\ q.desc[o] = reg.desc[o]
  BY <1>0 DEF ReturnedOut
<1>2. F = UserFrameOf(w0, f, w3[2])
  BY DEF IsUser
<1>3. q.dldt = reg.dldt
  BY DEF GoesBack, Ids
<1> HIDE DEF w0, f, w3, q
<1>4. IsData(reg, "ds") /\ IsData(reg, "es") /\ (Agrees(reg, "es") \/ reg.sel["es"] = "UXS")
  BY <1>0 DEF StackInv, DataInv
<1>5. ASSUME NEW o \in {"ds", "es"}
      PROVE  /\ IsData(q, o)
             /\ q.desc[o].of = Contexts!Kept("user", reg.desc[o].of)
             /\ \/ Agrees(q, o) /\ q.desc[o].of = <<None, "null">>
                \/ /\ q.sel[o] = reg.sel[o]
                   /\ Agrees(q, o) <=> Agrees(reg, o)
  BY <1>0, <1>1, <1>3, <1>4, OuterData
<1>6. DataInv(q)
  BY <1>1, <1>4, <1>5 DEF DataInv
<1>7. Running(reg).ds = reg.desc["ds"].of /\ Running(reg).es = EsOf(reg)
  BY RunningIs
<1>8. \E es : Taken(es) /\ EsOf(q) = Contexts!Kept("user", es)
  <2>1. CASE Agrees(reg, "es")
    <3>1. EsOf(reg) = reg.desc["es"].of /\ EsOf(q) = q.desc["es"].of
      BY <1>5, <2>1 DEF EsOf
    <3>2. Taken(EsOf(reg)) /\ EsOf(q) = Contexts!Kept("user", EsOf(reg))
      BY <1>5, <1>7, <3>1 DEF Taken
    <3> QED
      BY <3>2
  <2>2. CASE ~Agrees(reg, "es") /\ Agrees(q, "es")
    <3>1. Taken(<<None, "null">>)
      BY <1>7, <2>2 DEF Taken, EsOf
    <3>2. EsOf(q) = <<None, "null">>
      BY <1>5, <2>2 DEF EsOf
    <3>3. Contexts!Kept("user", <<None, "null">>) = <<None, "null">>
      BY DEF Contexts!Kept
    <3> QED
      BY <3>1, <3>2, <3>3
  <2>3. CASE ~Agrees(reg, "es") /\ ~Agrees(q, "es")
    <3>1. Taken(ToBeLoaded)
      BY <1>7, <2>3 DEF Taken, EsOf
    <3>2. EsOf(q) = ToBeLoaded
      BY <2>3 DEF EsOf
    <3>3. Contexts!Kept("user", ToBeLoaded) = ToBeLoaded
      BY DEF Contexts!Kept, ToBeLoaded
    <3> QED
      BY <3>1, <3>2, <3>3
  <2> QED
    BY <2>1, <2>2, <2>3
<1>9. /\ d.level = "user" /\ d.ip = w0 /\ d.if = f.if /\ d.nt = f.nt /\ d.sp = w3[2]
      /\ d.ds = q.desc["ds"].of /\ d.es = EsOf(q) /\ IsContext(d)
  <2>1. DepthOf(q) = w3[2]
    BY <1>1 DEF DepthOf
  <2> QED
    BY <1>1, <2>1, RunningIs, AreContexts
<1>10. /\ IsContext(F) /\ F.level = "user" /\ F.ip = w0 /\ F.if = f.if /\ F.nt = f.nt /\ F.sp = w3[2]
  BY <1>2 DEF UserFrameOf, IsContext, Fields
<1> HIDE DEF d
<1>11. SameIn({"level", "ip", "if", "nt", "sp"}, F, d)
  BY <1>9, <1>10 DEF SameIn
<1>12. PICK es : Taken(es) /\ d.es = Contexts!Kept("user", es)
  BY <1>8, <1>9
<1>13. d.ds = Contexts!Kept("user", Running(reg).ds)
  BY <1>5, <1>7, <1>9
<1>14. d = Contexts!Resumed(F, Running(reg).ds, es)
  <2> DEFINE a == Running(reg).ds
  <2>1. F.level # "vm" /\ d.ds = Contexts!Kept(F.level, a) /\ d.es = Contexts!Kept(F.level, es)
    BY <1>10, <1>12, <1>13
  <2> HIDE DEF a
  <2>2. d = Contexts!Resumed(F, a, es)
    BY <1>9, <1>10, <1>11, <2>1, ResumedIs
  <2> QED
    BY <2>2 DEF a
<1>15. RunningInv'
  BY <1>1, EmptyStack DEF q
<1> QED
  BY <1>6, <1>12, <1>14, <1>15, Returning DEF q, d

\* To the handler below.
IsKernel(F) == F = KernelFrame(Word(State, 0)[2], Word(State, 2)[2])

\* IRET to the handler below is Return: it finds the data segments as they are.
LEMMA BackToKernel ==
  ASSUME CachesInv, StackInv, Booted, reg.cpl = 0, NEW F, GoesBack(3, F), Len(stack[Current]) > 3,
         reg.sp = <<Current, Len(stack[Current])>>,
         NEW n, ReturnedSame(State, n), reg' = n.reg, RPL(Word(State, 1)[2]) # 3, IsKernel(F)
  PROVE  StackInv' /\ Contexts!Return
<1> DEFINE w0 == Word(State, 0)[2]
           f == Word(State, 2)[2]
           q == reg'
           d == Running(q)
           len == Len(stack[Current])
<1>0. State.reg = reg /\ ~reg.vm /\ (RPL(Word(State, 1)[2]) = 0)
  BY StateIsMac, Levels DEF RPL
<1>1. /\ q.cpl = 0 /\ ~q.vm /\ q.if = f.if /\ q.nt = f.nt /\ q.ip = w0
      /\ q.sp = <<Current, len - 3>>
      /\ \A o \in {"ds", "es"} : q.sel[o] = reg.sel[o] /\ q.desc[o] = reg.desc[o]
  BY <1>0 DEF ReturnedSame
<1>2. F = KernelFrame(w0, f)
  BY DEF IsKernel
<1>3. q.dldt = reg.dldt /\ Current' = Current
  BY DEF GoesBack, Ids, Current
<1> HIDE DEF w0, f, q
<1>4. /\ Agrees(q, "es") <=> Agrees(reg, "es")
      /\ \A o \in {"ds", "es"} : IsData(reg, o) => IsData(q, o)
  BY <1>0, <1>1, <1>3 DEF Agrees, DescOf, IsData
<1>5. DataInv(q)
  BY <1>0, <1>1, <1>4 DEF StackInv, DataInv
<1>6. Running(reg).ds = reg.desc["ds"].of /\ Running(reg).es = EsOf(reg)
  BY RunningIs
<1>7. EsOf(q) = EsOf(reg)
  BY <1>1, <1>4 DEF EsOf
<1>8. /\ d.level = "kernel" /\ d.ip = w0 /\ d.if = f.if /\ d.nt = f.nt /\ d.sp = 0
      /\ d.ds = reg.desc["ds"].of /\ d.es = EsOf(reg) /\ IsContext(d)
  <2>1. DepthOf(q) = 0
    BY <1>1 DEF DepthOf
  <2> QED
    BY <1>1, <1>7, <2>1, RunningIs, AreContexts
<1>9. IsContext(F) /\ F.level = "kernel" /\ F.ip = w0 /\ F.if = f.if /\ F.nt = f.nt /\ F.sp = 0
  BY <1>2 DEF KernelFrame, IsContext, Fields
<1> HIDE DEF d
<1>10. SameIn({"level", "ip", "if", "nt", "sp"}, F, d)
  BY <1>8, <1>9 DEF SameIn
<1>11. d = Contexts!Resumed(F, Running(reg).ds, Running(reg).es)
  <2> DEFINE a == Running(reg).ds
             b == Running(reg).es
  <2>1. F.level # "vm" /\ d.ds = Contexts!Kept(F.level, a) /\ d.es = Contexts!Kept(F.level, b)
    BY <1>6, <1>8, <1>9 DEF Contexts!Kept
  <2> HIDE DEF a, b
  <2>2. d = Contexts!Resumed(F, a, b)
    BY <1>8, <1>9, <1>10, <2>1, ResumedIs
  <2> QED
    BY <2>2 DEF a, b
<1>12. RunningInv'
  <2>1. IsSeq(stack'[Current]) /\ Len(stack'[Current]) = len - 3 /\ len \in Nat
    BY DEF GoesBack, FramePopped, IsStack
  <2>2. len > 3
    OBVIOUS
  <2> HIDE DEF len
  <2>3. len - 3 # 0
    BY <2>1, <2>2
  <2>4. stack'[Current] # << >>
    BY <2>1, <2>3
  <2> QED
    BY <1>1, <1>3, <2>1, <2>4 DEF RunningInv, q
<1>13. Taken(Running(reg).es)
  BY DEF Taken
<1> QED
  BY <1>5, <1>11, <1>12, <1>13, Returning DEF q, d

\* IRET resumes what was interrupted.
LEMMA IretImplements ==
  ASSUME CachesInv, StackInv, Iret
  PROVE  StackInv' /\ Contexts!Return
<1> DEFINE m == exIRET(State)
           f == Word(State, 2)[2]
           cs == Word(State, 1)[2]
<1>1. Booted /\ reg.cpl = 0 /\ Set(m) /\ ~reg.vm
  BY Levels DEF Iret, Kernel
<1>2. IsMac(State) /\ State.reg = reg /\ State.tss = tss
  BY StateIsMac
<1>3. PICK n : /\ n = Len(stack[Current]) /\ n > 0 /\ n \in Nat /\ reg.sp = <<Current, n>>
               /\ stack[Current][n][1] = "eip"
               /\ TopFrame(Frame(stack[Current], n))
               /\ \E k : /\ WordsOf(f.vm, RPL(cs) = 3, k, n)
                         /\ \A d \in (n - k) + 1 .. n - 1 : stack[Current][d][1] # "eip"
  BY FrameAtTop
<1>4. PICK k : /\ WordsOf(f.vm, RPL(cs) = 3, k, n)
               /\ \A d \in (n - k) + 1 .. n - 1 : stack[Current][d][1] # "eip"
  BY <1>3
<1> DEFINE F == Frame(stack[Current], n)
<1>5. ASSUME Forgot(State, k, m.stack), Remaining(m) = Remaining(State),
             Ids(m.reg) = Ids(reg), General(m.reg) = General(reg)
      PROVE  GoesBack(k, F)
  <2>1. reg' = m.reg /\ stack' = m.stack /\ tss' = tss
    BY <1>1, <1>2, <1>5 DEF Set, Remaining
  <2>2. k \in {3, 5, 7} /\ k <= n
    BY <1>4 DEF WordsOf
  <2>3. Forgot(State, k, stack')
    BY <1>5, <2>1
  <2> HIDE DEF m
  <2>4. FramePopped(k, F)
    BY <1>1, <1>3, <1>4, <2>1, <2>2, <2>3, PopsFrame
  <2> QED
    BY <1>5, <2>1, <2>4 DEF GoesBack
<1>6. reg' = m.reg
  BY <1>1 DEF Set
<1>7. CASE f.vm
  <2>1. k = 7 /\ n = 7
    BY <1>4, <1>7 DEF WordsOf
  <2>2. ReturnedToVM(State, m)
    BY <1>2, <1>7, IretVMFields DEF exIRET
  <2> HIDE DEF m
  <2>3. GoesBack(7, F)
    BY <1>2, <1>5, <2>1, <2>2 DEF ReturnedToVM
  <2>4. IsVm(F)
    BY <1>3, <1>7 DEF TopFrame, IsVm
  <2>5. f.vm = TRUE
    <3>1. reg'.vm = f.vm
      BY <1>6, <2>2 DEF ReturnedToVM
    <3> QED
      BY <1>7
  <2> HIDE DEF F, f
  <2> QED
    BY <1>1, <1>3, <1>6, <2>1, <2>2, <2>3, <2>4, <2>5, BackToVM DEF f
<1>8. CASE ~f.vm /\ RPL(cs) = 3
  <2>1. k = 5 /\ n = 5
    BY <1>4, <1>8 DEF WordsOf
  <2>2. ReturnedOut(State, m)
    BY <1>1, <1>2, <1>8, IretOuterFields DEF exIRET
  <2> HIDE DEF m
  <2>3. GoesBack(5, F)
    BY <1>2, <1>5, <2>1, <2>2 DEF ReturnedOut
  <2>4. IsUser(F)
    BY <1>3, <1>8 DEF TopFrame, IsUser
  <2> HIDE DEF F
  <2> QED
    BY <1>1, <1>3, <1>6, <1>8, <2>1, <2>2, <2>3, <2>4, BackToUser
<1>9. CASE ~f.vm /\ RPL(cs) # 3
  <2>1. k = 3 /\ n > 3
    BY <1>4, <1>9 DEF WordsOf
  <2>2. ReturnedSame(State, m)
    <3>1. ~(RPL(cs) > reg.cpl)
      BY <1>1, <1>9 DEF RPL
    <3> QED
      BY <1>1, <1>2, <1>9, <3>1, IretSameFields DEF exIRET
  <2> HIDE DEF m
  <2>3. GoesBack(3, F)
    BY <1>2, <1>5, <2>1, <2>2 DEF ReturnedSame
  <2>4. IsKernel(F)
    BY <1>3, <1>9 DEF TopFrame, IsKernel
  <2> HIDE DEF F
  <2> QED
    BY <1>1, <1>3, <1>6, <1>9, <2>1, <2>2, <2>3, <2>4, BackToKernel
<1> QED
  BY <1>7, <1>8, <1>9

-----------------------------------------------------------------------------
(***************************************************************************)
(* Task switches.                                                          *)
(***************************************************************************)
\* The context that waits in a TSS, by its fields.
LEMMA ParkedIs ==
  ASSUME NEW T, NEW t
  PROVE  /\ Parked(T, t).level = "kernel" /\ Parked(T, t).ip = T.ip /\ Parked(T, t).if = T.flags.if
         /\ Parked(T, t).nt = T.flags.nt /\ Parked(T, t).sp = 0
         /\ Parked(T, t).ds = RawDesc(T.sel["ds"], t).of
         /\ Parked(T, t).es = RawDesc(T.sel["es"], t).of
BY DEF Parked

\* The task that leaves is found again as it was.
LEMMA Leaves ==
  ASSUME CachesInv, StackInv, Kernel, ~Torn, NEW ip, NEW x, NEW T, T = SavedTask(reg, ip, x)
  PROVE  /\ Current = reg.tr /\ Current \in Tasks /\ reg.dtr = Current /\ reg.dldt = Current
         /\ Waits(T, Current, stack[Current])
         /\ Running(reg).level = "kernel" /\ Running(reg).nt = reg.nt
         /\ SameIn({"level", "if", "sp", "ds", "es"}, Running(reg), Parked(T, Current))
         /\ Parked(T, Current).nt = x /\ T.ax = reg.ax
<1> DEFINE o == Current
           c == Running(reg)
           d == Parked(T, o)
<1>1. /\ Booted /\ reg.cpl = 0 /\ ~reg.vm /\ RPL(reg.sel["cs"]) = 0 /\ reg.dtr = reg.tr
      /\ Agrees(reg, "ds") /\ Agrees(reg, "es")
  BY Levels DEF Kernel, Torn, Agrees
<1>2. o = reg.tr /\ o \in Tasks /\ reg.dldt = o
  BY <1>1, Shapes DEF Current, Booted, StackInv, Shape
<1>3. /\ T.flags.if = reg.if /\ T.flags.nt = x /\ T.sp = reg.sp /\ T.sel = reg.sel /\ T.ax = reg.ax
  BY DEF SavedTask
<1>4. /\ reg.sp = <<o, Len(stack[o])>> /\ stack[o] # << >>
      /\ reg.sel["ds"] \in DataSelectors /\ reg.sel["es"] \in DataSelectors
  BY <1>1 DEF StackInv, RunningInv, DataInv, IsData
<1>5. Waits(T, o, stack[o])
  BY <1>1, <1>3, <1>4 DEF Waits
<1>6. reg.desc["ds"] = RawDesc(reg.sel["ds"], o) /\ reg.desc["es"] = RawDesc(reg.sel["es"], o)
  BY <1>1, <1>2 DEF Agrees, DescOf
<1>7. /\ c.level = "kernel" /\ c.nt = reg.nt /\ c.if = reg.if /\ c.sp = 0
      /\ c.ds = RawDesc(reg.sel["ds"], o).of /\ c.es = RawDesc(reg.sel["es"], o).of
  <2>1. DepthOf(reg) = 0 /\ EsOf(reg) = reg.desc["es"].of
    BY <1>1 DEF DepthOf, EsOf
  <2>2. c.level = "kernel"
    BY <1>1, RunningIs
  <2>3. c.nt = reg.nt /\ c.if = reg.if /\ c.sp = DepthOf(reg)
    BY RunningIs
  <2>4. c.ds = reg.desc["ds"].of /\ c.es = EsOf(reg)
    BY RunningIs
  <2> QED
    BY <1>6, <2>1, <2>2, <2>3, <2>4
<1>8. /\ d.level = "kernel" /\ d.if = reg.if /\ d.nt = x /\ d.sp = 0
      /\ d.ds = RawDesc(reg.sel["ds"], o).of /\ d.es = RawDesc(reg.sel["es"], o).of
  <2> HIDE DEF o
  <2>1. d.level = "kernel" /\ d.if = T.flags.if /\ d.nt = T.flags.nt /\ d.sp = 0
    BY ParkedIs
  <2>2. d.ds = RawDesc(T.sel["ds"], o).of /\ d.es = RawDesc(T.sel["es"], o).of
    BY ParkedIs
  <2> QED
    BY <1>3, <2>1, <2>2
<1> HIDE DEF c, d
<1>9. SameIn({"level", "if", "sp", "ds", "es"}, c, d)
  BY <1>7, <1>8 DEF SameIn
<1> QED
  BY <1>1, <1>2, <1>3, <1>5, <1>7, <1>8, <1>9 DEF c, d

\* The task that comes goes on as it was, but for NT.
LEMMA Comes ==
  ASSUME CachesInv, NEW t \in Tasks, Waits(tss[t], t, stack[t]), NEW nt, NEW q, TaskRuns(State, t, nt, q)
  PROVE  /\ q.tr = t /\ q.dldt = t /\ q.cpl = 0 /\ ~q.vm /\ q.sp = <<t, Len(stack[t])>>
         /\ DataInv(q) /\ q.ts = TRUE /\ q.ax = tss[t].ax /\ Running(q).nt = nt
         /\ SameIn({"level", "ip", "if", "sp", "ds", "es"}, Parked(tss[t], t), Running(q))
<1> DEFINE T == tss[t]
           c == Parked(T, t)
           d == Running(q)
<1>0. State.tss[t] = T /\ ~T.flags.vm
  BY StateIsMac DEF CachesInv
<1>1. /\ q.if = T.flags.if /\ q.nt = nt /\ ~q.vm
      /\ q.dldt = t /\ q.tr = t /\ q.ts = TRUE /\ q.ax = T.ax /\ q.sp = T.sp /\ q.ip = T.ip
      /\ q.cpl = RPL(T.sel["cs"])
      /\ \A o \in SegRegs : q.sel[o] = T.sel[o] /\ Agrees(q, o)
  <2>1. TaskRuns(State, t, nt, q)
    OBVIOUS
  <2> HIDE DEF T
  <2> QED
    BY <1>0, <2>1 DEF TaskRuns
<1>2. q.cpl = 0 /\ q.sp = <<t, Len(stack[t])>>
      /\ T.sel["ds"] \in DataSelectors /\ T.sel["es"] \in DataSelectors
  BY <1>1 DEF Waits
<1> HIDE DEF T
<1>3. \A o \in {"ds", "es"} : q.sel[o] = T.sel[o] /\ Agrees(q, o) /\ q.desc[o] = RawDesc(T.sel[o], t)
  BY <1>1 DEF SegRegs, Agrees, DescOf
<1>4. DataInv(q)
  <2>1. IsData(q, "ds") /\ IsData(q, "es")
    BY <1>1, <1>2, <1>3 DEF IsData
  <2> QED
    BY <1>3, <2>1 DEF DataInv
<1>5. /\ d.level = "kernel" /\ d.ip = T.ip /\ d.if = T.flags.if /\ d.nt = nt /\ d.sp = 0
      /\ d.ds = RawDesc(T.sel["ds"], t).of /\ d.es = RawDesc(T.sel["es"], t).of
  <2>1. DepthOf(q) = 0 /\ EsOf(q) = q.desc["es"].of
    BY <1>2, <1>3 DEF DepthOf, EsOf
  <2>2. d.level = "kernel"
    BY <1>1, <1>2, RunningIs
  <2>3. d.ip = q.ip /\ d.nt = q.nt /\ d.if = q.if /\ d.sp = DepthOf(q)
    BY RunningIs
  <2>4. d.ds = q.desc["ds"].of /\ d.es = EsOf(q)
    BY RunningIs
  <2> QED
    BY <1>1, <1>3, <2>1, <2>2, <2>3, <2>4
<1>6. /\ c.level = "kernel" /\ c.ip = T.ip /\ c.if = T.flags.if /\ c.sp = 0
      /\ c.ds = RawDesc(T.sel["ds"], t).of /\ c.es = RawDesc(T.sel["es"], t).of
  BY ParkedIs
<1> HIDE DEF c, d
<1>7. SameIn({"level", "ip", "if", "sp", "ds", "es"}, c, d)
  BY <1>5, <1>6 DEF SameIn
<1> QED
  BY <1>1, <1>2, <1>4, <1>5, <1>7 DEF c, d, T

\* A task switch is Switch.
LEMMA SwitchImplements ==
  ASSUME CachesInv, StackInv, Kernel, ~Torn, NEW t \in Tasks, t # reg.tr,
         NEW how \in {"jump", "call", "return"}, how = "return" => reg.nt,
         NEW x, x = (reg.nt /\ how # "return"), NEW ip,
         NEW nt, how = "jump" => nt = FALSE, how = "call" => nt = TRUE,
         how = "return" => nt = tss[t].flags.nt,
         NEW n, SwitchedTo(State, t, SavedTask(reg, ip, x), nt, n), Set(n)
  PROVE  StackInv' /\ Contexts!Switch(how)
<1> DEFINE o == Current
           T == SavedTask(reg, ip, x)
           q == reg'
<1>1. /\ o = reg.tr /\ o \in Tasks /\ reg.dtr = o
      /\ Waits(T, o, stack[o])
      /\ Running(reg).level = "kernel" /\ Running(reg).nt = reg.nt
      /\ SameIn({"level", "if", "sp", "ds", "es"}, Running(reg), Parked(T, o))
      /\ Parked(T, o).nt = x /\ T.ax = reg.ax
  BY Leaves
<1> HIDE DEF T
<1>2. t # o /\ Waits(tss[t], t, stack[t]) /\ DOMAIN tss = Tasks /\ t # None
  BY <1>1, ProtectedAssumption DEF StackInv, ParkedInv, CachesInv
<1>3. /\ TaskRuns(State, t, nt, q) /\ stack' = stack
      /\ tss' = [tss EXCEPT ![o] = T, ![t] = Forgotten(t)]
  BY <1>1, StateIsMac DEF SwitchedTo, Set, State, T
<1>4. /\ q.tr = t /\ q.dldt = t /\ q.cpl = 0 /\ ~q.vm /\ q.sp = <<t, Len(stack[t])>>
      /\ DataInv(q) /\ q.ts = TRUE /\ q.ax = tss[t].ax /\ Running(q).nt = nt
      /\ SameIn({"level", "ip", "if", "sp", "ds", "es"}, Parked(tss[t], t), Running(q))
  <2> HIDE DEF q
  <2> QED
    BY <1>2, <1>3, Comes
<1>5. Current' = t /\ Booted'
  BY <1>2, <1>4 DEF Current, Booted
<1>6. tss'[o] = T /\ \A u \in Tasks \ {o, t} : tss'[u] = tss[u]
  BY <1>1, <1>2, <1>3
<1>7. RunningInv'
  BY <1>2, <1>3, <1>4, <1>5 DEF RunningInv, Waits
<1>8. ParkedInv'
  <2>1. ASSUME NEW u \in Tasks, u # t PROVE Waits(tss'[u], u, stack'[u])
    <3>1. CASE u = o
      BY <1>1, <1>3, <1>6, <3>1
    <3>2. CASE u # o
      <4>1. u # Current
        BY <3>2
      <4>2. Waits(tss[u], u, stack[u])
        BY <4>1 DEF StackInv, ParkedInv
      <4>3. tss'[u] = tss[u]
        BY <1>6, <2>1, <3>2
      <4> QED
        BY <1>3, <4>2, <4>3
    <3> QED
      BY <3>1, <3>2
  <2> QED
    BY <1>5, <2>1 DEF ParkedInv
<1>9. StackInv'
  BY <1>3, <1>4, <1>5, <1>7, <1>8 DEF StackInv
<1>10. Contexts!Switch(how)
  <2> DEFINE y == nt
             z == x
  <2>1. /\ o \in Tasks /\ o = Current /\ t # o /\ Current' = t /\ stack' = stack
        /\ Running(reg).level = "kernel" /\ (how = "return" => Running(reg).nt)
        /\ SameIn({"level", "if", "sp", "ds", "es"}, Running(reg), Parked(tss'[o], o))
        /\ z = (Running(reg).nt /\ how # "return") /\ Parked(tss'[o], o).nt = z
    BY <1>1, <1>2, <1>3, <1>5, <1>6
  <2>2. /\ SameIn({"level", "ip", "if", "sp", "ds", "es"}, Parked(tss[t], t), Running(reg'))
        /\ Running(reg').nt = y /\ (how = "jump" => y = FALSE) /\ (how = "call" => y = TRUE)
        /\ (how = "return" => y = Parked(tss[t], t).nt)
    BY <1>4, ParkedIs
  <2>3. tss'[o].ax = reg.ax /\ reg'.ax = tss[t].ax /\ reg'.ts = TRUE
    BY <1>1, <1>4, <1>6
  <2> HIDE DEF y, z, q, T
  <2> QED
    BY <1>6, <1>9, <2>1, <2>2, <2>3, SwitchRefines
<1> QED
  BY <1>9, <1>10

\* JMP, CALL and IRET to a task.
LEMMA TaskSwitchImplements ==
  ASSUME MarksInv, CachesInv, StackInv, NEW t \in Tasks
  PROVE  /\ Jmp(t) => StackInv' /\ Contexts!Switch("jump")
         /\ Call(t) => StackInv' /\ Contexts!Switch("call")
         /\ IretNT(t) => StackInv' /\ Contexts!Switch("return")
<1> DEFINE ip == Next1(reg.ip)
           x == reg.nt /\ ~FALSE
           y == reg.nt /\ ~TRUE
           nt == tss[t].flags.nt
<1>0. IsMac(State) /\ State.reg = reg /\ State.tss = tss
  BY StateIsMac
<1>1. ASSUME t # reg.tr
      PROVE  /\ SwitchedTo(State, t, SavedTask(reg, ip, x), FALSE, SwitchByJMP(State, t))
             /\ SwitchedTo(State, t, SavedTask(reg, ip, x), TRUE, SwitchByCALL(State, t))
             /\ SwitchedTo(State, t, SavedTask(reg, ip, y), nt, SwitchByIRET(State, t))
  <2>1. t # State.reg.dtr
    BY <1>0, <1>1, Levels
  <2> QED
    BY <1>0, <2>1, SwitchFields
<1> HIDE DEF ip
<1>2. ASSUME Jmp(t) PROVE StackInv' /\ Contexts!Switch("jump")
  <2> DEFINE how == "jump"
             no == FALSE
  <2>1. Kernel /\ ~Torn /\ t # reg.tr /\ Set(SwitchByJMP(State, t))
    BY <1>2 DEF Jmp, MaySwitchTo
  <2>2. SwitchedTo(State, t, SavedTask(reg, ip, x), no, SwitchByJMP(State, t))
    BY <1>1, <2>1
  <2>3. /\ how \in {"jump", "call", "return"} /\ (how = "return" => reg.nt)
        /\ x = (reg.nt /\ how # "return")
        /\ (how = "jump" => no = FALSE) /\ (how = "call" => no = TRUE)
        /\ (how = "return" => no = tss[t].flags.nt)
    OBVIOUS
  <2> HIDE DEF how, no, x
  <2>4. StackInv' /\ Contexts!Switch(how)
    BY <2>1, <2>2, <2>3, SwitchImplements
  <2> QED
    BY <2>4 DEF how
<1>3. ASSUME Call(t) PROVE StackInv' /\ Contexts!Switch("call")
  <2> DEFINE how == "call"
             yes == TRUE
  <2>1. Kernel /\ ~Torn /\ t # reg.tr /\ Set(SwitchByCALL(State, t))
    BY <1>3 DEF Call, MaySwitchTo
  <2>2. SwitchedTo(State, t, SavedTask(reg, ip, x), yes, SwitchByCALL(State, t))
    BY <1>1, <2>1
  <2>3. /\ how \in {"jump", "call", "return"} /\ (how = "return" => reg.nt)
        /\ x = (reg.nt /\ how # "return")
        /\ (how = "jump" => yes = FALSE) /\ (how = "call" => yes = TRUE)
        /\ (how = "return" => yes = tss[t].flags.nt)
    OBVIOUS
  <2> HIDE DEF how, yes, x
  <2>4. StackInv' /\ Contexts!Switch(how)
    BY <2>1, <2>2, <2>3, SwitchImplements
  <2> QED
    BY <2>4 DEF how
<1>4. ASSUME IretNT(t) PROVE StackInv' /\ Contexts!Switch("return")
  <2> DEFINE how == "return"
  <2>1. Kernel /\ ~Torn /\ t # reg.tr /\ reg.nt /\ Set(SwitchByIRET(State, t))
    BY <1>4 DEF IretNT, Kernel, Booted, MarksInv
  <2>2. SwitchedTo(State, t, SavedTask(reg, ip, y), nt, SwitchByIRET(State, t))
    BY <1>1, <2>1
  <2>3. /\ how \in {"jump", "call", "return"} /\ (how = "return" => reg.nt)
        /\ y = (reg.nt /\ how # "return")
        /\ (how = "jump" => nt = FALSE) /\ (how = "call" => nt = TRUE)
        /\ (how = "return" => nt = tss[t].flags.nt)
    BY <2>1
  <2> HIDE DEF how, nt, y
  <2>4. StackInv' /\ Contexts!Switch(how)
    BY <2>1, <2>2, <2>3, SwitchImplements
  <2> QED
    BY <2>4 DEF how
<1> QED
  BY <1>2, <1>3, <1>4

-----------------------------------------------------------------------------
(***************************************************************************)
(* The start, and the refinement.                                          *)
(***************************************************************************)
AbstractSegments ==
    {<<"real", s>> : s \in Paragraphs} \cup {<<t, s>> : t \in Tasks, s \in LdtSelectors}
    \cup {<<None, "KDS">>, <<None, "null">>, ToBeLoaded}

\* A context of the kernel or of user mode, by its fields.
Typed(c) ==
    /\ IsContext(c) /\ c.level \in {"user", "vm", "kernel"} /\ c.ip \in Nat /\ c.sp \in Nat
    /\ c.if \in BOOLEAN /\ c.nt \in BOOLEAN
    /\ c.ds \in AbstractSegments \cup {InHandler} /\ c.es \in AbstractSegments \cup {InHandler}

\* Those that the tasks start with are such.
LEMMA StartsTyped ==
  ASSUME NEW c, IsContext(c), c.level \in {"user", "vm", "kernel"}, c.ip = 0, c.sp = 0,
         NEW i \in BOOLEAN, c.if = i, c.nt = FALSE,
         c.ds \in AbstractSegments \cup {InHandler}, c.es \in AbstractSegments \cup {InHandler}
  PROVE  Typed(c)
<1>1. c.ip \in Nat /\ c.sp \in Nat
  OBVIOUS
<1>2. c.if \in BOOLEAN /\ c.nt \in BOOLEAN
  OBVIOUS
<1> QED
  BY <1>1, <1>2, Zenon DEF Typed

\* Then it is one of the abstract specification's.
LEMMA AContext == ASSUME NEW c, Typed(c) PROVE c \in Contexts!Contexts
<1> USE DEF Typed
<1> DEFINE S == AbstractSegments \cup {InHandler}
<1>1. c = [level |-> c.level, ip |-> c.ip, if |-> c.if, nt |-> c.nt, sp |-> c.sp, ds |-> c.ds, es |-> c.es]
  BY DEF IsContext, Fields
<1>2. Contexts!Contexts = [level : {"user", "vm", "kernel"}, ip : Nat, sp : Nat, if : BOOLEAN, nt : BOOLEAN,
                           ds : S, es : S]
  BY DEF Contexts!Contexts, Contexts!Levels, AbstractSegments
<1> HIDE DEF S
<1>3. c.ds \in S /\ c.es \in S
  BY DEF S
<1> QED
  BY <1>1, <1>2, <1>3

\* The contexts that the tasks start with.
FirstStack(st, n) ==
    /\ IsStack(st) /\ Len(st) = n /\ n \in Nat /\ n > 0
    /\ \E F \in Contexts!Contexts : Frames(st, n) = Append(<< >>, F)

\* A stack with one frame, at its end, has one context.
LEMMA OneFrame ==
  ASSUME NEW st, NEW n \in Nat, n > 0, st[n][1] = "eip", \A d \in 1 .. n - 1 : st[d][1] # "eip"
  PROVE  Frames(st, n) = Append(<< >>, Frame(st, n))
<1> DEFINE j == n - 1
           z == 0
<1>1. j \in Nat /\ j + 1 = n /\ z \in Nat /\ z <= j /\ \A d \in z + 1 .. j : st[d][1] # "eip"
  OBVIOUS
<1> HIDE DEF j, z
<1>2. Frames(st, j) = Frames(st, z)
  BY <1>1, FramesQuiet
<1>3. Frames(st, z) = << >>
  BY <1>1, FramesStep DEF z
<1>4. Frames(st, j + 1) = Append(Frames(st, j), Frame(st, j + 1))
  BY <1>1, FramesStep
<1> QED
  BY <1>1, <1>2, <1>3, <1>4

\* The stack of a task that starts in user mode.
LEMMA UserStack == FirstStack(UserFrame, 5)
<1> DEFINE f == [if |-> TRUE, nt |-> FALSE, vm |-> FALSE]
           sp == <<"user", 0>>
           a == <<"ss", "UDS">>
           b == <<"esp", sp>>
           c == <<"eflags", f>>
           d == <<"cs", "UCS">>
           e == <<"eip", 0>>
           st == << a, b, c, d, e >>
           S == {a, b, c, d, e}
<1>1. UserFrame = st
  BY DEF UserFrame
<1>2. /\ a[1] \notin {"eip", "code"} /\ b[1] \notin {"eip", "code"} /\ c[1] \notin {"eip", "code"}
      /\ d[1] \notin {"eip", "code"} /\ e[1] = "eip"
      /\ b[2] = sp /\ c[2] = f /\ d[2] = "UCS" /\ e[2] = 0 /\ sp[2] = 0
      /\ f.if = TRUE /\ f.nt = FALSE /\ f.vm = FALSE
  OBVIOUS
<1> HIDE DEF f, sp, a, b, c, d, e
<1>3. st \in Seq(S) /\ Len(st) = 5 /\ st[1] = a /\ st[2] = b /\ st[3] = c /\ st[4] = d /\ st[5] = e
  OBVIOUS
<1> HIDE DEF st, S
<1>4. RPL("UCS") = 3
  BY DEF RPL, LdtSelectors
<1>5. \A i \in 1 .. 4 : st[i][1] \notin {"eip", "code"}
  BY <1>2, <1>3
<1>6. Placed(st, 5)
  <2> DEFINE k == 5
  <2>1. k > 3 /\ st[k - 1] = d /\ st[k - 2] = c /\ st[k] = e /\ k = 5
    BY <1>3
  <2>2. \A i \in 1 .. 4 : st[i][1] # "eip"
    BY <1>5
  <2> HIDE DEF k
  <2>3. st[k][1] # "code" /\ st[k - 1][1] # "eip" /\ st[k - 2][1] # "eip" /\ ~st[k - 2][2].vm
    BY <1>2, <2>1
  <2>4. Placed(st, k)
    BY <2>1, <2>2, <2>3 DEF Placed
  <2> QED
    BY <2>4 DEF k
<1>7. ASSUME NEW i \in 1 .. 5 PROVE Placed(st, i)
  <2>1. CASE i \in 1 .. 4
    BY <1>5, <2>1 DEF Placed
  <2>2. CASE i = 5
    BY <1>6, <2>2
  <2> QED
    BY <2>1, <2>2
<1>8. IsStack(st)
  BY <1>3, <1>7 DEF IsStack, IsSeq, Framed
<1>9. Frames(st, 5) = Append(<< >>, Frame(st, 5))
  BY <1>2, <1>3, <1>5, OneFrame
<1>10. Frame(st, 5) = UserFrameOf(0, f, 0)
  <2> DEFINE k == 5
  <2>1. st[k - 1] = d /\ st[k - 2] = c /\ st[k] = e /\ st[k - 3] = b
    BY <1>3
  <2> HIDE DEF k
  <2>2. Frame(st, k) = UserFrameOf(st[k][2], st[k - 2][2], st[k - 3][2][2])
    BY <1>2, <1>4, <2>1, FrameIs
  <2>3. Frame(st, k) = UserFrameOf(0, f, 0)
    BY <1>2, <2>1, <2>2
  <2> QED
    BY <2>3 DEF k
<1>11. UserFrameOf(0, f, 0) \in Contexts!Contexts
  <2> DEFINE F == UserFrameOf(0, f, 0)
  <2>1. /\ IsContext(F) /\ F.level = "user" /\ F.ip = 0 /\ F.sp = 0 /\ F.if = TRUE /\ F.nt = FALSE
        /\ F.ds = InHandler /\ F.es = InHandler
    BY <1>2 DEF UserFrameOf, IsContext, Fields
  <2> HIDE DEF F
  <2>2. Typed(F)
    <3>1. F.level \in {"user", "vm", "kernel"}
      BY <2>1
    <3>2. F.ds \in AbstractSegments \cup {InHandler} /\ F.es \in AbstractSegments \cup {InHandler}
      BY <2>1
    <3> QED
      BY <2>1, <3>1, <3>2, StartsTyped
  <2>3. F \in Contexts!Contexts
    BY <2>2, AContext
  <2> QED
    BY <2>3 DEF F
<1> QED
  BY <1>1, <1>3, <1>8, <1>9, <1>10, <1>11 DEF FirstStack

\* The stack of a task that starts in virtual 8086 mode.
LEMMA VmStack == FirstStack(VmFrame, 7)
<1> DEFINE f == [if |-> TRUE, nt |-> FALSE, vm |-> TRUE]
           sp == <<"user", 0>>
           a == <<"ds", "v1">>
           b == <<"es", "v1">>
           c == <<"ss", "v1">>
           d == <<"esp", sp>>
           g == <<"eflags", f>>
           h == <<"cs", "v1">>
           e == <<"eip", 0>>
           st == << a, b, c, d, g, h, e >>
           S == {a, b, c, d, g, h, e}
<1>1. VmFrame = st
  BY DEF VmFrame
<1>2. /\ a[1] \notin {"eip", "code"} /\ b[1] \notin {"eip", "code"} /\ c[1] \notin {"eip", "code"}
      /\ d[1] \notin {"eip", "code"} /\ g[1] \notin {"eip", "code"} /\ h[1] \notin {"eip", "code"}
      /\ e[1] = "eip"
      /\ a[2] = "v1" /\ b[2] = "v1" /\ d[2] = sp /\ g[2] = f /\ e[2] = 0 /\ sp[2] = 0
      /\ f.if = TRUE /\ f.nt = FALSE /\ f.vm = TRUE
  OBVIOUS
<1> HIDE DEF f, sp, a, b, c, d, e, g, h
<1>3. st \in Seq(S) /\ Len(st) = 7 /\ st[1] = a /\ st[2] = b /\ st[3] = c /\ st[4] = d
      /\ st[5] = g /\ st[6] = h /\ st[7] = e
  OBVIOUS
<1> HIDE DEF st, S
<1>5. \A i \in 1 .. 6 : st[i][1] \notin {"eip", "code"}
  BY <1>2, <1>3
<1>6. Placed(st, 7)
  <2> DEFINE k == 7
  <2>1. k > 3 /\ st[k - 1] = h /\ st[k - 2] = g /\ st[k] = e /\ k = 7
    BY <1>3
  <2>2. \A i \in 1 .. 6 : st[i][1] # "eip"
    BY <1>5
  <2> HIDE DEF k
  <2>3. st[k][1] # "code" /\ st[k - 1][1] # "eip" /\ st[k - 2][1] # "eip" /\ st[k - 2][2].vm
    BY <1>2, <2>1
  <2>4. Placed(st, k)
    BY <2>1, <2>2, <2>3 DEF Placed
  <2> QED
    BY <2>4 DEF k
<1>7. ASSUME NEW i \in 1 .. 7 PROVE Placed(st, i)
  <2>1. CASE i \in 1 .. 6
    BY <1>5, <2>1 DEF Placed
  <2>2. CASE i = 7
    BY <1>6, <2>2
  <2> QED
    BY <2>1, <2>2
<1>8. IsStack(st)
  BY <1>3, <1>7 DEF IsStack, IsSeq, Framed
<1>9. Frames(st, 7) = Append(<< >>, Frame(st, 7))
  BY <1>2, <1>3, <1>5, OneFrame
<1>10. Frame(st, 7) = VmFrameOf(0, f, 0, "v1", "v1")
  <2> DEFINE k == 7
  <2>1. st[k - 2] = g /\ st[k] = e /\ st[k - 3] = d /\ st[k - 6] = a /\ st[k - 5] = b
    BY <1>3
  <2> HIDE DEF k
  <2>2. Frame(st, k) = VmFrameOf(st[k][2], st[k - 2][2], st[k - 3][2][2], st[k - 6][2], st[k - 5][2])
    BY <1>2, <2>1, FrameIs
  <2>3. Frame(st, k) = VmFrameOf(0, f, 0, "v1", "v1")
    BY <1>2, <2>1, <2>2
  <2> QED
    BY <2>3 DEF k
<1>11. VmFrameOf(0, f, 0, "v1", "v1") \in Contexts!Contexts
  <2> DEFINE F == VmFrameOf(0, f, 0, "v1", "v1")
  <2>1. /\ IsContext(F) /\ F.level = "vm" /\ F.ip = 0 /\ F.sp = 0 /\ F.if = TRUE /\ F.nt = FALSE
        /\ F.ds = RealDesc("v1").of /\ F.es = RealDesc("v1").of
    BY <1>2 DEF VmFrameOf, IsContext, Fields
  <2>2. RealDesc("v1").of \in AbstractSegments
    BY DEF RealDesc, AbstractSegments, Paragraphs
  <2> HIDE DEF F
  <2>3. Typed(F)
    <3>1. F.level \in {"user", "vm", "kernel"}
      BY <2>1
    <3>2. F.ds \in AbstractSegments \cup {InHandler} /\ F.es \in AbstractSegments \cup {InHandler}
      BY <2>1, <2>2
    <3> QED
      BY <2>1, <3>1, <3>2, StartsTyped
  <2>4. F \in Contexts!Contexts
    BY <2>3, AContext
  <2> QED
    BY <2>4 DEF F
<1> QED
  BY <1>1, <1>3, <1>8, <1>9, <1>10, <1>11 DEF FirstStack

\* Every task starts with one context on its stack.
LEMMA FirstStacks ==
  ASSUME NEW t
  PROVE  FirstStack(FirstFrame(t), Len(FirstFrame(t))) /\ FirstFrame(t) # << >>
<1>1. \E n : FirstStack(FirstFrame(t), n)
  BY UserStack, VmStack DEF FirstFrame
<1>2. PICK n : FirstStack(FirstFrame(t), n)
  BY <1>1
<1>3. n = Len(FirstFrame(t)) /\ n > 0
  BY <1>2 DEF FirstStack
<1>4. FirstFrame(t) # << >>
  BY <1>3
<1> QED
  BY <1>2, <1>3, <1>4

\* The start.
LEMMA StacksInit == Init => StackInv /\ Contexts!Init
<1> SUFFICES ASSUME Init PROVE StackInv /\ Contexts!Init
  OBVIOUS
<1>1. /\ reg.sel = KernelSel /\ reg.vm = FALSE /\ reg.cpl = 0 /\ reg.if = FALSE /\ reg.nt = FALSE
      /\ reg.desc = [seg \in SegRegs |-> RawDesc(KernelSel[seg], None)] /\ reg.ip = 0
      /\ reg.tr = None /\ reg.dldt = None /\ reg.ts = FALSE
      /\ reg.sp = <<Boot, Len(FirstFrame(Boot))>>
  BY DEF Init
<1>2. Current = Boot /\ Boot \in Tasks /\ ~Booted
  BY <1>1, ProtectedAssumption DEF Current, Booted
<1>3. /\ DOMAIN stack = Tasks /\ \A t \in Tasks : stack[t] = FirstFrame(t)
  BY DEF Init
<1>4. ASSUME NEW t \in Tasks, t # Boot
      PROVE  /\ tss[t].sp = <<t, Len(FirstFrame(t))>> /\ tss[t].sel = KernelSel /\ tss[t].ip = 0
             /\ tss[t].flags.if = FALSE /\ tss[t].flags.nt = FALSE
  <2>1. tss[t] = [Forgotten(t) EXCEPT !.sp = <<t, Len(FirstFrame(t))>>]
    BY <1>4 DEF Init
  <2> DEFINE x == <<t, Len(FirstFrame(t))>>
             v == CHOOSE v \in Values : TRUE
             f == [if |-> FALSE, nt |-> FALSE, vm |-> FALSE]
             y == <<t, 0>>
  <2>2. tss[t] = [[flags |-> f, ip |-> 0, ax |-> v, sp |-> y, sel |-> KernelSel] EXCEPT !.sp = x]
    BY <2>1 DEF Forgotten
  <2>3. f.if = FALSE /\ f.nt = FALSE
    OBVIOUS
  <2> HIDE DEF x, v, f, y
  <2>4. tss[t].sp = x /\ tss[t].sel = KernelSel /\ tss[t].ip = 0 /\ tss[t].flags = f
    BY <2>2
  <2> QED
    BY <2>3, <2>4 DEF x
<1>5. /\ KernelSel["ds"] = "KDS" /\ KernelSel["es"] = "KDS" /\ KernelSel["cs"] = "KCS"
      /\ RPL("KCS") = 0 /\ "KDS" \in DataSelectors
      /\ RawDesc("KDS", None) = [of |-> <<None, "KDS">>, dpl |-> 0]
      /\ \A t : RawDesc("KDS", t).of = <<None, "KDS">>
  <2>1. "KDS" \notin LdtSelectors /\ "KCS" \notin LdtSelectors
    BY DEF LdtSelectors
  <2> QED
    BY <2>1 DEF KernelSel, SegRegs, RPL, DataSelectors, RawDesc
<1>6. /\ reg.desc["ds"] = RawDesc("KDS", None) /\ reg.desc["es"] = RawDesc("KDS", None)
      /\ reg.sel["ds"] = "KDS" /\ reg.sel["es"] = "KDS"
  BY <1>1, <1>5 DEF SegRegs
<1>7. Agrees(reg, "es") /\ DataInv(reg)
  <2>1. Agrees(reg, "es")
    BY <1>1, <1>6 DEF Agrees, DescOf
  <2>2. IsData(reg, "ds") /\ IsData(reg, "es")
    BY <1>1, <1>5, <1>6 DEF IsData
  <2> QED
    BY <2>1, <2>2 DEF DataInv
<1>8. \A t \in Tasks : IsStack(stack[t]) /\ stack[t] # << >>
  BY <1>3, FirstStacks DEF FirstStack
<1>9. RunningInv
  BY <1>1, <1>2, <1>3, <1>8 DEF RunningInv
<1>10. ParkedInv
  BY <1>2, <1>3, <1>4, <1>5, <1>8 DEF ParkedInv, Waits
<1>11. StackInv
  BY <1>1, <1>2, <1>3, <1>7, <1>8, <1>9, <1>10 DEF StackInv
<1>12. ASSUME NEW t \in Tasks PROVE TopOf(t) \in Contexts!Contexts
  <2> DEFINE c == TopOf(t)
  <2>1. CASE t = Boot
    <3>1. c = Running(reg)
      BY <1>2, <2>1 DEF TopOf
    <3>2. DepthOf(reg) = 0 /\ EsOf(reg) = <<None, "KDS">>
      BY <1>1, <1>5, <1>6, <1>7 DEF DepthOf, EsOf
    <3>3. /\ c.level = "kernel" /\ c.ip = 0 /\ c.if = FALSE /\ c.nt = FALSE /\ c.sp = 0
          /\ c.ds = <<None, "KDS">> /\ c.es = <<None, "KDS">> /\ IsContext(c)
      <4> DEFINE d == Running(reg)
      <4>1. d.level = "kernel"
        BY <1>1, RunningIs
      <4>2. d.ip = 0 /\ d.if = FALSE /\ d.nt = FALSE /\ d.sp = 0 /\ IsContext(d)
        BY <1>1, <3>2, RunningIs, AreContexts
      <4>3. d.ds = <<None, "KDS">> /\ d.es = <<None, "KDS">>
        BY <1>5, <1>6, <3>2, RunningIs
      <4> HIDE DEF c, d
      <4> QED
        BY <3>1, <4>1, <4>2, <4>3 DEF d
    <3> HIDE DEF c
    <3>4. Typed(c)
      <4>1. c.level \in {"user", "vm", "kernel"}
        BY <3>3
      <4>2. c.ds \in AbstractSegments \cup {InHandler} /\ c.es \in AbstractSegments \cup {InHandler}
        BY <3>3 DEF AbstractSegments
      <4> QED
        BY <3>3, <4>1, <4>2, StartsTyped
    <3>5. c \in Contexts!Contexts
      BY <3>4, AContext
    <3> QED
      BY <3>5 DEF c
  <2>2. CASE t # Boot
    <3>1. c = Parked(tss[t], t)
      BY <1>2, <2>2 DEF TopOf
    <3>3. /\ c.level = "kernel" /\ c.ip = 0 /\ c.if = FALSE /\ c.nt = FALSE /\ c.sp = 0
          /\ c.ds = <<None, "KDS">> /\ c.es = <<None, "KDS">> /\ IsContext(c)
      <4> DEFINE T == tss[t]
                 d == Parked(T, t)
      <4>0. T.ip = 0 /\ T.flags.if = FALSE /\ T.flags.nt = FALSE /\ T.sel = KernelSel
        BY <1>4, <2>2
      <4> HIDE DEF T
      <4>1. d.level = "kernel" /\ d.ip = 0 /\ d.if = FALSE /\ d.nt = FALSE /\ d.sp = 0 /\ IsContext(d)
        BY <4>0, ParkedIs, AreContexts
      <4>2. d.ds = <<None, "KDS">> /\ d.es = <<None, "KDS">>
        BY <1>5, <4>0, ParkedIs
      <4> HIDE DEF c, d
      <4> QED
        BY <3>1, <4>1, <4>2 DEF d, T
    <3> HIDE DEF c
    <3>4. Typed(c)
      <4>1. c.level \in {"user", "vm", "kernel"}
        BY <3>3
      <4>2. c.ds \in AbstractSegments \cup {InHandler} /\ c.es \in AbstractSegments \cup {InHandler}
        BY <3>3 DEF AbstractSegments
      <4> QED
        BY <3>3, <4>1, <4>2, StartsTyped
    <3>5. c \in Contexts!Contexts
      BY <3>4, AContext
    <3> QED
      BY <3>5 DEF c
  <2> QED
    BY <2>1, <2>2
<1>13. ASSUME NEW t \in Tasks
       PROVE  ContextsOf(t) \in Seq(Contexts!Contexts) /\ ContextsOf(t) # << >>
  <2> DEFINE C == Contexts!Contexts
             x == TopOf(t)
             D == Deep(t)
  <2>1. ContextsOf(t) = Append(D, x) /\ x \in C
    BY <1>11, <1>12, Shapes DEF Shape
  <2>2. PICK F \in C : D = Append(<< >>, F)
    BY <1>3, FirstStacks DEF FirstStack, Deep
  <2> HIDE DEF C, x, D
  <2>3. D \in Seq(C)
    BY <2>2
  <2>4. Append(D, x) \in Seq(C) /\ Append(D, x) # << >>
    BY <2>1, <2>3
  <2> QED
    BY <2>1, <2>4 DEF C
<1>14. Contexts!Init
  <2>1. DOMAIN Stacks = Tasks /\ DOMAIN Axes = Tasks
    BY DEF Stacks, Axes
  <2>2. \A t \in Tasks : Stacks[t] \in Seq(Contexts!Contexts) /\ Stacks[t] # << >>
    BY <1>13 DEF Stacks
  <2>3. Current \in Tasks /\ reg.ts \in BOOLEAN
    BY <1>1, <1>2
  <2> QED
    BY <2>1, <2>2, <2>3 DEF Contexts!Init, Stacks, Axes
<1> QED
  BY <1>11, <1>14

\* Every step is one of the abstract specification, or changes nothing there.
LEMMA StacksStep ==
  MarksInv /\ CachesInv /\ StackInv /\ [Next]_vars => StackInv' /\ [Contexts!Next]_(Contexts!vars)
<1> SUFFICES ASSUME MarksInv, CachesInv, StackInv, [Next]_vars
             PROVE  StackInv' /\ [Contexts!Next]_(Contexts!vars)
  OBVIOUS
<1>1. CASE Ltr \/ Lldt
  BY <1>1, BootImplements
<1>2. CASE Compute
  BY <1>2, ComputeImplements DEF Contexts!Next
<1>3. CASE LoadAbsent
  BY <1>3, LoadAbsentImplements DEF Contexts!Next
<1>4. CASE SetPresence \/ RepairLink \/ UNCHANGED vars
  <2>1. UNCHANGED <<reg, stack, tss>>
    BY <1>4 DEF SetPresence, RepairLink, vars, memory
  <2> QED
    BY <2>1, NothingChanges
<1>5. CASE Clts
  BY <1>5, CltsImplements DEF Contexts!Next
<1>6. ASSUME NEW seg \in {"ds", "es"}, NEW s \in Selectors, LoadSegment(seg, s)
      PROVE  StackInv' /\ [Contexts!Next]_(Contexts!vars)
  BY <1>6, LoadSegmentImplements DEF Contexts!Next
<1>7. ASSUME NEW gate \in {"int", "trap"}, Interrupt(gate)
      PROVE  StackInv' /\ [Contexts!Next]_(Contexts!vars)
  BY <1>7, InterruptImplements DEF Contexts!Next
<1>8. CASE DropCode
  BY <1>8, DropCodeImplements DEF Contexts!Next
<1>9. CASE Iret
  BY <1>9, IretImplements DEF Contexts!Next
<1>10. CASE IretNTFaults
  BY <1>10, IretNTFaultsImplements DEF Contexts!Next
<1>11. ASSUME NEW t \in Tasks, Jmp(t) \/ Call(t) \/ IretNT(t)
       PROVE  StackInv' /\ [Contexts!Next]_(Contexts!vars)
  <2>1. StackInv' /\ \E how \in {"jump", "call", "return"} : Contexts!Switch(how)
    BY <1>11, TaskSwitchImplements
  <2> QED
    BY <2>1 DEF Contexts!Next
<1>12. ASSUME NEW t \in Tasks, JmpRefused(t) PROVE StackInv' /\ [Contexts!Next]_(Contexts!vars)
  BY <1>12, JmpRefusedImplements DEF Contexts!Next
<1>13. ASSUME NEW t \in Tasks, JmpBusy(t) PROVE StackInv' /\ [Contexts!Next]_(Contexts!vars)
  BY <1>13, JmpBusyImplements DEF Contexts!Next
<1>14. ASSUME NEW t \in Tasks, CallBusy(t) PROVE StackInv' /\ [Contexts!Next]_(Contexts!vars)
  <2>1. UNCHANGED <<reg, stack, tss>>
    BY <1>14 DEF CallBusy, memory
  <2> QED
    BY <2>1, NothingChanges
<1> QED
  BY <1>1, <1>2, <1>3, <1>4, <1>5, <1>6, <1>7, <1>8, <1>9, <1>10, <1>11, <1>12, <1>13, <1>14
     DEF Next

\* For every set of tasks and every guest, interrupts, returns and task switches
\* of the model are those of ContextStacks: a task's contexts are the frames on its
\* kernel stack and what runs or waits in its TSS; only the last one runs, and each
\* goes on as it was left (enterINT32, exIRET and the task switches of ExInst86.c).
THEOREM ImplementsContextStacksHolds == Spec => ImplementsContextStacks
<1>1. Init => MarksInv /\ CachesInv /\ StackInv /\ Contexts!Init
  BY CachesInit, MarksInit, StacksInit
<1>2. MarksInv /\ CachesInv /\ StackInv /\ [Next]_vars
        => (MarksInv /\ CachesInv /\ StackInv)' /\ [Contexts!Next]_(Contexts!vars)
  BY CachesStep, MarksStep, StacksStep
<1> QED
  BY <1>1, <1>2, PTL DEF Spec, ImplementsContextStacks, Contexts!Spec
=============================================================================
