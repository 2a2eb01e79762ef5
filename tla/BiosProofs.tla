----------------------------- MODULE BiosProofs -----------------------------
(***************************************************************************)
(* Proofs about Bios: the time of day for days of every length, that what  *)
(* KeyboardProofs shows of the keyboard holds beside the clock, and that   *)
(* the display, its memory and the pages agree and are what INT 10h        *)
(* promises, for screens and windows of every size.                        *)
(***************************************************************************)
EXTENDS Bios, KeyboardProofs

-----------------------------------------------------------------------------
(***************************************************************************)
(* Arithmetic.                                                             *)
(***************************************************************************)

\* The remainder of a number at most one day away from the day.
LEMMA Remainder ==
  ASSUME NEW T \in Nat \ {0}, NEW x \in Int
  PROVE  /\ 0 <= x /\ x < T => x % T = x
         /\ T <= x /\ x < 2 * T => x % T = x - T
         /\ -T <= x /\ x < 0 => x % T = x + T
OBVIOUS

\* More interrupts are never fewer ticks, and the interrupts of a day are less
\* than a day of ticks.
LEMMA TicksGrow ==
  ASSUME NEW a \in Nat, NEW b \in Nat, a <= b
  PROVE  TicksOf(a) \in Nat /\ TicksOf(b) \in Nat /\ TicksOf(a) <= TicksOf(b)
<1>1. (a * 9) \div 50 \in Nat /\ (b * 9) \div 50 \in Nat /\ (a * 9) \div 50 <= (b * 9) \div 50
  OBVIOUS
<1>2. a \div 500 \in Nat /\ b \div 500 \in Nat /\ a \div 500 <= b \div 500
  OBVIOUS
<1> QED
  BY <1>1, <1>2 DEF TicksOf

\* A time of day has fewer ticks than a day.
LEMMA TicksInDay ==
  ASSUME NEW r \in 0 .. RawPerDay - 1
  PROVE  TicksOf(r) \in 0 .. TickPerDay - 1
<1>1. r \in Nat /\ RawPerDay - 1 \in Nat /\ r <= RawPerDay - 1
  BY ClockAssumption
<1>2. TicksOf(r) \in Nat /\ TicksOf(r) <= TicksOf(RawPerDay - 1)
  BY <1>1, TicksGrow
<1> QED
  BY <1>2, ClockAssumption

-----------------------------------------------------------------------------
(***************************************************************************)
(* The clock.                                                              *)
(***************************************************************************)

\* The offset is the epoch, or a day less: so the sum with the ticks of the day
\* misses the day by one day at most.
CInv ==
    /\ raw \in 0 .. RawPerDay - 1
    /\ epoch \in 0 .. TickPerDay - 1
    /\ offset = epoch \/ offset = epoch - TickPerDay
    /\ ClockRuns

\* With an offset of the epoch, or a day less, the counter is the epoch plus the ticks so far, within a day.
LEMMA CounterIsRemainder ==
  ASSUME NEW r \in 0 .. RawPerDay - 1, NEW e \in 0 .. TickPerDay - 1,
         NEW off, off = e \/ off = e - TickPerDay
  PROVE  /\ Counter(r, off) = (e + TicksOf(r)) % TickPerDay
         /\ Counter(r, off) \in 0 .. TickPerDay - 1
<1>1. TicksOf(r) \in 0 .. TickPerDay - 1
  BY TicksInDay
<1>2. TickPerDay \in Nat \ {0}
  BY ClockAssumption
<1> DEFINE t == TicksOf(r)
<1>3. (e + t) % TickPerDay = IF e + t < TickPerDay THEN e + t ELSE e + t - TickPerDay
  BY <1>1, <1>2, Remainder
<1> HIDE DEF t
<1>4. t \in 0 .. TickPerDay - 1
  BY <1>1 DEF t
<1>5. Counter(r, off) = LET sum == t + off
                            up  == IF sum < 0 THEN sum + TickPerDay ELSE sum
                        IN  IF up >= TickPerDay THEN up - TickPerDay ELSE up
  BY DEF Counter, t
<1>6. Counter(r, off) = IF e + t < TickPerDay THEN e + t ELSE e + t - TickPerDay
  BY <1>2, <1>4, <1>5
<1> QED
  BY <1>2, <1>3, <1>4, <1>6 DEF t

\* The clock starts in step.
LEMMA ClockInitInv == ClockInit => CInv /\ MidnightTold
<1> SUFFICES ASSUME ClockInit PROVE CInv /\ MidnightTold
  OBVIOUS
<1>1. RawPerDay \in Nat \ {0} /\ TickPerDay \in Nat \ {0}
  BY ClockAssumption
<1>2. TicksOf(0) = 0
  BY DEF TicksOf
<1>3. 0 % TickPerDay = 0
  BY <1>1, Remainder
<1>4. CInv
  BY <1>1, <1>2, <1>3 DEF ClockInit, CInv, ClockRuns
<1> QED
  BY <1>4 DEF ClockInit, MidnightTold

\* One interrupt: the new tick is below the old one exactly when midnight lies
\* between them.
LEMMA CountEffect ==
  ASSUME CInv, CountInterrupt
  PROVE  CInv' /\ (MidnightTold => MidnightTold')
<1> DEFINE past == IF raw + 1 >= RawPerDay THEN TickPerDay - TicksOf(raw)
                                           ELSE TicksOf(raw + 1) - TicksOf(raw)
<1>1. RawPerDay \in Nat \ {0} /\ TickPerDay \in Nat \ {0}
  BY ClockAssumption
<1>2. raw' \in 0 .. RawPerDay - 1
  BY <1>1 DEF CInv, CountInterrupt, Day
<1>3. offset' = offset /\ epoch' = epoch /\ tick' = Counter(raw', offset)
  BY DEF CountInterrupt
<1>4. /\ tick' = (epoch + TicksOf(raw')) % TickPerDay
      /\ tick' \in 0 .. TickPerDay - 1
  BY <1>2, <1>3, CounterIsRemainder DEF CInv
<1>5. CInv'
  BY <1>2, <1>3, <1>4 DEF CInv, ClockRuns
<1>6. tick = (epoch + TicksOf(raw)) % TickPerDay /\ epoch \in 0 .. TickPerDay - 1
  BY DEF CInv, ClockRuns
<1>7. TicksOf(raw) \in 0 .. TickPerDay - 1 /\ TicksOf(raw') \in 0 .. TickPerDay - 1
  BY <1>2, TicksInDay DEF CInv
<1>8. tick = IF epoch + TicksOf(raw) < TickPerDay THEN epoch + TicksOf(raw)
             ELSE epoch + TicksOf(raw) - TickPerDay
  BY <1>1, <1>6, <1>7, Remainder
<1>9. tick' = IF epoch + TicksOf(raw') < TickPerDay THEN epoch + TicksOf(raw')
              ELSE epoch + TicksOf(raw') - TickPerDay
  BY <1>1, <1>4, <1>6, <1>7, Remainder
<1>10. tick' < tick <=> tick + past >= TickPerDay
  <2>1. CASE raw + 1 >= RawPerDay
    <3>1. raw' = 0
      BY <2>1, <1>1 DEF CInv, CountInterrupt, Day
    <3>2. TicksOf(raw') = 0
      BY <3>1 DEF TicksOf
    <3>3. raw = RawPerDay - 1
      BY <2>1, <1>1 DEF CInv
    <3>4. TicksOf(raw) >= 1
      BY <3>3, ClockAssumption
    <3>5. past = TickPerDay - TicksOf(raw)
      BY <2>1
    <3> HIDE DEF past
    <3> QED
      BY <3>2, <3>4, <3>5, <1>1, <1>6, <1>7, <1>8, <1>9
  <2>2. CASE ~(raw + 1 >= RawPerDay)
    <3>1. raw' = raw + 1
      BY <2>2, <1>1 DEF CInv, CountInterrupt, Day
    <3>2. TicksOf(raw) <= TicksOf(raw')
      BY <3>1, TicksGrow DEF CInv
    <3>3. past = TicksOf(raw') - TicksOf(raw)
      BY <2>2, <3>1
    <3> HIDE DEF past
    <3> QED
      BY <3>2, <3>3, <1>1, <1>6, <1>7, <1>8, <1>9
  <2> QED
    BY <2>1, <2>2
<1>11. rollOver' = (rollOver \/ tick' < tick)
       /\ midnight' = (midnight \/ tick + past >= TickPerDay)
  BY DEF CountInterrupt
<1> HIDE DEF past
<1>12. MidnightTold => MidnightTold'
  BY <1>10, <1>11 DEF MidnightTold
<1> QED
  BY <1>5, <1>12

\* Asking for the time keeps the clock in step and the midnight flag exact.
LEMMA GetTimeEffect ==
  ASSUME CInv, int1a_handler_ah00
  PROVE  CInv' /\ (MidnightTold => MidnightTold')
BY DEF int1a_handler_ah00, CInv, ClockRuns, MidnightTold

\* A setting starts a new epoch, and the offset is again the epoch or a day less.
LEMMA SetTimeEffect ==
  ASSUME CInv, int1a_handler_ah01
  PROVE  CInv' /\ (MidnightTold => MidnightTold')
<1>1. PICK t \in SetTicks :
        /\ offset' = updateTickOffset(t) /\ tick' = t
        /\ epoch' = (t - TicksOf(raw)) % TickPerDay
        /\ UNCHANGED <<raw, rollOver, midnight>>
  BY DEF int1a_handler_ah01
<1>2. t \in 0 .. TickPerDay - 1 /\ TickPerDay \in Nat \ {0} /\ RawPerDay \in Nat \ {0}
  BY ClockAssumption
<1>3. raw \in 0 .. RawPerDay - 1 /\ raw' = raw
  BY <1>1 DEF CInv
<1>4. TicksOf(raw) \in 0 .. TickPerDay - 1
  BY <1>3, TicksInDay
<1>5. Day(raw) = raw
  BY <1>2, <1>3 DEF Day
<1>6. Counter(raw, 0) = TicksOf(raw)
  BY <1>2, <1>4 DEF Counter
<1>7. offset' = t - TicksOf(raw)
  BY <1>1, <1>5, <1>6 DEF updateTickOffset
<1>8. epoch' = IF t < TicksOf(raw) THEN t - TicksOf(raw) + TickPerDay
                                   ELSE t - TicksOf(raw)
  BY <1>1, <1>2, <1>4, Remainder
<1>9. epoch' \in 0 .. TickPerDay - 1 /\ (offset' = epoch' \/ offset' = epoch' - TickPerDay)
  BY <1>2, <1>4, <1>7, <1>8
<1>10. (epoch' + TicksOf(raw)) % TickPerDay = t
  <2>1. CASE t < TicksOf(raw)
    <3>1. epoch' + TicksOf(raw) = t + TickPerDay
      BY <2>1, <1>2, <1>4, <1>8
    <3> QED
      BY <3>1, <1>2, Remainder
  <2>2. CASE ~(t < TicksOf(raw))
    <3>1. epoch' + TicksOf(raw) = t
      BY <2>2, <1>2, <1>4, <1>8
    <3> QED
      BY <3>1, <1>2, Remainder
  <2> QED
    BY <2>1, <2>2
<1>11. CInv'
  BY <1>1, <1>3, <1>9, <1>10 DEF CInv, ClockRuns
<1>12. MidnightTold => MidnightTold'
  BY <1>1 DEF MidnightTold
<1> QED
  BY <1>11, <1>12

-----------------------------------------------------------------------------
(***************************************************************************)
(* The two together.                                                       *)
(***************************************************************************)

\* Every step of the BIOS is a step of the clock or leaves it alone, ...
LEMMA ClockStep == ASSUME [BiosNext]_allVars PROVE [ClockNext]_clock
BY DEF BiosNext, allVars, int_timer_default_handler, Keys16, Time1A, Video10, ClockNext

\* ... and a step of the keyboard or none of it.
LEMMA KeyboardStep == ASSUME [BiosNext]_allVars PROVE [Next]_vars
BY DEF BiosNext, allVars, int_timer_default_handler, Keys16, Time1A, Video10, Next

\* Every interrupt and every call keeps the clock in step.
LEMMA ClockStepInv ==
  ASSUME CInv, MidnightTold, [ClockNext]_clock
  PROVE  CInv' /\ MidnightTold'
<1>1. CASE UNCHANGED clock
  BY <1>1 DEF clock, CInv, ClockRuns, MidnightTold
<1>2. CASE ClockNext
  BY <1>2, CountEffect, GetTimeEffect, SetTimeEffect DEF ClockNext
<1> QED
  BY <1>1, <1>2

\* The clock is in step after any sequence of interrupts and calls.
LEMMA ClockInvariant == BiosSpec => [](CInv /\ MidnightTold)
<1>1. BiosInit => CInv /\ MidnightTold
  BY ClockInitInv DEF BiosInit
<1>2. CInv /\ MidnightTold /\ [BiosNext]_allVars => CInv' /\ MidnightTold'
  BY ClockStep, ClockStepInv
<1> QED
  BY <1>1, <1>2, PTL DEF BiosSpec

\* The clock runs on from the tick the guest has set, on this day and every other.
THEOREM ClockRunsHolds == BiosSpec => []ClockRuns
<1>1. CInv => ClockRuns
  BY DEF CInv
<1> QED
  BY <1>1, ClockInvariant, PTL

\* The flag tells of midnight when it has passed, and only then.
THEOREM MidnightToldHolds == BiosSpec => []MidnightTold
BY ClockInvariant, PTL

\* What the clock and the guest's use of it do leaves the keyboard what it is by
\* itself: every theorem of KeyboardProofs holds in the BIOS.
THEOREM BiosKeyboard ==
  BiosSpec => []TypeOK /\ []NeverStuck /\ []PeekIsPromise /\ []TypingIsKept /\ ImplementsKeyQueue
<1>1. BiosInit => Init
  BY DEF BiosInit
<1>2. [BiosNext]_allVars => [Next]_vars
  BY KeyboardStep
<1>3. BiosSpec => Spec
  BY <1>1, <1>2, PTL DEF BiosSpec, Spec
<1> QED
  BY <1>3, TypeCorrect, NeverStuckHolds, PeekIsPromiseHolds, TypingIsKeptHolds, KeyQueueImplemented

-----------------------------------------------------------------------------
(***************************************************************************)
(* Rows and columns.                                                       *)
(***************************************************************************)
RowOf(p) == p \div MAX_X

\* A column and a row make a place, which has them.
LEMMA PlaceIs ==
  ASSUME NEW x \in 0 .. MAX_X - 1, NEW y \in 0 .. MAX_Y - 1
  PROVE  Place(x, y) \in Places /\ Column(Place(x, y)) = x /\ RowOf(Place(x, y)) = y
<1>1. /\ MAX_X \in Nat \ {0} /\ MAX_Y \in Nat \ {0}
      /\ x \in Nat /\ x < MAX_X /\ y \in Nat /\ y + 1 <= MAX_Y
  BY ConsoleAssumption
<1>2. y * MAX_X \in Nat /\ (y + 1) * MAX_X <= MAX_Y * MAX_X
  BY <1>1
<1>3. (y + 1) * MAX_X = (y * MAX_X) + MAX_X /\ MAX_Y * MAX_X = MAX_X * MAX_Y /\ MAX_X * MAX_Y \in Nat
  BY <1>1
<1> DEFINE r == y * MAX_X
           s == MAX_X * MAX_Y
<1>4. r \in Nat /\ s \in Nat /\ r + MAX_X <= s
  BY <1>2, <1>3
<1> HIDE DEF r, s
<1>5. r + x \in 0 .. s - 1
  BY <1>1, <1>4
<1>6. Place(x, y) \in Places
  BY <1>5 DEF r, s, Place, Places
<1>7. \A k \in Nat \ {0} : \A i \in 0 .. k - 1, j \in Nat :
         ((j * k) + i) % k = i /\ ((j * k) + i) \div k = j
  OBVIOUS
<1> QED
  BY <1>1, <1>6, <1>7 DEF Place, Column, RowOf

\* Every place is one of a column and a row.
LEMMA PlaceOf ==
  ASSUME NEW p \in Places
  PROVE  /\ Column(p) \in 0 .. MAX_X - 1 /\ RowOf(p) \in 0 .. MAX_Y - 1
         /\ p = Place(Column(p), RowOf(p))
         /\ p \in Nat
<1>1. MAX_X \in Nat \ {0} /\ MAX_Y \in Nat \ {0}
  BY ConsoleAssumption
<1> DEFINE s == MAX_X * MAX_Y
<1>2. s \in Nat /\ p \in 0 .. s - 1
  BY <1>1 DEF Places
<1> HIDE DEF s
<1>3. p \in Nat /\ p < s
  BY <1>2
<1>4. \A k \in Nat \ {0} : \A n \in Nat : /\ n % k \in 0 .. k - 1 /\ n \div k \in Nat
                                           /\ n = ((n \div k) * k) + (n % k)
  OBVIOUS
<1>5. /\ p % MAX_X \in 0 .. MAX_X - 1 /\ p \div MAX_X \in Nat
      /\ p = ((p \div MAX_X) * MAX_X) + (p % MAX_X)
  BY <1>1, <1>3, <1>4
<1>6. p \div MAX_X < MAX_Y
  <2> DEFINE q == p \div MAX_X
  <2>1. q \in Nat /\ q * MAX_X <= p
    BY <1>1, <1>5
  <2> HIDE DEF q
  <2>2. ASSUME q >= MAX_Y PROVE FALSE
    <3>1. q * MAX_X >= MAX_Y * MAX_X
      BY <1>1, <2>1, <2>2
    <3>2. MAX_Y * MAX_X = s
      BY <1>1 DEF s
    <3>3. q * MAX_X \in Nat
      BY <1>1, <2>1
    <3> DEFINE r == q * MAX_X
    <3>4. r \in Nat /\ r <= p /\ r >= s
      BY <2>1, <3>1, <3>2, <3>3
    <3> HIDE DEF r
    <3> QED BY <1>2, <1>3, <3>4
  <2> QED BY <1>1, <2>1, <2>2 DEF q
<1> QED
  BY <1>1, <1>3, <1>5, <1>6 DEF Column, RowOf, Place

-----------------------------------------------------------------------------
(***************************************************************************)
(* Screens.                                                                *)
(***************************************************************************)
Byte == 0 .. 255
Cells == Byte \X Byte
Pictures == [Places -> Cells]
Spots == Nat \X Nat

Screens == [page : PageSet, pos : [PageSet -> Spots], bda : [PageSet -> Spots],
            buf : [PageSet -> Pictures], fb : Pictures, shown : [Places -> Nat \X Byte],
            at : Spots]

\* What the screen is cleared with are cells.
LEMMA Blanks == \A b \in Byte : <<32, b>> \in Cells /\ <<0, 0>> \in Cells
BY DEF Cells, Byte

\* A cell, byte by byte.
LEMMA CellBytes ==
  ASSUME NEW c, c \in Cells
  PROVE  /\ c[1] \in Byte /\ c[2] \in Byte /\ DOMAIN c = 1 .. 2
         /\ c = [i \in 1 .. 2 |-> c[i]]
BY DEF Cells

\* The bytes of a cell of a picture.
LEMMA CellOf ==
  ASSUME NEW c, c \in [1 .. 2 -> Byte]
  PROVE  c \in Cells
BY DEF Cells

\* A screen with another terminal, ...
LEMMA FieldShown ==
  ASSUME NEW m \in Screens, NEW s \in [Places -> Nat \X Byte], NEW n, n = [m EXCEPT !.shown = s]
  PROVE  /\ n \in Screens /\ n.page = m.page /\ n.pos = m.pos /\ n.bda = m.bda /\ n.buf = m.buf
         /\ n.fb = m.fb /\ n.shown = s /\ n.at = m.at
BY DEF Screens

\* ... with another display memory, ...
LEMMA FieldFb ==
  ASSUME NEW m \in Screens, NEW s \in Pictures, NEW n, n = [m EXCEPT !.fb = s]
  PROVE  /\ n \in Screens /\ n.page = m.page /\ n.pos = m.pos /\ n.bda = m.bda /\ n.buf = m.buf
         /\ n.fb = s /\ n.shown = m.shown /\ n.at = m.at
BY DEF Screens

\* ... with another cursor of the terminal, ...
LEMMA FieldAt ==
  ASSUME NEW m \in Screens, NEW s \in Spots, NEW n, n = [m EXCEPT !.at = s]
  PROVE  /\ n \in Screens /\ n.page = m.page /\ n.pos = m.pos /\ n.bda = m.bda /\ n.buf = m.buf
         /\ n.fb = m.fb /\ n.shown = m.shown /\ n.at = s
BY DEF Screens

\* One cell of a page's buffer is written.
WithCell(m, g, p, c) == [m EXCEPT !.buf[g][p] = c]

\* ... or with another cell in a page's buffer: the rest stays.
LEMMA FieldBuf ==
  ASSUME NEW m \in Screens, NEW g \in PageSet, NEW p \in Places, NEW c \in Cells, NEW n,
         n = WithCell(m, g, p, c)
  PROVE  /\ n \in Screens /\ n.page = m.page /\ n.pos = m.pos /\ n.bda = m.bda
         /\ n.buf = [m.buf EXCEPT ![g] = [m.buf[g] EXCEPT ![p] = c]]
         /\ n.fb = m.fb /\ n.shown = m.shown /\ n.at = m.at
BY DEF Screens, Pictures, WithCell

\* A cursor is set.
WithPos(m, g, s) == [m EXCEPT !.pos[g] = s]
WithBda(m, g, s) == [m EXCEPT !.bda[g] = s]

HasPos(m, n, g, s) ==
    /\ n \in Screens /\ n.page = m.page /\ n.pos = [m.pos EXCEPT ![g] = s] /\ n.bda = m.bda
    /\ n.buf = m.buf /\ n.fb = m.fb /\ n.shown = m.shown /\ n.at = m.at

LEMMA FieldPos ==
  ASSUME NEW m \in Screens, NEW g \in PageSet, NEW s \in Spots, NEW n, n = WithPos(m, g, s)
  PROVE  HasPos(m, n, g, s)
BY DEF Screens, WithPos, HasPos

\* The same of the cursor in the BIOS data area.
LEMMA FieldBda ==
  ASSUME NEW m \in Screens, NEW g \in PageSet, NEW s \in Spots, NEW n, n = WithBda(m, g, s)
  PROVE  /\ n \in Screens /\ n.page = m.page /\ n.bda = [m.bda EXCEPT ![g] = s] /\ n.pos = m.pos
         /\ n.buf = m.buf /\ n.fb = m.fb /\ n.shown = m.shown /\ n.at = m.at
BY DEF Screens, WithBda

-----------------------------------------------------------------------------
(***************************************************************************)
(* What a store into the display's memory does.                            *)
(***************************************************************************)
\* The terminal shows what is there, but for a first byte that waits.
Clean(m) == \A p \in Places : IS_SJIS_1STBYTE(m.fb[p][1]) \/ m.shown[p] = Look(m.fb[p])

\* What the terminal shows for a byte is a number.
LEMMA LookType ==
  ASSUME NEW c \in Byte
  PROVE  getCharacterForConsole(c) \in Nat
<1>1. c \in Nat
  BY DEF Byte
<1>2. \/ getCharacterForConsole(c) = 219 \/ getCharacterForConsole(c) = c
      \/ getCharacterForConsole(c) = 163 \/ getCharacterForConsole(c) = 32
  BY DEF getCharacterForConsole
<1> QED
  BY <1>1, <1>2

\* The display's memory then.
Put(fb, a, b) ==
    [p \in Places |-> [i \in 1 .. 2 |->
        IF (2 * p) + i - a \in DOMAIN b THEN b[(2 * p) + i - a] ELSE fb[p][i]]]

HasPut(m, n, a, b) ==
    /\ n \in Screens /\ n.page = m.page /\ n.pos = m.pos /\ n.bda = m.bda /\ n.buf = m.buf
    /\ n.shown = m.shown /\ n.at = m.at
    /\ n.fb = Put(m.fb, a, b)

\* A display memory with other bytes is one.
LEMMA PutType ==
  ASSUME NEW m \in Screens, NEW a \in Nat, NEW b \in Seq(Byte), NEW n, n = PutBytes(m, a, b)
  PROVE  HasPut(m, n, a, b)
<1> DEFINE F == [p \in Places |-> [i \in 1 .. 2 |->
                   IF (2 * p) + i - a \in DOMAIN b THEN b[(2 * p) + i - a] ELSE m.fb[p][i]]]
<1>1. n = [m EXCEPT !.fb = F]
  BY DEF PutBytes
<1>2. ASSUME NEW p \in Places PROVE F[p] \in Cells
  <2>1. m.fb[p] \in Cells
    BY DEF Screens, Pictures
  <2>2. m.fb[p][1] \in Byte /\ m.fb[p][2] \in Byte
    BY <2>1, CellBytes
  <2>3. \A i \in DOMAIN b : b[i] \in Byte
    OBVIOUS
  <2>4. F[p] \in [1 .. 2 -> Byte]
    BY <2>2, <2>3
  <2> QED BY <2>4, CellOf
<1>3. F \in Pictures
  BY <1>2 DEF Pictures
<1> HIDE DEF F
<1>4. n.fb = F
  BY <1>1, <1>3, FieldFb
<1> QED
  BY <1>1, <1>3, <1>4, FieldFb DEF F, Put, HasPut

\* The bytes of one cell are not those of another.
LEMMA ByteIndex ==
  ASSUME NEW p \in Nat, NEW q \in Nat, NEW i \in 1 .. 2, NEW h \in 0 .. 1
  PROVE  /\ 2 * p \in Nat /\ (2 * p) + h \in Nat
         /\ q # p => /\ (2 * q) + i - (2 * p) \notin 1 .. 2
                     /\ (2 * q) + i - ((2 * p) + h) \notin 1 .. 1
         /\ q = p => /\ (2 * q) + i - (2 * p) = i
                     /\ (2 * q) + i - ((2 * p) + h) = i - h
OBVIOUS

\* A cell is a sequence of bytes.
LEMMA CellSequence == ASSUME NEW c, c \in Cells PROVE c \in Seq(Byte)
<1>1. c = <<c[1], c[2]>> /\ c[1] \in Byte /\ c[2] \in Byte
  BY DEF Cells
<1>2. <<c[1], c[2]>> \in Seq(Byte)
  BY <1>1
<1> QED
  BY <1>1, <1>2

\* A store of a whole cell, and of half of it, change that cell only.
LEMMA CellPut ==
  ASSUME NEW m \in Screens, NEW p \in Places, NEW c, c \in Cells, NEW n, n = PutBytes(m, 2 * p, c)
  PROVE  n.fb = [m.fb EXCEPT ![p] = c]
<1> DEFINE a == 2 * p
<1>1. p \in Nat /\ a \in Nat /\ DOMAIN c = 1 .. 2
  BY PlaceOf, CellBytes
<1>7. a \in Nat /\ c \in Seq(Byte)
  BY PlaceOf, CellSequence
<1>5. n = PutBytes(m, a, c)
  OBVIOUS
<1>6. \A q \in Nat, i \in 1 .. 2 : /\ q # p => (2 * q) + i - a \notin 1 .. 2
                                   /\ q = p => (2 * q) + i - a = i
  BY <1>1, ByteIndex
<1> HIDE DEF a
<1>2. n.fb = [q \in Places |-> [i \in 1 .. 2 |->
                IF (2 * q) + i - a \in DOMAIN c THEN c[(2 * q) + i - a] ELSE m.fb[q][i]]]
  BY <1>5, <1>7, PutType DEF Put, HasPut
<1>3. ASSUME NEW q \in Places PROVE n.fb[q] = IF q = p THEN c ELSE m.fb[q]
  <2>1. q \in Nat
    BY PlaceOf
  <2>2. m.fb[q] = [i \in 1 .. 2 |-> m.fb[q][i]]
    BY CellBytes DEF Screens, Pictures
  <2>3. CASE q = p
    <3>1. \A i \in 1 .. 2 : (2 * q) + i - a = i
      BY <1>1, <1>6, <2>3
    <3>2. n.fb[q] = [i \in 1 .. 2 |-> c[i]]
      BY <1>1, <1>2, <3>1
    <3> QED BY <2>3, <3>2, CellBytes
  <2>4. CASE q # p
    <3>1. \A i \in 1 .. 2 : (2 * q) + i - a \notin 1 .. 2
      BY <1>1, <1>6, <2>1, <2>4
    <3>2. n.fb[q] = [i \in 1 .. 2 |-> m.fb[q][i]]
      BY <1>1, <1>2, <3>1
    <3> QED BY <2>2, <2>4, <3>2
  <2> QED BY <2>3, <2>4
<1>4. m.fb \in [Places -> Cells] /\ n.fb = [q \in Places |-> n.fb[q]]
  BY <1>2 DEF Screens, Pictures
<1> QED
  BY <1>3, <1>4

\* One byte stored is one half of a cell.
Halved(fb, p, h, c) == [fb EXCEPT ![p] = IF h = 0 THEN <<c, fb[p][2]>> ELSE <<fb[p][1], c>>]
HalfAt(p, h) == (2 * p) + h

LEMMA HalfPut ==
  ASSUME NEW m \in Screens, NEW p \in Places, NEW h \in 0 .. 1, NEW c \in Byte,
         NEW n, n = PutBytes(m, HalfAt(p, h), <<c>>)
  PROVE  n.fb = Halved(m.fb, p, h, c)
<1> DEFINE v == IF h = 0 THEN <<c, m.fb[p][2]>> ELSE <<m.fb[p][1], c>>
           b == <<c>>
           a == HalfAt(p, h)
<1>1. p \in Nat /\ b \in Seq(Byte) /\ DOMAIN b = 1 .. 1 /\ b[1] = c /\ a \in Nat
  BY PlaceOf DEF HalfAt
<1>5. n = PutBytes(m, a, b)
  OBVIOUS
<1>6. \A q \in Nat, i \in 1 .. 2 : /\ q # p => (2 * q) + i - a \notin 1 .. 1
                                   /\ q = p => (2 * q) + i - a = i - h
  BY <1>1, ByteIndex DEF HalfAt
<1> HIDE DEF a, b
<1>2. n.fb = [q \in Places |-> [i \in 1 .. 2 |->
                IF (2 * q) + i - a \in DOMAIN b THEN b[(2 * q) + i - a]
                ELSE m.fb[q][i]]]
  BY <1>1, <1>5, PutType DEF Put, HasPut
<1>3. ASSUME NEW q \in Places PROVE n.fb[q] = IF q = p THEN v ELSE m.fb[q]
  <2>1. q \in Nat
    BY PlaceOf
  <2>2. m.fb[q] = [i \in 1 .. 2 |-> m.fb[q][i]]
    BY CellBytes DEF Screens, Pictures
  <2>3. CASE q = p
    <3>1. \A i \in 1 .. 2 : (2 * q) + i - a = i - h /\ (i - h \in 1 .. 1 <=> i = h + 1)
      BY <1>1, <1>6, <2>3
    <3>2. n.fb[q] = [i \in 1 .. 2 |-> IF i = h + 1 THEN c ELSE m.fb[q][i]]
      BY <1>1, <1>2, <3>1
    <3>3. m.fb[p][1] \in Byte /\ m.fb[p][2] \in Byte
      BY CellBytes DEF Screens, Pictures
    <3>4. n.fb[q] = v
      BY <2>3, <3>2, <3>3
    <3> QED BY <2>3, <3>4
  <2>4. CASE q # p
    <3>1. \A i \in 1 .. 2 : (2 * q) + i - a \notin DOMAIN b
      BY <1>1, <1>6, <2>1, <2>4
    <3>2. n.fb[q] = [i \in 1 .. 2 |-> m.fb[q][i]]
      BY <1>2, <3>1
    <3> QED BY <2>2, <2>4, <3>2
  <2> QED BY <2>3, <2>4
<1>4. m.fb \in [Places -> Cells] /\ n.fb = [q \in Places |-> n.fb[q]]
  BY <1>2 DEF Screens, Pictures
<1> QED
  BY <1>3, <1>4 DEF Halved

\* A place that is taken for a first byte holds one.
LEMMA FirstByteIs ==
  ASSUME NEW fb \in Pictures, NEW p \in Places, FirstByte(fb, p)
  PROVE  IS_SJIS_1STBYTE(fb[p][1])
<1> DEFINE n == Column(p)
           One(k) == IS_SJIS_1STBYTE(fb[p - n + k][1])
           IsFirst(f) == f = [k \in 0 .. n |-> IF One(k) /\ (k = 0 \/ f[k - 1] = 0) THEN 1 ELSE 0]
           G == [x \in {0, 1} \X (1 .. n) |-> IF One(x[2]) /\ x[1] = 0 THEN 1 ELSE 0]
           start == IF One(0) THEN 1 ELSE 0
           c == CHOOSE f : IsFirst(f)
<1>1. n \in Nat /\ p \in Nat /\ p - n + n = p
  <2>1. p \in Nat /\ n \in 0 .. MAX_X - 1
    BY PlaceOf
  <2> HIDE DEF n
  <2> QED BY <2>1
<1>2. FirstByte(fb, p) <=> c[n] = 1
  BY DEF FirstByte
<1> HIDE DEF n, One
<1>3. G \in [{0, 1} \X (1 .. n) -> {0, 1}] /\ start \in {0, 1}
  OBVIOUS
<1>4. PICK f : Computed(f, {0, 1}, start, n, G)
  BY <1>1, <1>3, Recursion
<1>5. f \in [0 .. n -> {0, 1}] /\ f[0] = start
  BY <1>4 DEF Computed
<1>6. ASSUME NEW d \in 1 .. n PROVE f[d] = IF One(d) /\ f[d - 1] = 0 THEN 1 ELSE 0
  <2>1. d - 1 \in 0 .. n
    BY <1>1
  <2>2. f[d - 1] \in {0, 1}
    BY <1>5, <2>1
  <2>3. f[d] = G[<<f[d - 1], d>>]
    BY <1>4, Zenon DEF Computed
  <2> QED
    BY <2>2, <2>3
<1> HIDE DEF G
<1>7. IsFirst(f)
  <2>1. ASSUME NEW d \in 0 .. n
        PROVE  f[d] = IF One(d) /\ (d = 0 \/ f[d - 1] = 0) THEN 1 ELSE 0
    BY <1>1, <1>5, <1>6
  <2> QED BY <1>5, <2>1
<1>8. IsFirst(c)
  BY <1>7
<1> HIDE DEF c
<1>9. c[n] = 1 => One(n)
  BY <1>1, <1>8
<1> QED
  BY <1>1, <1>2, <1>9 DEF One

\* Printing one cell.
LEMMA ShownType ==
  ASSUME NEW m \in Screens, NEW ps, NEW t \in Byte, NEW n, n = Shown(m, ps, t)
  PROVE  /\ n \in Screens /\ n.page = m.page /\ n.pos = m.pos /\ n.bda = m.bda /\ n.buf = m.buf
         /\ n.fb = m.fb /\ n.at = m.at
         /\ \A q \in Places : n.shown[q] = IF q \in ps THEN <<getCharacterForConsole(m.fb[q][1]), t>>
                                           ELSE m.shown[q]
<1> DEFINE S == [q \in Places |-> IF q \in ps THEN <<getCharacterForConsole(m.fb[q][1]), t>>
                                  ELSE m.shown[q]]
<1>1. n = [m EXCEPT !.shown = S]
  BY DEF Shown
<1>2. ASSUME NEW q \in Places PROVE S[q] \in Nat \X Byte
  <2>1. m.shown[q] \in Nat \X Byte
    BY DEF Screens
  <2>2. getCharacterForConsole(m.fb[q][1]) \in Nat
    BY CellBytes, LookType DEF Screens, Pictures
  <2> QED BY <2>1, <2>2
<1>3. S \in [Places -> Nat \X Byte]
  BY <1>2
<1>4. \A q \in Places : S[q] = IF q \in ps THEN <<getCharacterForConsole(m.fb[q][1]), t>>
                               ELSE m.shown[q]
  OBVIOUS
<1> HIDE DEF S
<1> QED
  BY <1>1, <1>3, <1>4, FieldShown

\* A screen that is clean but for the cell at p is clean when it has been printed.
LEMMA ConsoleEffect ==
  ASSUME NEW m \in Screens, NEW a \in Nat, NEW p \in Places, p = a \div 2,
         NEW n, n = updateConsole(m, a)
  PROVE  /\ n \in Screens /\ n.page = m.page /\ n.pos = m.pos /\ n.bda = m.bda /\ n.buf = m.buf
         /\ n.fb = m.fb /\ n.at \in {m.at, m.bda[0]}
         /\ (\A q \in Places \ {p} : IS_SJIS_1STBYTE(m.fb[q][1]) \/ m.shown[q] = Look(m.fb[q]))
              => Clean(n)
<1> DEFINE pair == Column(p) > 0 /\ FirstByte(m.fb, p - 1)
           ps == IF pair THEN {p - 1, p} ELSE {p}
           s == Shown(m, ps, m.fb[p][2])
<1>1. m.fb \in Pictures /\ 0 \in PageSet /\ m.bda[0] \in Spots /\ m.fb[p][2] \in Byte
  <2>1. 0 \in PageSet
    BY VideoAssumption DEF PageSet
  <2> QED BY <2>1, CellBytes DEF Screens, Pictures
<1>2. CASE FirstByte(m.fb, p)
  <2>1. n = m
    BY <1>2 DEF updateConsole
  <2>2. IS_SJIS_1STBYTE(m.fb[p][1])
    BY <1>1, <1>2, FirstByteIs
  <2> QED BY <2>1, <2>2 DEF Clean
<1>3. CASE ~FirstByte(m.fb, p)
  <2>1. n = [s EXCEPT !.at = m.bda[0]]
    BY <1>3 DEF updateConsole
  <2>2. ASSUME NEW q \in Places, q \in ps, q # p
        PROVE  IS_SJIS_1STBYTE(m.fb[q][1])
    BY <1>1, <2>2, FirstByteIs
  <2>3. p \in ps
    OBVIOUS
  <2> HIDE DEF ps
  <2>4. /\ s \in Screens /\ s.page = m.page /\ s.pos = m.pos /\ s.bda = m.bda /\ s.buf = m.buf
        /\ s.fb = m.fb
        /\ \A q \in Places : s.shown[q] = IF q \in ps
             THEN <<getCharacterForConsole(m.fb[q][1]), m.fb[p][2]>> ELSE m.shown[q]
    BY <1>1, ShownType
  <2> HIDE DEF s
  <2>5. /\ n \in Screens /\ n.page = m.page /\ n.pos = m.pos /\ n.bda = m.bda /\ n.buf = m.buf
        /\ n.fb = m.fb /\ n.at = m.bda[0] /\ n.shown = s.shown
    BY <1>1, <2>1, <2>4, FieldAt
  <2>6. n.shown[p] = Look(n.fb[p])
    BY <2>3, <2>4, <2>5 DEF Look
  <2>7. ASSUME \A q \in Places \ {p} : IS_SJIS_1STBYTE(m.fb[q][1]) \/ m.shown[q] = Look(m.fb[q])
        PROVE  Clean(n)
    BY <2>2, <2>4, <2>5, <2>6, <2>7 DEF Clean
  <2> QED BY <2>5, <2>7
<1> QED
  BY <1>2, <1>3

\* What no store changes, and that a clean screen stays clean.
Kept(m, n) ==
    /\ n \in Screens /\ n.page = m.page /\ n.pos = m.pos /\ n.bda = m.bda
    /\ n.at \in {m.at, m.bda[0]}
    /\ Clean(m) => Clean(n)

\* A store keeps all but the display's memory, the terminal and its cursor.
LEMMA StoreEffect ==
  ASSUME NEW m \in Screens, NEW a \in Nat, NEW p \in Places, p = a \div 2, NEW b \in Seq(Byte),
         NEW n, n = writeDataMem(m, a, b)
  PROVE  /\ n \in Screens /\ n.page = m.page /\ n.pos = m.pos /\ n.bda = m.bda
         /\ n.at \in {m.at, m.bda[0]} /\ n.buf = m.buf /\ n.fb = PutBytes(m, a, b).fb
         /\ (\A q \in Places \ {p} : PutBytes(m, a, b).fb[q] = m.fb[q]) => Kept(m, n)
<1>0. m \in Screens /\ a \in Nat /\ b \in Seq(Byte)
  OBVIOUS
<1>1. PICK l : l = PutBytes(m, a, b)
  OBVIOUS
<1>2. n = updateConsole(l, a)
  BY <1>1 DEF writeDataMem
<1>3. /\ l \in Screens /\ l.page = m.page /\ l.pos = m.pos /\ l.bda = m.bda /\ l.buf = m.buf
      /\ l.shown = m.shown /\ l.at = m.at
  <2>1. HasPut(m, l, a, b)
    BY <1>0, <1>1, PutType
  <2> QED BY <2>1 DEF HasPut
<1>4. /\ n \in Screens /\ n.page = l.page /\ n.pos = l.pos /\ n.bda = l.bda /\ n.buf = l.buf
      /\ n.fb = l.fb /\ n.at \in {l.at, l.bda[0]}
      /\ (\A q \in Places \ {p} : IS_SJIS_1STBYTE(l.fb[q][1]) \/ l.shown[q] = Look(l.fb[q]))
           => Clean(n)
  BY <1>2, <1>3, ConsoleEffect
<1>5. ASSUME \A q \in Places \ {p} : l.fb[q] = m.fb[q], Clean(m) PROVE Clean(n)
  BY <1>3, <1>4, <1>5 DEF Clean
<1> QED
  BY <1>1, <1>3, <1>4, <1>5 DEF Kept

Written(B, p, c) == [B EXCEPT ![p] = c]

\* A store of a cell, and of half of one.
LEMMA CellStored ==
  ASSUME NEW m \in Screens, NEW p \in Places, NEW c, c \in Cells,
         NEW n, n = writeDataMem(m, 2 * p, c)
  PROVE  Kept(m, n) /\ n.buf = m.buf /\ n.fb = Written(m.fb, p, c)
<1>1. PutBytes(m, 2 * p, c).fb = [m.fb EXCEPT ![p] = c]
  BY CellPut
<1>2. m.fb \in [Places -> Cells]
  BY DEF Screens, Pictures
<1>3. \A q \in Places \ {p} : PutBytes(m, 2 * p, c).fb[q] = m.fb[q]
  BY <1>1, <1>2
<1>4. p \in Nat /\ c \in Seq(Byte)
  BY PlaceOf, CellSequence
<1>5. 2 * p \in Nat /\ (2 * p) \div 2 = p
  BY <1>4
<1> QED
  BY <1>1, <1>3, <1>4, <1>5, StoreEffect DEF Written

HasHalf(m, n, p, h, c) ==
    /\ Kept(m, n) /\ n.buf = m.buf
    /\ n.fb = [m.fb EXCEPT ![p] = IF h = 0 THEN <<c, m.fb[p][2]>> ELSE <<m.fb[p][1], c>>]

\* A byte stored: so is the display's memory.
LEMMA HalfStored ==
  ASSUME NEW m \in Screens, NEW p \in Places, NEW h \in 0 .. 1, NEW c \in Byte,
         NEW n, n = writeDataMem(m, (2 * p) + h, <<c>>)
  PROVE  HasHalf(m, n, p, h, c)
<1>1. PICK a, b, l : a = HalfAt(p, h) /\ b = <<c>> /\ l = PutBytes(m, a, b)
  OBVIOUS
<1>2. l.fb = Halved(m.fb, p, h, c)
  BY <1>1, HalfPut
<1>3. m.fb \in [Places -> Cells]
  BY DEF Screens, Pictures
<1>4. \A q \in Places \ {p} : l.fb[q] = m.fb[q]
  BY <1>2, <1>3 DEF Halved
<1>5. a \in Nat /\ a \div 2 = p /\ b \in Seq(Byte)
  <2>1. p \in Nat
    BY PlaceOf
  <2> QED BY <1>1, <2>1 DEF HalfAt
<1>6. \A q \in Places \ {p} : PutBytes(m, a, b).fb[q] = m.fb[q]
  BY <1>1, <1>4
<1>7. n = writeDataMem(m, a, b)
  BY <1>1 DEF HalfAt
<1>8. Kept(m, n) /\ n.buf = m.buf /\ n.fb = PutBytes(m, a, b).fb
  <2>1. n = writeDataMem(m, a, b) /\ p = a \div 2
    BY <1>5, <1>7
  <2> QED BY <1>5, <1>6, <2>1, StoreEffect
<1> QED
  BY <1>1, <1>2, <1>8 DEF HasHalf, Halved

-----------------------------------------------------------------------------
(***************************************************************************)
(* What the functions make of the displayed page and of the display.       *)
(***************************************************************************)
Page(m) == m.buf[m.page]

\* The displayed page has become B, the display's memory F.
Became(m, n, B, F) ==
    /\ Kept(m, n)
    /\ B \in Pictures /\ F \in Pictures
    /\ n.buf = [m.buf EXCEPT ![m.page] = B] /\ n.fb = F

\* The parts of a screen.
LEMMA ScreenParts ==
  ASSUME NEW m \in Screens
  PROVE  /\ m.page \in PageSet /\ Page(m) \in [Places -> Cells] /\ Page(m) \in Pictures
         /\ m.fb \in [Places -> Cells] /\ m.fb \in Pictures
         /\ m.buf \in [PageSet -> Pictures] /\ m.pos \in [PageSet -> Spots]
         /\ m.bda \in [PageSet -> Spots] /\ m.at \in Spots
BY DEF Screens, Page, Pictures

\* Nothing has become of a screen that is the same, ...
LEMMA BecameSelf ==
  ASSUME NEW m \in Screens
  PROVE  Became(m, m, Page(m), m.fb)
BY ScreenParts DEF Became, Kept, Page

\* ... what has become of one is there, ...
LEMMA BecamePage ==
  ASSUME NEW m \in Screens, NEW n, NEW B, NEW F, Became(m, n, B, F)
  PROVE  n \in Screens /\ Page(n) = B /\ n.fb = F /\ n.page = m.page
BY ScreenParts DEF Became, Kept, Page

\* ... and of what has become something more may become.
LEMMA BecameTwice ==
  ASSUME NEW m \in Screens, NEW n, NEW o, NEW B, NEW F, NEW C, NEW E,
         Became(m, n, B, F), Became(n, o, C, E)
  PROVE  Became(m, o, C, E)
<1>1. Kept(m, o)
  BY DEF Became, Kept
<1>2. o.buf = [m.buf EXCEPT ![m.page] = C]
  BY ScreenParts DEF Became, Kept
<1> QED
  BY <1>1, <1>2 DEF Became

\* One cell of the page and one of the display's memory.
LEMMA CellCopied ==
  ASSUME NEW m \in Screens, NEW p \in Places, NEW c, c \in Cells, NEW d, d \in Cells, NEW n,
         n = writeDataMem([m EXCEPT !.buf[m.page][p] = c], 2 * p, d)
  PROVE  Became(m, n, Written(Page(m), p, c), Written(m.fb, p, d))
<1>1. m.page \in PageSet /\ Page(m) \in [Places -> Cells] /\ m.fb \in [Places -> Cells]
  BY ScreenParts
<1>2. PICK l : l = WithCell(m, m.page, p, c)
  OBVIOUS
<1>3. n = writeDataMem(l, 2 * p, d)
  BY <1>2 DEF WithCell
<1>4. /\ l \in Screens /\ l.page = m.page /\ l.pos = m.pos /\ l.bda = m.bda
      /\ l.buf = [m.buf EXCEPT ![m.page] = [m.buf[m.page] EXCEPT ![p] = c]]
      /\ l.fb = m.fb /\ l.shown = m.shown /\ l.at = m.at
  BY <1>1, <1>2, FieldBuf
<1>5. Kept(l, n) /\ n.buf = l.buf /\ n.fb = Written(l.fb, p, d)
  BY <1>3, <1>4, CellStored
<1>6. Kept(m, n)
  BY <1>4, <1>5 DEF Kept, Clean
<1>7. [Page(m) EXCEPT ![p] = c] \in Pictures /\ [m.fb EXCEPT ![p] = d] \in Pictures
  BY <1>1 DEF Pictures
<1> QED
  BY <1>4, <1>5, <1>6, <1>7 DEF Became, Page, Written

\* updateDispBuf writes a cell of both.
LEMMA CellUpdated ==
  ASSUME NEW m \in Screens, NEW p \in Places, NEW c, c \in Cells, NEW n,
         n = updateDispBuf(m, p, c)
  PROVE  Became(m, n, Written(Page(m), p, c), Written(m.fb, p, c))
BY CellCopied DEF updateDispBuf

-----------------------------------------------------------------------------
(***************************************************************************)
(* Loops.                                                                  *)
(***************************************************************************)
\* A loop has a screen for each of its steps.
Runs(f, m, a, b, G) ==
    /\ f \in [a - 1 .. b -> Screens] /\ f[a - 1] = m
    /\ \A k \in a .. b : f[k] = G[<<f[k - 1], k>>]

Body(G, a, b) == G \in [Screens \X (a .. b) -> Screens]

\* There is the function that For evaluates.
LEMMA LoopExists ==
  ASSUME NEW m \in Screens, NEW a \in Int, NEW b \in Int, a <= b, NEW G, Body(G, a, b)
  PROVE  \E f : Runs(f, m, a, b, G)
<1> DEFINE n == b - a + 1
           H == [x \in Screens \X (1 .. n) |-> G[<<x[1], x[2] + a - 1>>]]
<1>1. n \in Nat /\ \A k \in 1 .. n : k + a - 1 \in a .. b
  OBVIOUS
<1>2. H \in [Screens \X (1 .. n) -> Screens]
  BY <1>1 DEF Body
<1>3. \A s \in Screens, k \in 1 .. n : H[<<s, k>>] = G[<<s, k + a - 1>>]
  OBVIOUS
<1> HIDE DEF H
<1>4. PICK g : Computed(g, Screens, m, n, H)
  BY <1>1, <1>2, Recursion
<1> DEFINE f == [k \in a - 1 .. b |-> g[k - a + 1]]
<1>5. g \in [0 .. n -> Screens] /\ g[0] = m /\ \A d \in 1 .. n : g[d] = H[<<g[d - 1], d>>]
  BY <1>4 DEF Computed
<1>6. f \in [a - 1 .. b -> Screens] /\ f[a - 1] = m
  BY <1>5
<1>7. ASSUME NEW k \in a .. b PROVE f[k] = G[<<f[k - 1], k>>]
  <2> DEFINE d == k - a + 1
  <2>1. d \in 1 .. n /\ d - 1 \in 0 .. n /\ d + a - 1 = k /\ d - 1 = (k - 1) - a + 1
    OBVIOUS
  <2>2. f[k] = g[d] /\ f[k - 1] = g[d - 1]
    BY <2>1
  <2> HIDE DEF d, n, f
  <2>3. g[d - 1] \in Screens /\ g[d] = H[<<g[d - 1], d>>]
    BY <1>5, <2>1
  <2> QED BY <1>3, <2>1, <2>2, <2>3
<1> QED
  BY <1>6, <1>7 DEF Runs

\* What is true before it and kept by its steps is true behind it.
LEMMA LoopInduction ==
  ASSUME NEW a \in Int, NEW b \in Int, a <= b, NEW T, a - 1 \in T,
         \A k \in a .. b : k - 1 \in T => k \in T
  PROVE  b \in T
<1> DEFINE U == {i \in Nat : a - 1 + i <= b => a - 1 + i \in T}
<1>1. 0 \in U
  OBVIOUS
<1>2. ASSUME NEW i \in Nat, i \in U PROVE i + 1 \in U
  <2>1. CASE a - 1 + (i + 1) <= b
    <3>1. a + i \in a .. b /\ (a + i) - 1 = a - 1 + i /\ a - 1 + (i + 1) = a + i
      BY <2>1
    <3>2. a - 1 + i \in T
      BY <1>2, <2>1
    <3> QED BY <3>1, <3>2
  <2> QED BY <2>1
<1> HIDE DEF U
<1>3. b - a + 1 \in Nat /\ b - a + 1 \in U
  BY <1>1, <1>2, SetInduction
<1> QED
  BY <1>3 DEF U

-----------------------------------------------------------------------------
(***************************************************************************)
(* Windows, and rows that are filled and moved.                            *)
(***************************************************************************)
Window(x1, y1, x2, y2) == {q \in Places : Column(q) \in x1 .. x2 /\ RowOf(q) \in y1 .. y2}
Filled(B, W, c) == [q \in Places |-> IF q \in W THEN c ELSE B[q]]
Moved(B, W, d) == [q \in Places |-> IF q \in W THEN B[Place(Column(q), RowOf(q) + d)] ELSE B[q]]

\* Pictures with the same cells are the same.
LEMMA SamePicture ==
  ASSUME NEW B \in Pictures, NEW C \in Pictures, \A q \in Places : B[q] = C[q]
  PROVE  B = C
BY DEF Pictures

\* Filling gives a picture, ...
LEMMA FilledType ==
  ASSUME NEW B \in Pictures, NEW W, NEW c, c \in Cells
  PROVE  /\ Filled(B, W, c) \in Pictures
         /\ \A q \in Places : Filled(B, W, c)[q] = IF q \in W THEN c ELSE B[q]
BY DEF Filled, Pictures

\* ... and so does writing a cell, ...
LEMMA WrittenType ==
  ASSUME NEW B \in Pictures, NEW p \in Places, NEW c, c \in Cells
  PROVE  /\ Written(B, p, c) \in Pictures
         /\ \A q \in Places : Written(B, p, c)[q] = IF q = p THEN c ELSE B[q]
BY DEF Pictures, Written

\* ... and filling nothing changes nothing.
LEMMA FilledNone ==
  ASSUME NEW B \in Pictures, NEW W, W \cap Places = {}, NEW c, c \in Cells
  PROVE  Filled(B, W, c) = B
<1>1. \A q \in Places : Filled(B, W, c)[q] = B[q]
  BY FilledType
<1> QED
  BY <1>1, FilledType, SamePicture

\* One cell more.
LEMMA FilledMore ==
  ASSUME NEW B \in Pictures, NEW V, NEW W, NEW p \in Places, NEW c, c \in Cells,
         \A q \in Places : q \in W <=> (q \in V \/ q = p)
  PROVE  Written(Filled(B, V, c), p, c) = Filled(B, W, c)
<1> DEFINE E == Filled(B, V, c)
           L == Written(E, p, c)
           R == Filled(B, W, c)
<1>1. E \in Pictures /\ \A q \in Places : E[q] = IF q \in V THEN c ELSE B[q]
  BY FilledType
<1>2. R \in Pictures /\ \A q \in Places : R[q] = IF q \in W THEN c ELSE B[q]
  BY FilledType
<1> HIDE DEF E, R
<1>3. L \in Pictures /\ \A q \in Places : L[q] = IF q = p THEN c ELSE E[q]
  BY <1>1, WrittenType
<1> HIDE DEF L
<1>4. \A q \in Places : L[q] = R[q]
  BY <1>1, <1>2, <1>3
<1>5. L = R
  BY <1>2, <1>3, <1>4, SamePicture
<1> QED
  BY <1>5 DEF L, R, E

\* A row grows by a cell.
LEMMA WindowCell ==
  ASSUME NEW y \in 0 .. MAX_Y - 1, NEW x1 \in Nat, NEW k \in Nat, k >= x1, k <= MAX_X - 1
  PROVE  /\ Place(k, y) \in Places
         /\ \A q \in Places : q \in Window(x1, y, k, y)
                                <=> (q \in Window(x1, y, k - 1, y) \/ q = Place(k, y))
<1>1. MAX_X \in Nat \ {0} /\ MAX_Y \in Nat \ {0}
  BY ConsoleAssumption
<1>2. k \in 0 .. MAX_X - 1
  BY <1>1
<1>3. Place(k, y) \in Places /\ Column(Place(k, y)) = k /\ RowOf(Place(k, y)) = y
  BY <1>2, PlaceIs
<1>4. ASSUME NEW q \in Places
      PROVE  q \in Window(x1, y, k, y) <=> (q \in Window(x1, y, k - 1, y) \/ q = Place(k, y))
  <2>1. Column(q) \in 0 .. MAX_X - 1 /\ RowOf(q) \in 0 .. MAX_Y - 1 /\ q = Place(Column(q), RowOf(q))
    BY PlaceOf
  <2> DEFINE i == Column(q)
             j == RowOf(q)
  <2>2. i \in Nat /\ j \in Nat /\ q = Place(i, j) /\ i = Column(q) /\ j = RowOf(q) /\ y \in Nat
    BY <1>1, <2>1
  <2> HIDE DEF i, j
  <2>3. q = Place(k, y) <=> (i = k /\ j = y)
    BY <1>3, <2>2
  <2>4. i \in x1 .. k <=> (i \in x1 .. k - 1 \/ i = k)
    BY <2>2
  <2>5. j \in y .. y <=> j = y
    BY <2>2
  <2> QED BY <2>2, <2>3, <2>4, <2>5 DEF Window
<1> QED
  BY <1>3, <1>4

\* A window without columns or rows has no places.
LEMMA NoWindow ==
  ASSUME NEW x1 \in Int, NEW y1 \in Int, NEW x2 \in Int, NEW y2 \in Int, x2 < x1 \/ y2 < y1
  PROVE  Window(x1, y1, x2, y2) \cap Places = {}
<1>1. x1 .. x2 = {} \/ y1 .. y2 = {}
  OBVIOUS
<1> QED
  BY <1>1 DEF Window

\* FillRow fills a part of a row of both.
LEMMA RowFilled ==
  ASSUME NEW m \in Screens, NEW y \in 0 .. MAX_Y - 1, NEW x1 \in Nat, NEW x2 \in 0 .. MAX_X - 1,
         NEW c, c \in Cells, NEW n, n = FillRow(m, y, x1, x2, c)
  PROVE  Became(m, n, Filled(Page(m), Window(x1, y, x2, y), c), Filled(m.fb, Window(x1, y, x2, y), c))
<1>1. MAX_X \in Nat \ {0} /\ MAX_Y \in Nat \ {0} /\ x2 \in Nat /\ x2 <= MAX_X - 1 /\ y \in Nat
  BY ConsoleAssumption
<1>2. Page(m) \in Pictures /\ m.fb \in Pictures
  BY ScreenParts
<1> DEFINE W(k) == Window(x1, y, k, y)
           IsFor(f) == f = [k \in x1 - 1 .. x2 |->
                              IF k < x1 THEN m ELSE updateDispBuf(f[k - 1], Place(k, y), c)]
           e == CHOOSE f : IsFor(f)
<1>3. CASE x2 < x1
  <2>1. n = m
    BY <1>1, <1>3 DEF FillRow, For
  <2>2. W(x2) \cap Places = {}
    BY <1>1, <1>3, NoWindow
  <2>3. Filled(Page(m), W(x2), c) = Page(m) /\ Filled(m.fb, W(x2), c) = m.fb
    BY <1>2, <2>2, FilledNone
  <2> QED BY <2>1, <2>3, BecameSelf
<1>4. CASE x1 <= x2
  <2>1. n = e[x2]
    BY <1>1, <1>4 DEF FillRow, For
  <2> DEFINE G == [z \in Screens \X (x1 .. x2) |-> updateDispBuf(z[1], Place(z[2], y), c)]
  <2>2. ASSUME NEW s \in Screens, NEW k \in x1 .. x2, NEW t, t = updateDispBuf(s, Place(k, y), c)
        PROVE  Became(s, t, Written(Page(s), Place(k, y), c), Written(s.fb, Place(k, y), c))
    <3>1. k \in Nat /\ k >= x1 /\ k <= MAX_X - 1
      BY <1>1
    <3>2. Place(k, y) \in Places
      BY <3>1, WindowCell
    <3> QED BY <2>2, <3>2, CellUpdated
  <2>3. ASSUME NEW z \in Screens \X (x1 .. x2) PROVE G[z] \in Screens
    <3>1. z[1] \in Screens /\ z[2] \in x1 .. x2 /\ G[z] = updateDispBuf(z[1], Place(z[2], y), c)
      OBVIOUS
    <3> HIDE DEF G
    <3>2. PICK t : t = updateDispBuf(z[1], Place(z[2], y), c)
      OBVIOUS
    <3>3. t \in Screens
      BY <2>2, <3>1, <3>2 DEF Became, Kept
    <3> QED BY <3>1, <3>2, <3>3
  <2>4. Body(G, x1, x2)
    BY <2>3 DEF Body
  <2>5. \A s \in Screens, k \in x1 .. x2 : G[<<s, k>>] = updateDispBuf(s, Place(k, y), c)
    OBVIOUS
  <2> HIDE DEF G
  <2>6. PICK f : Runs(f, m, x1, x2, G)
    BY <1>1, <1>4, <2>4, LoopExists
  <2>7. ASSUME NEW k \in x1 .. x2 PROVE f[k] = updateDispBuf(f[k - 1], Place(k, y), c)
    <3>1. k - 1 \in x1 - 1 .. x2
      BY <1>1
    <3> QED BY <2>5, <2>6, <3>1 DEF Runs
  <2>8. IsFor(f)
    <3>1. ASSUME NEW k \in x1 - 1 .. x2
          PROVE  f[k] = IF k < x1 THEN m ELSE updateDispBuf(f[k - 1], Place(k, y), c)
      <4>1. k < x1 => k = x1 - 1
        BY <1>1
      <4>2. ~(k < x1) => k \in x1 .. x2
        BY <1>1
      <4> QED BY <2>6, <2>7, <4>1, <4>2 DEF Runs
    <3> QED BY <2>6, <3>1 DEF Runs
  <2>9. IsFor(e)
    BY <2>8
  <2> HIDE DEF e
  <2>10. e[x1 - 1] = m /\ \A k \in x1 .. x2 : e[k] = updateDispBuf(e[k - 1], Place(k, y), c)
    <3>1. x1 - 1 \in x1 - 1 .. x2 /\ x1 - 1 < x1
      BY <1>1, <1>4
    <3>2. \A k \in x1 .. x2 : k \in x1 - 1 .. x2 /\ ~(k < x1)
      BY <1>1
    <3> QED BY <2>9, <3>1, <3>2
  <2> DEFINE So(k) == Became(m, e[k], Filled(Page(m), W(k), c), Filled(m.fb, W(k), c))
             T == {k \in Int : So(k)}
  <2>11. x1 - 1 \in T
    <3>1. W(x1 - 1) \cap Places = {}
      BY <1>1, NoWindow
    <3>2. Filled(Page(m), W(x1 - 1), c) = Page(m) /\ Filled(m.fb, W(x1 - 1), c) = m.fb
      BY <1>2, <3>1, FilledNone
    <3> QED BY <2>10, <3>2, BecameSelf
  <2>12. ASSUME NEW k \in x1 .. x2, k - 1 \in T PROVE k \in T
    <3> DEFINE s == e[k - 1]
               t == e[k]
               p == Place(k, y)
               B == Filled(Page(m), W(k - 1), c)
               F == Filled(m.fb, W(k - 1), c)
    <3>1. /\ k \in Nat /\ k >= x1 /\ k <= MAX_X - 1
      BY <1>1
    <3>2. p \in Places /\ \A q \in Places : q \in W(k) <=> (q \in W(k - 1) \/ q = p)
      BY <3>1, WindowCell
    <3>3. Written(B, p, c) = Filled(Page(m), W(k), c) /\ Written(F, p, c) = Filled(m.fb, W(k), c)
      BY <1>2, <3>2, FilledMore
    <3>4. Became(m, s, B, F)
      BY <2>12
    <3>5. t = updateDispBuf(s, p, c)
      BY <2>10
    <3> HIDE DEF s, t, p, B, F, W
    <3>6. s \in Screens /\ Page(s) = B /\ s.fb = F
      BY <3>4, BecamePage
    <3>7. Became(s, t, Written(B, p, c), Written(F, p, c))
      BY <2>2, <3>5, <3>6 DEF p
    <3>8. Became(m, t, Filled(Page(m), W(k), c), Filled(m.fb, W(k), c))
      BY <3>3, <3>4, <3>7, BecameTwice
    <3> QED BY <3>1, <3>8 DEF t
  <2> HIDE DEF T
  <2>13. x2 \in T
    BY <1>1, <1>4, <2>11, <2>12, LoopInduction
  <2> QED BY <2>1, <2>13 DEF T
<1> QED
  BY <1>1, <1>3, <1>4

\* One part more.
LEMMA FilledBoth ==
  ASSUME NEW B \in Pictures, NEW V, NEW U, NEW W, NEW c, c \in Cells,
         \A q \in Places : q \in W <=> (q \in V \/ q \in U)
  PROVE  Filled(Filled(B, V, c), U, c) = Filled(B, W, c)
<1> DEFINE E == Filled(B, V, c)
           L == Filled(E, U, c)
           R == Filled(B, W, c)
<1>1. E \in Pictures /\ \A q \in Places : E[q] = IF q \in V THEN c ELSE B[q]
  BY FilledType
<1>2. R \in Pictures /\ \A q \in Places : R[q] = IF q \in W THEN c ELSE B[q]
  BY FilledType
<1> HIDE DEF E, R
<1>3. L \in Pictures /\ \A q \in Places : L[q] = IF q \in U THEN c ELSE E[q]
  BY <1>1, FilledType
<1> HIDE DEF L
<1>4. \A q \in Places : L[q] = R[q]
  BY <1>1, <1>2, <1>3
<1>5. L = R
  BY <1>2, <1>3, <1>4, SamePicture
<1> QED
  BY <1>5 DEF L, R, E

\* A window grows by a row.
LEMMA WindowRow ==
  ASSUME NEW x1 \in Int, NEW x2 \in Int, NEW y1 \in Int, NEW k \in Int, k >= y1
  PROVE  \A q \in Places : q \in Window(x1, y1, x2, k)
                              <=> (q \in Window(x1, y1, x2, k - 1) \/ q \in Window(x1, k, x2, k))
<1>1. ASSUME NEW q \in Places
      PROVE  RowOf(q) \in y1 .. k <=> (RowOf(q) \in y1 .. k - 1 \/ RowOf(q) \in k .. k)
  <2>1. MAX_Y \in Nat /\ RowOf(q) \in 0 .. MAX_Y - 1
    BY PlaceOf, ConsoleAssumption
  <2> DEFINE j == RowOf(q)
  <2>2. j \in Nat
    BY <2>1
  <2> HIDE DEF j
  <2>3. j \in y1 .. k <=> (j \in y1 .. k - 1 \/ j \in k .. k)
    BY <2>2
  <2> QED BY <2>3 DEF j
<1> QED
  BY <1>1 DEF Window

\* FillRows fills a window of both.
LEMMA RowsFilled ==
  ASSUME NEW m \in Screens, NEW y1 \in Nat, NEW y2 \in 0 .. MAX_Y - 1, NEW x1 \in Nat,
         NEW x2 \in 0 .. MAX_X - 1, NEW c, c \in Cells, NEW n, n = FillRows(m, y1, y2, x1, x2, c)
  PROVE  Became(m, n, Filled(Page(m), Window(x1, y1, x2, y2), c),
                Filled(m.fb, Window(x1, y1, x2, y2), c))
<1>1. MAX_X \in Nat \ {0} /\ MAX_Y \in Nat \ {0} /\ x2 \in Nat /\ y2 \in Nat /\ y2 <= MAX_Y - 1
  BY ConsoleAssumption
<1>2. Page(m) \in Pictures /\ m.fb \in Pictures
  BY ScreenParts
<1> DEFINE IsFor(f) == f = [k \in y1 - 1 .. y2 |->
                              IF k < y1 THEN m ELSE FillRow(f[k - 1], k, x1, x2, c)]
           e == CHOOSE f : IsFor(f)
           W(k) == Window(x1, y1, x2, k)
<1>3. CASE y2 < y1
  <2>1. n = m
    BY <1>1, <1>3 DEF FillRows, For
  <2>2. W(y2) \cap Places = {}
    BY <1>1, <1>3, NoWindow
  <2>3. Filled(Page(m), W(y2), c) = Page(m) /\ Filled(m.fb, W(y2), c) = m.fb
    BY <1>2, <2>2, FilledNone
  <2> QED BY <2>1, <2>3, BecameSelf
<1>4. CASE y1 <= y2
  <2>1. n = e[y2]
    BY <1>1, <1>4 DEF FillRows, For
  <2> DEFINE G == [z \in Screens \X (y1 .. y2) |-> FillRow(z[1], z[2], x1, x2, c)]
  <2>2. ASSUME NEW s \in Screens, NEW k \in y1 .. y2, NEW t, t = FillRow(s, k, x1, x2, c)
        PROVE  Became(s, t, Filled(Page(s), Window(x1, k, x2, k), c), Filled(s.fb, Window(x1, k, x2, k), c))
    <3>1. k \in 0 .. MAX_Y - 1
      BY <1>1
    <3> QED BY <2>2, <3>1, RowFilled
  <2>3. ASSUME NEW z \in Screens \X (y1 .. y2) PROVE G[z] \in Screens
    <3>1. z[1] \in Screens /\ z[2] \in y1 .. y2 /\ G[z] = FillRow(z[1], z[2], x1, x2, c)
      OBVIOUS
    <3> HIDE DEF G
    <3>2. PICK t : t = FillRow(z[1], z[2], x1, x2, c)
      OBVIOUS
    <3>3. t \in Screens
      BY <2>2, <3>1, <3>2 DEF Became, Kept
    <3> QED BY <3>1, <3>2, <3>3
  <2>4. Body(G, y1, y2)
    BY <2>3 DEF Body
  <2>5. \A s \in Screens, k \in y1 .. y2 : G[<<s, k>>] = FillRow(s, k, x1, x2, c)
    OBVIOUS
  <2> HIDE DEF G
  <2>6. PICK f : Runs(f, m, y1, y2, G)
    BY <1>1, <1>4, <2>4, LoopExists
  <2>7. ASSUME NEW k \in y1 .. y2 PROVE f[k] = FillRow(f[k - 1], k, x1, x2, c)
    <3>1. k - 1 \in y1 - 1 .. y2
      BY <1>1
    <3> QED BY <2>5, <2>6, <3>1 DEF Runs
  <2>8. IsFor(f)
    <3>1. ASSUME NEW k \in y1 - 1 .. y2
          PROVE  f[k] = IF k < y1 THEN m ELSE FillRow(f[k - 1], k, x1, x2, c)
      <4>1. k < y1 => k = y1 - 1
        BY <1>1
      <4>2. ~(k < y1) => k \in y1 .. y2
        BY <1>1
      <4> QED BY <2>6, <2>7, <4>1, <4>2 DEF Runs
    <3> QED BY <2>6, <3>1 DEF Runs
  <2>9. IsFor(e)
    BY <2>8
  <2> HIDE DEF e
  <2>10. e[y1 - 1] = m /\ \A k \in y1 .. y2 : e[k] = FillRow(e[k - 1], k, x1, x2, c)
    <3>1. y1 - 1 \in y1 - 1 .. y2 /\ y1 - 1 < y1
      BY <1>1, <1>4
    <3>2. \A k \in y1 .. y2 : k \in y1 - 1 .. y2 /\ ~(k < y1)
      BY <1>1
    <3> QED BY <2>9, <3>1, <3>2
  <2> DEFINE So(k) == Became(m, e[k], Filled(Page(m), W(k), c), Filled(m.fb, W(k), c))
             T == {k \in Int : So(k)}
  <2>11. y1 - 1 \in T
    <3>1. W(y1 - 1) \cap Places = {}
      BY <1>1, NoWindow
    <3>2. Filled(Page(m), W(y1 - 1), c) = Page(m) /\ Filled(m.fb, W(y1 - 1), c) = m.fb
      BY <1>2, <3>1, FilledNone
    <3> QED BY <2>10, <3>2, BecameSelf
  <2>12. ASSUME NEW k \in y1 .. y2, k - 1 \in T PROVE k \in T
    <3> DEFINE s == e[k - 1]
               t == e[k]
               V == Window(x1, k, x2, k)
               B == Filled(Page(m), W(k - 1), c)
               F == Filled(m.fb, W(k - 1), c)
    <3>1. k \in Int /\ k >= y1 /\ x1 \in Int /\ x2 \in Int /\ y1 \in Int
      BY <1>1
    <3>2. \A q \in Places : q \in W(k) <=> (q \in W(k - 1) \/ q \in V)
      BY <3>1, WindowRow
    <3>3. Filled(B, V, c) = Filled(Page(m), W(k), c) /\ Filled(F, V, c) = Filled(m.fb, W(k), c)
      BY <1>2, <3>2, FilledBoth
    <3>4. Became(m, s, B, F)
      BY <2>12
    <3>5. t = FillRow(s, k, x1, x2, c)
      BY <2>10
    <3> HIDE DEF s, t, V, B, F, W
    <3>6. s \in Screens /\ Page(s) = B /\ s.fb = F
      BY <3>4, BecamePage
    <3>7. Became(s, t, Filled(B, V, c), Filled(F, V, c))
      BY <2>2, <3>5, <3>6 DEF V
    <3>8. Became(m, t, Filled(Page(m), W(k), c), Filled(m.fb, W(k), c))
      BY <3>3, <3>4, <3>7, BecameTwice
    <3> QED BY <3>1, <3>8 DEF t
  <2> HIDE DEF T
  <2>13. y2 \in T
    BY <1>1, <1>4, <2>11, <2>12, LoopInduction
  <2> QED BY <2>1, <2>13 DEF T
<1> QED
  BY <1>1, <1>3, <1>4

\* What is moved comes from the screen.
Inside(W, d) == \A q \in Places : q \in W => RowOf(q) + d \in 0 .. MAX_Y - 1

\* Moving rows of the screen gives a picture, ...
LEMMA MovedType ==
  ASSUME NEW B \in Pictures, NEW W, NEW d \in Int, Inside(W, d)
  PROVE  /\ Moved(B, W, d) \in Pictures
         /\ \A q \in Places : Moved(B, W, d)[q] = IF q \in W THEN B[Place(Column(q), RowOf(q) + d)]
                                                  ELSE B[q]
<1>1. ASSUME NEW q \in Places, q \in W PROVE Place(Column(q), RowOf(q) + d) \in Places
  <2>1. Column(q) \in 0 .. MAX_X - 1
    BY PlaceOf
  <2>2. RowOf(q) + d \in 0 .. MAX_Y - 1
    BY <1>1 DEF Inside
  <2> QED BY <2>1, <2>2, PlaceIs
<1>2. ASSUME NEW q \in Places
      PROVE  (IF q \in W THEN B[Place(Column(q), RowOf(q) + d)] ELSE B[q]) \in Cells
  BY <1>1 DEF Pictures
<1> QED
  BY <1>2 DEF Moved, Pictures

\* ... and moving nothing changes nothing.
LEMMA MovedNone ==
  ASSUME NEW B \in Pictures, NEW W, NEW d \in Int, W \cap Places = {}
  PROVE  Moved(B, W, d) = B
<1>1. Inside(W, d)
  BY DEF Inside
<1>2. \A q \in Places : Moved(B, W, d)[q] = B[q]
  BY <1>1, MovedType
<1> QED
  BY <1>1, <1>2, MovedType, SamePicture

\* One cell more.
LEMMA MovedMore ==
  ASSUME NEW B \in Pictures, NEW V, NEW W, NEW p \in Places, NEW d \in Int, Inside(W, d),
         \A q \in Places : q \in W <=> (q \in V \/ q = p),
         NEW c, c = B[Place(Column(p), RowOf(p) + d)]
  PROVE  Written(Moved(B, V, d), p, c) = Moved(B, W, d)
<1> DEFINE E == Moved(B, V, d)
           L == Written(E, p, c)
           R == Moved(B, W, d)
<1>0. Inside(V, d)
  BY DEF Inside
<1>1. E \in Pictures /\ \A q \in Places : E[q] = IF q \in V THEN B[Place(Column(q), RowOf(q) + d)]
                                                 ELSE B[q]
  BY <1>0, MovedType
<1>2. R \in Pictures /\ \A q \in Places : R[q] = IF q \in W THEN B[Place(Column(q), RowOf(q) + d)]
                                                 ELSE B[q]
  BY MovedType
<1> HIDE DEF E, R
<1>3. c \in Cells
  BY <1>2 DEF Pictures
<1>4. L \in Pictures /\ \A q \in Places : L[q] = IF q = p THEN c ELSE E[q]
  BY <1>1, <1>3, WrittenType
<1> HIDE DEF L
<1>5. ASSUME NEW q \in Places PROVE L[q] = R[q]
  <2>1. CASE q = p
    BY <1>2, <1>4, <2>1
  <2>2. CASE q # p
    BY <1>1, <1>2, <1>4, <2>2
  <2> QED BY <2>1, <2>2
<1>6. L = R
  BY <1>2, <1>4, <1>5, SamePicture
<1> QED
  BY <1>6 DEF L, R, E

\* A store of a cell into a page's buffer and the display.
LEMMA CopyTyped ==
  ASSUME NEW m \in Screens, NEW g \in PageSet, NEW p \in Places, NEW c, c \in Cells, NEW d,
         d \in Cells, NEW n, n = writeDataMem([m EXCEPT !.buf[g][p] = c], 2 * p, d)
  PROVE  n \in Screens
<1>1. PICK l : l = WithCell(m, g, p, c)
  OBVIOUS
<1>2. n = writeDataMem(l, 2 * p, d)
  BY <1>1 DEF WithCell
<1>3. l \in Screens
  BY <1>1, FieldBuf
<1>4. Kept(l, n)
  BY <1>2, <1>3, CellStored
<1> QED
  BY <1>4 DEF Kept

\* CopyRow copies a part of a row of both, from the row d below.
LEMMA RowCopied ==
  ASSUME NEW m \in Screens, NEW from \in 0 .. MAX_Y - 1, NEW to \in 0 .. MAX_Y - 1, NEW x1 \in Nat,
         NEW x2 \in 0 .. MAX_X - 1, NEW d \in Int, from = to + d,
         NEW n, n = CopyRow(m, from, to, x1, x2)
  PROVE  Became(m, n, Moved(Page(m), Window(x1, to, x2, to), d),
                Moved(m.fb, Window(x1, to, x2, to), d))
<1>1. /\ MAX_X \in Nat \ {0} /\ MAX_Y \in Nat \ {0} /\ x2 \in Nat /\ x2 <= MAX_X - 1
      /\ to \in Nat /\ from \in Nat
  BY ConsoleAssumption
<1>2. Page(m) \in Pictures /\ m.fb \in Pictures /\ m.page \in PageSet
  BY ScreenParts
<1>5. ASSUME NEW k \in Int PROVE Inside(Window(x1, to, k, to), d)
  <2>1. ASSUME NEW q \in Places, q \in Window(x1, to, k, to) PROVE RowOf(q) = to
    <3>1. MAX_Y \in Nat /\ RowOf(q) \in 0 .. MAX_Y - 1
      BY PlaceOf, ConsoleAssumption
    <3>2. RowOf(q) \in to .. to
      BY <2>1 DEF Window
    <3> QED BY <1>1, <3>1, <3>2
  <2> QED BY <2>1 DEF Inside
<1> DEFINE Copying(s, k) == writeDataMem([s EXCEPT !.buf[m.page][Place(k, to)] = m.buf[m.page][Place(k, from)]],
                                         2 * Place(k, to), m.fb[Place(k, from)])
           IsFor(f) == f = [k \in x1 - 1 .. x2 |->
                              IF k < x1 THEN m ELSE Copying(f[k - 1], k)]
           e == CHOOSE f : IsFor(f)
           W(k) == Window(x1, to, k, to)
<1>3. CASE x2 < x1
  <2>1. n = m
    BY <1>1, <1>3 DEF CopyRow, For
  <2>2. W(x2) \cap Places = {}
    BY <1>1, <1>3, NoWindow
  <2>3. Moved(Page(m), W(x2), d) = Page(m) /\ Moved(m.fb, W(x2), d) = m.fb
    BY <1>2, <2>2, MovedNone
  <2> QED BY <2>1, <2>3, BecameSelf
<1>4. CASE x1 <= x2
  <2>1. n = e[x2]
    BY <1>1, <1>4 DEF CopyRow, For
  <2> DEFINE G == [z \in Screens \X (x1 .. x2) |-> Copying(z[1], z[2])]
  <2>2. ASSUME NEW s \in Screens, NEW k \in x1 .. x2, NEW t, t = Copying(s, k)
        PROVE  /\ t \in Screens
               /\ s.page = m.page => Became(s, t, Written(Page(s), Place(k, to), Page(m)[Place(k, from)]),
                                            Written(s.fb, Place(k, to), m.fb[Place(k, from)]))
    <3>1. k \in 0 .. MAX_X - 1
      BY <1>1
    <3>2. Place(k, to) \in Places /\ Place(k, from) \in Places
      BY <3>1, PlaceIs
    <3>3. /\ Page(m)[Place(k, from)] \in Cells /\ m.fb[Place(k, from)] \in Cells
          /\ Page(m)[Place(k, from)] = m.buf[m.page][Place(k, from)]
      BY <1>2, <3>2 DEF Pictures, Page
    <3>4. t \in Screens
      BY <1>2, <2>2, <3>2, <3>3, CopyTyped
    <3>5. ASSUME s.page = m.page
          PROVE  Became(s, t, Written(Page(s), Place(k, to), Page(m)[Place(k, from)]),
                        Written(s.fb, Place(k, to), m.fb[Place(k, from)]))
      BY <2>2, <3>2, <3>3, <3>5, CellCopied
    <3> QED BY <3>4, <3>5
  <2>3. ASSUME NEW z \in Screens \X (x1 .. x2) PROVE G[z] \in Screens
    <3>1. z[1] \in Screens /\ z[2] \in x1 .. x2 /\ G[z] = Copying(z[1], z[2])
      OBVIOUS
    <3> HIDE DEF G
    <3>2. PICK t : t = Copying(z[1], z[2])
      OBVIOUS
    <3>3. t \in Screens
      BY <2>2, <3>1, <3>2 DEF Became, Kept
    <3> QED BY <3>1, <3>2, <3>3
  <2>4. Body(G, x1, x2)
    BY <2>3 DEF Body
  <2>5. \A s \in Screens, k \in x1 .. x2 : G[<<s, k>>] = Copying(s, k)
    OBVIOUS
  <2> HIDE DEF G
  <2>6. PICK f : Runs(f, m, x1, x2, G)
    BY <1>1, <1>4, <2>4, LoopExists
  <2>7. ASSUME NEW k \in x1 .. x2 PROVE f[k] = Copying(f[k - 1], k)
    <3>1. k - 1 \in x1 - 1 .. x2
      BY <1>1
    <3> QED BY <2>5, <2>6, <3>1 DEF Runs
  <2>8. IsFor(f)
    <3>1. ASSUME NEW k \in x1 - 1 .. x2
          PROVE  f[k] = IF k < x1 THEN m ELSE Copying(f[k - 1], k)
      <4>1. k < x1 => k = x1 - 1
        BY <1>1
      <4>2. ~(k < x1) => k \in x1 .. x2
        BY <1>1
      <4> QED BY <2>6, <2>7, <4>1, <4>2 DEF Runs
    <3> QED BY <2>6, <3>1 DEF Runs
  <2>9. IsFor(e)
    BY <2>8
  <2> HIDE DEF e
  <2>10. e[x1 - 1] = m /\ \A k \in x1 .. x2 : e[k] = Copying(e[k - 1], k)
    <3>1. x1 - 1 \in x1 - 1 .. x2 /\ x1 - 1 < x1
      BY <1>1, <1>4
    <3>2. \A k \in x1 .. x2 : k \in x1 - 1 .. x2 /\ ~(k < x1)
      BY <1>1
    <3> QED BY <2>9, <3>1, <3>2
  <2> DEFINE So(k) == Became(m, e[k], Moved(Page(m), W(k), d), Moved(m.fb, W(k), d))
             T == {k \in Int : So(k)}
  <2>11. x1 - 1 \in T
    <3>1. W(x1 - 1) \cap Places = {}
      BY <1>1, NoWindow
    <3>2. Moved(Page(m), W(x1 - 1), d) = Page(m) /\ Moved(m.fb, W(x1 - 1), d) = m.fb
      BY <1>2, <3>1, MovedNone
    <3> QED BY <2>10, <3>2, BecameSelf
  <2>12. ASSUME NEW k \in x1 .. x2, k - 1 \in T PROVE k \in T
    <3> DEFINE s == e[k - 1]
               t == e[k]
               p == Place(k, to)
               b == Page(m)[Place(k, from)]
               c == m.fb[Place(k, from)]
               B == Moved(Page(m), W(k - 1), d)
               F == Moved(m.fb, W(k - 1), d)
    <3>1. k \in Nat /\ k >= x1 /\ k <= MAX_X - 1 /\ k \in 0 .. MAX_X - 1
      BY <1>1
    <3>2. p \in Places /\ \A q \in Places : q \in W(k) <=> (q \in W(k - 1) \/ q = p)
      BY <3>1, WindowCell
    <3>9. Column(p) = k /\ RowOf(p) = to
      BY <3>1, PlaceIs
    <3>10. b = Page(m)[Place(Column(p), RowOf(p) + d)] /\ c = m.fb[Place(Column(p), RowOf(p) + d)]
      BY <3>9
    <3>11. Inside(W(k), d)
      BY <1>5, <3>1
    <3> HIDE DEF s, t, p, W
    <3>3. Written(B, p, b) = Moved(Page(m), W(k), d) /\ Written(F, p, c) = Moved(m.fb, W(k), d)
      BY <1>2, <3>2, <3>10, <3>11, MovedMore
    <3>4. Became(m, s, B, F)
      BY <2>12 DEF s
    <3>5. t = Copying(s, k)
      BY <2>10 DEF s, t
    <3> HIDE DEF b, c, B, F
    <3>6. s \in Screens /\ Page(s) = B /\ s.fb = F /\ s.page = m.page
      BY <3>4, BecamePage
    <3>7. Became(s, t, Written(B, p, b), Written(F, p, c))
      BY <2>2, <3>5, <3>6 DEF p, b, c
    <3>8. Became(m, t, Moved(Page(m), W(k), d), Moved(m.fb, W(k), d))
      BY <3>3, <3>4, <3>7, BecameTwice
    <3> QED BY <3>1, <3>8 DEF t
  <2> HIDE DEF T
  <2>13. x2 \in T
    BY <1>1, <1>4, <2>11, <2>12, LoopInduction
  <2> QED BY <2>1, <2>13 DEF T
<1> QED
  BY <1>1, <1>3, <1>4

\* One part more, from rows that have not been overwritten.
LEMMA MovedBoth ==
  ASSUME NEW B \in Pictures, NEW V, NEW U, NEW W, NEW d \in Int, Inside(W, d),
         \A q \in Places : q \in W <=> (q \in V \/ q \in U),
         \A q \in Places : q \in U => q \notin V /\ Place(Column(q), RowOf(q) + d) \notin V
  PROVE  Moved(Moved(B, V, d), U, d) = Moved(B, W, d)
<1> DEFINE E == Moved(B, V, d)
           L == Moved(E, U, d)
           R == Moved(B, W, d)
<1>0. Inside(V, d) /\ Inside(U, d)
  BY DEF Inside
<1>1. E \in Pictures /\ \A q \in Places : E[q] = IF q \in V THEN B[Place(Column(q), RowOf(q) + d)]
                                                 ELSE B[q]
  BY <1>0, MovedType
<1>2. R \in Pictures /\ \A q \in Places : R[q] = IF q \in W THEN B[Place(Column(q), RowOf(q) + d)]
                                                 ELSE B[q]
  BY MovedType
<1> HIDE DEF E, R
<1>3. L \in Pictures /\ \A q \in Places : L[q] = IF q \in U THEN E[Place(Column(q), RowOf(q) + d)]
                                                 ELSE E[q]
  BY <1>0, <1>1, MovedType
<1> HIDE DEF L
<1>4. ASSUME NEW q \in Places PROVE L[q] = R[q]
  <2>1. CASE q \in U
    <3>1. Place(Column(q), RowOf(q) + d) \in Places
      <4>1. Column(q) \in 0 .. MAX_X - 1
        BY PlaceOf
      <4>2. RowOf(q) + d \in 0 .. MAX_Y - 1
        BY <1>0, <2>1 DEF Inside
      <4> QED BY <4>1, <4>2, PlaceIs
    <3> QED BY <1>1, <1>2, <1>3, <2>1, <3>1
  <2>2. CASE q \notin U
    BY <1>1, <1>2, <1>3, <2>2
  <2> QED BY <2>1, <2>2
<1>5. L = R
  BY <1>2, <1>3, <1>4, SamePicture
<1> QED
  BY <1>5 DEF L, R, E

\* The places of a window by their rows.
LEMMA RowsAre ==
  ASSUME NEW q \in Places, NEW x1, NEW x2, NEW y1 \in Int, NEW y2 \in Int
  PROVE  /\ RowOf(q) \in Nat
         /\ q \in Window(x1, y1, x2, y2)
              <=> (Column(q) \in x1 .. x2 /\ y1 <= RowOf(q) /\ RowOf(q) <= y2)
<1>1. MAX_Y \in Nat /\ RowOf(q) \in 0 .. MAX_Y - 1
  BY PlaceOf, ConsoleAssumption
<1> DEFINE j == RowOf(q)
<1>2. j \in Nat /\ (j \in y1 .. y2 <=> (y1 <= j /\ j <= y2))
  BY <1>1
<1> HIDE DEF j
<1> QED
  BY <1>2 DEF j, Window

\* RowsUp and RowsDown move what stays in a window.
LEMMA RowsUpMove ==
  ASSUME NEW m \in Screens, NEW lines \in Nat \ {0}, NEW x1 \in Nat, NEW y1 \in Nat,
         NEW x2 \in 0 .. MAX_X - 1, NEW y2 \in 0 .. MAX_Y - 1,
         NEW n, n = RowsUp(m, lines, x1, y1, x2, y2)
  PROVE  /\ Became(m, n, Moved(Page(m), Window(x1, y1, x2, y2 - lines), lines),
                   Moved(m.fb, Window(x1, y1, x2, y2 - lines), lines))
         /\ Inside(Window(x1, y1, x2, y2 - lines), lines)
<1> DEFINE d == lines
<1>1. /\ MAX_X \in Nat \ {0} /\ MAX_Y \in Nat \ {0} /\ x2 \in Nat
      /\ y2 \in Nat /\ y2 <= MAX_Y - 1 /\ lines \in Nat /\ lines >= 1 /\ d \in Int
      /\ (y2 - lines) \in Int
  BY ConsoleAssumption
<1>2. Page(m) \in Pictures /\ m.fb \in Pictures
  BY ScreenParts
<1>5. ASSUME NEW k \in Int, k <= y2 - lines
      PROVE  Inside(Window(x1, y1, x2, k), d)
  <2>1. ASSUME NEW q \in Places, q \in Window(x1, y1, x2, k) PROVE RowOf(q) + d \in 0 .. MAX_Y - 1
    <3>1. y1 <= RowOf(q) /\ RowOf(q) <= k /\ RowOf(q) \in Nat
      BY <1>1, <2>1, RowsAre
    <3> DEFINE j == RowOf(q)
    <3> HIDE DEF j
    <3>2. j \in Nat /\ y1 <= j /\ j <= k
      BY <3>1 DEF j
    <3>3. j + d \in 0 .. MAX_Y - 1
      BY <1>1, <1>5, <3>2
    <3> QED BY <3>3 DEF j
  <2> QED BY <2>1 DEF Inside
<1>6. (y2 - lines) < y1 => n = m /\ Window(x1, y1, x2, y2 - lines) \cap Places = {}
  <2>1. ASSUME (y2 - lines) < y1 PROVE Window(x1, y1, x2, y2 - lines) \cap Places = {}
    BY <1>1, <2>1, NoWindow
  <2>2. ASSUME (y2 - lines) < y1 PROVE n = m
    BY <1>1, <2>2 DEF RowsUp, For
  <2> QED BY <2>1, <2>2
<1>7. Inside(Window(x1, y1, x2, y2 - lines), d)
  <2>1. CASE (y2 - lines) < y1
    BY <1>6, <2>1 DEF Inside
  <2>2. CASE ~((y2 - lines) < y1)
    BY <1>1, <1>5, <2>2
  <2> QED BY <2>1, <2>2
<1> DEFINE IsFor(f) == f = [k \in y1 - 1 .. (y2 - lines) |->
                              IF k < y1 THEN m ELSE CopyRow(f[k - 1], k + lines, k, x1, x2)]
           e == CHOOSE f : IsFor(f)
           W(k) == Window(x1, y1, x2, k)
<1>3. CASE (y2 - lines) < y1
  <2>1. /\ Moved(Page(m), Window(x1, y1, x2, y2 - lines), d) = Page(m)
        /\ Moved(m.fb, Window(x1, y1, x2, y2 - lines), d) = m.fb
    BY <1>1, <1>2, <1>3, <1>6, MovedNone
  <2>2. Became(m, n, Moved(Page(m), Window(x1, y1, x2, y2 - lines), d),
               Moved(m.fb, Window(x1, y1, x2, y2 - lines), d))
    BY <1>3, <1>6, <2>1, BecameSelf
  <2> QED BY <1>7, <2>2
<1>4. CASE y1 <= (y2 - lines)
  <2>1. n = e[(y2 - lines)]
    BY <1>1, <1>4 DEF RowsUp, For
  <2> DEFINE G == [z \in Screens \X (y1 .. (y2 - lines)) |-> CopyRow(z[1], z[2] + lines, z[2], x1, x2)]
  <2>2. ASSUME NEW s \in Screens, NEW k \in y1 .. (y2 - lines), NEW t, t = CopyRow(s, k + lines, k, x1, x2)
        PROVE  Became(s, t, Moved(Page(s), Window(x1, k, x2, k), d), Moved(s.fb, Window(x1, k, x2, k), d))
    <3>1. k \in 0 .. MAX_Y - 1 /\ k + lines \in 0 .. MAX_Y - 1
          /\ k + lines = (k) + d
      BY <1>1
    <3> HIDE DEF d
    <3> QED BY <1>1, <2>2, <3>1, RowCopied
  <2>3. ASSUME NEW z \in Screens \X (y1 .. (y2 - lines)) PROVE G[z] \in Screens
    <3>1. z[1] \in Screens /\ z[2] \in y1 .. (y2 - lines) /\ G[z] = CopyRow(z[1], z[2] + lines, z[2], x1, x2)
      OBVIOUS
    <3> HIDE DEF G
    <3>2. PICK t : t = CopyRow(z[1], z[2] + lines, z[2], x1, x2)
      OBVIOUS
    <3>3. t \in Screens
      BY <2>2, <3>1, <3>2 DEF Became, Kept
    <3> QED BY <3>1, <3>2, <3>3
  <2>4. Body(G, y1, (y2 - lines))
    BY <2>3 DEF Body
  <2>5. \A s \in Screens, k \in y1 .. (y2 - lines) : G[<<s, k>>] = CopyRow(s, k + lines, k, x1, x2)
    OBVIOUS
  <2> HIDE DEF G
  <2>6. PICK f : Runs(f, m, y1, (y2 - lines), G)
    BY <1>1, <1>4, <2>4, LoopExists
  <2>7. ASSUME NEW k \in y1 .. (y2 - lines) PROVE f[k] = CopyRow(f[k - 1], k + lines, k, x1, x2)
    <3>1. k - 1 \in y1 - 1 .. (y2 - lines)
      BY <1>1
    <3> QED BY <2>5, <2>6, <3>1 DEF Runs
  <2>8. IsFor(f)
    <3>1. ASSUME NEW k \in y1 - 1 .. (y2 - lines)
          PROVE  f[k] = IF k < y1 THEN m ELSE CopyRow(f[k - 1], k + lines, k, x1, x2)
      <4>1. k < y1 => k = y1 - 1
        BY <1>1
      <4>2. ~(k < y1) => k \in y1 .. (y2 - lines)
        BY <1>1
      <4> QED BY <2>6, <2>7, <4>1, <4>2 DEF Runs
    <3> QED BY <2>6, <3>1 DEF Runs
  <2>9. IsFor(e)
    BY <2>8
  <2> HIDE DEF e
  <2>10. e[y1 - 1] = m /\ \A k \in y1 .. (y2 - lines) : e[k] = CopyRow(e[k - 1], k + lines, k, x1, x2)
    <3>1. y1 - 1 \in y1 - 1 .. (y2 - lines) /\ y1 - 1 < y1
      BY <1>1, <1>4
    <3>2. \A k \in y1 .. (y2 - lines) : k \in y1 - 1 .. (y2 - lines) /\ ~(k < y1)
      BY <1>1
    <3> QED BY <2>9, <3>1, <3>2
  <2> DEFINE So(k) == Became(m, e[k], Moved(Page(m), W(k), d), Moved(m.fb, W(k), d))
             T == {k \in Int : So(k)}
  <2>11. y1 - 1 \in T
    <3>1. W(y1 - 1) \cap Places = {}
      BY <1>1, NoWindow
    <3> HIDE DEF W
    <3>2. Moved(Page(m), W(y1 - 1), d) = Page(m) /\ Moved(m.fb, W(y1 - 1), d) = m.fb
      BY <1>1, <1>2, <3>1, MovedNone
    <3> QED BY <1>1, <2>10, <3>2, BecameSelf
  <2>12. ASSUME NEW k \in y1 .. (y2 - lines), k - 1 \in T PROVE k \in T
    <3> DEFINE s == e[k - 1]
               t == e[k]
               V == Window(x1, k, x2, k)
               B == Moved(Page(m), W(k - 1), d)
               F == Moved(m.fb, W(k - 1), d)
    <3>1. /\ k \in Int /\ k - 1 \in Int /\ k >= y1 /\ k <= (y2 - lines)
          /\ x1 \in Int /\ x2 \in Int /\ y1 \in Int
      BY <1>1
    <3>2. \A q \in Places : q \in W(k) <=> (q \in W(k - 1) \/ q \in V)
      BY <1>1, <3>1, WindowRow
    <3>9. Inside(W(k), d)
      BY <1>5, <3>1
    <3>10. ASSUME NEW q \in Places, q \in V
           PROVE  q \notin W(k - 1) /\ Place(Column(q), RowOf(q) + d) \notin W(k - 1)
      <4>1. RowOf(q) = k /\ RowOf(q) \in Nat /\ Column(q) \in x1 .. x2
        BY <1>1, <3>1, <3>10, RowsAre
      <4>2. q \notin W(k - 1)
        BY <1>1, <3>1, <4>1, RowsAre
      <4>3. q \in W(k)
        BY <3>2, <3>10
      <4>4. RowOf(q) + d \in 0 .. MAX_Y - 1 /\ Column(q) \in 0 .. MAX_X - 1
        BY <3>9, <4>3, PlaceOf DEF Inside
      <4>5. PICK r \in Places : /\ r = Place(Column(q), RowOf(q) + d)
                                /\ RowOf(r) = RowOf(q) + d
        BY <4>4, PlaceIs
      <4>6. RowOf(r) = k + d
        BY <4>1, <4>5
      <4>7. r \notin W(k - 1)
        BY <1>1, <3>1, <4>6, RowsAre
      <4> QED BY <4>2, <4>5, <4>7
    <3> HIDE DEF s, t, V, W, d
    <3>3. Moved(B, V, d) = Moved(Page(m), W(k), d) /\ Moved(F, V, d) = Moved(m.fb, W(k), d)
      BY <1>1, <1>2, <3>2, <3>9, <3>10, MovedBoth
    <3>4. Became(m, s, B, F)
      BY <2>12 DEF s
    <3>5. t = CopyRow(s, k + lines, k, x1, x2)
      BY <2>10 DEF s, t
    <3> HIDE DEF B, F
    <3>6. s \in Screens /\ Page(s) = B /\ s.fb = F
      BY <3>4, BecamePage
    <3>7. Became(s, t, Moved(B, V, d), Moved(F, V, d))
      BY <2>2, <3>5, <3>6 DEF V
    <3>8. Became(m, t, Moved(Page(m), W(k), d), Moved(m.fb, W(k), d))
      BY <3>3, <3>4, <3>7, BecameTwice
    <3> QED BY <3>1, <3>8 DEF t
  <2> HIDE DEF T
  <2>13. (y2 - lines) \in T
    BY <1>1, <1>4, <2>11, <2>12, LoopInduction
  <2> QED BY <1>1, <1>7, <2>1, <2>13 DEF T
<1> QED
  BY <1>1, <1>3, <1>4

\* RowsDown moves the rows from the last one on; the row that is read has not been written.
LEMMA RowsDownMove ==
  ASSUME NEW m \in Screens, NEW lines \in Nat \ {0}, NEW x1 \in Nat, NEW y1 \in Nat,
         NEW x2 \in 0 .. MAX_X - 1, NEW y2 \in 0 .. MAX_Y - 1,
         NEW n, n = RowsDown(m, lines, x1, y1, x2, y2)
  PROVE  /\ Became(m, n, Moved(Page(m), Window(x1, y1 + lines, x2, y2), (0 - lines)),
                   Moved(m.fb, Window(x1, y1 + lines, x2, y2), (0 - lines)))
         /\ Inside(Window(x1, y1 + lines, x2, y2), (0 - lines))
<1> DEFINE Copying(s, k) == CopyRow(s, (y2 - k) - lines, y2 - k, x1, x2)
           d == (0 - lines)
<1>1. /\ MAX_X \in Nat \ {0} /\ MAX_Y \in Nat \ {0} /\ x2 \in Nat
      /\ y2 \in Nat /\ y2 <= MAX_Y - 1 /\ lines \in Nat /\ lines >= 1 /\ d \in Int
      /\ (y2 - (y1 + lines)) \in Int
  BY ConsoleAssumption
<1>2. Page(m) \in Pictures /\ m.fb \in Pictures
  BY ScreenParts
<1>5. ASSUME NEW k \in Int, k <= y2 - (y1 + lines)
      PROVE  Inside(Window(x1, y2 - k, x2, y2), d)
  <2>1. ASSUME NEW q \in Places, q \in Window(x1, y2 - k, x2, y2) PROVE RowOf(q) + d \in 0 .. MAX_Y - 1
    <3>1. y2 - k <= RowOf(q) /\ RowOf(q) <= y2 /\ RowOf(q) \in Nat
      BY <1>1, <2>1, RowsAre
    <3> DEFINE j == RowOf(q)
    <3> HIDE DEF j
    <3>2. j \in Nat /\ y2 - k <= j /\ j <= y2
      BY <3>1 DEF j
    <3>3. j + d \in 0 .. MAX_Y - 1
      BY <1>1, <1>5, <3>2
    <3> QED BY <3>3 DEF j
  <2> QED BY <2>1 DEF Inside
<1>6. (y2 - (y1 + lines)) < 0 => n = m /\ Window(x1, y1 + lines, x2, y2) \cap Places = {}
  <2>1. ASSUME (y2 - (y1 + lines)) < 0 PROVE Window(x1, y1 + lines, x2, y2) \cap Places = {}
    BY <1>1, <2>1, NoWindow
  <2>2. ASSUME (y2 - (y1 + lines)) < 0 PROVE n = m
    BY <1>1, <2>2 DEF RowsDown, For
  <2> QED BY <2>1, <2>2
<1>7. Inside(Window(x1, y1 + lines, x2, y2), d)
  <2>1. CASE (y2 - (y1 + lines)) < 0
    BY <1>6, <2>1 DEF Inside
  <2>2. CASE ~((y2 - (y1 + lines)) < 0)
    <3>1. y2 - (y2 - (y1 + lines)) = y1 + lines
      BY <1>1
    <3>2. Inside(Window(x1, y2 - (y2 - (y1 + lines)), x2, y2), d)
      BY <1>1, <1>5
    <3> QED BY <3>1, <3>2
  <2> QED BY <2>1, <2>2
<1> DEFINE IsFor(f) == f = [k \in 0 - 1 .. (y2 - (y1 + lines)) |->
                              IF k < 0 THEN m ELSE Copying(f[k - 1], k)]
           e == CHOOSE f : IsFor(f)
           W(k) == Window(x1, y2 - k, x2, y2)
<1>3. CASE (y2 - (y1 + lines)) < 0
  <2>1. /\ Moved(Page(m), Window(x1, y1 + lines, x2, y2), d) = Page(m)
        /\ Moved(m.fb, Window(x1, y1 + lines, x2, y2), d) = m.fb
    BY <1>1, <1>2, <1>3, <1>6, MovedNone
  <2>2. Became(m, n, Moved(Page(m), Window(x1, y1 + lines, x2, y2), d),
               Moved(m.fb, Window(x1, y1 + lines, x2, y2), d))
    BY <1>3, <1>6, <2>1, BecameSelf
  <2> QED BY <1>7, <2>2
<1>4. CASE 0 <= (y2 - (y1 + lines))
  <2>1. n = e[(y2 - (y1 + lines))]
    BY <1>1, <1>4 DEF RowsDown, For
  <2> DEFINE G == [z \in Screens \X (0 .. (y2 - (y1 + lines))) |-> Copying(z[1], z[2])]
  <2>2. ASSUME NEW s \in Screens, NEW k \in 0 .. (y2 - (y1 + lines)), NEW t, t = Copying(s, k)
        PROVE  Became(s, t, Moved(Page(s), Window(x1, y2 - k, x2, y2 - k), d),
                      Moved(s.fb, Window(x1, y2 - k, x2, y2 - k), d))
    <3>1. y2 - k \in 0 .. MAX_Y - 1 /\ (y2 - k) - lines \in 0 .. MAX_Y - 1
          /\ (y2 - k) - lines = (y2 - k) + d
      BY <1>1
    <3> HIDE DEF d
    <3> QED BY <1>1, <2>2, <3>1, RowCopied
  <2>3. ASSUME NEW z \in Screens \X (0 .. (y2 - (y1 + lines))) PROVE G[z] \in Screens
    <3>1. z[1] \in Screens /\ z[2] \in 0 .. (y2 - (y1 + lines)) /\ G[z] = Copying(z[1], z[2])
      OBVIOUS
    <3> HIDE DEF G
    <3>2. PICK t : t = Copying(z[1], z[2])
      OBVIOUS
    <3>3. t \in Screens
      BY <2>2, <3>1, <3>2 DEF Became, Kept
    <3> QED BY <3>1, <3>2, <3>3
  <2>4. Body(G, 0, (y2 - (y1 + lines)))
    BY <2>3 DEF Body
  <2>5. \A s \in Screens, k \in 0 .. (y2 - (y1 + lines)) : G[<<s, k>>] = Copying(s, k)
    OBVIOUS
  <2> HIDE DEF G
  <2>6. PICK f : Runs(f, m, 0, (y2 - (y1 + lines)), G)
    BY <1>1, <1>4, <2>4, LoopExists
  <2>7. ASSUME NEW k \in 0 .. (y2 - (y1 + lines)) PROVE f[k] = Copying(f[k - 1], k)
    <3>1. k - 1 \in 0 - 1 .. (y2 - (y1 + lines))
      BY <1>1
    <3> QED BY <2>5, <2>6, <3>1 DEF Runs
  <2>8. IsFor(f)
    <3>1. ASSUME NEW k \in 0 - 1 .. (y2 - (y1 + lines))
          PROVE  f[k] = IF k < 0 THEN m ELSE Copying(f[k - 1], k)
      <4>1. k < 0 => k = 0 - 1
        BY <1>1
      <4>2. ~(k < 0) => k \in 0 .. (y2 - (y1 + lines))
        BY <1>1
      <4> QED BY <2>6, <2>7, <4>1, <4>2 DEF Runs
    <3> QED BY <2>6, <3>1 DEF Runs
  <2>9. IsFor(e)
    BY <2>8
  <2> HIDE DEF e
  <2>10. e[0 - 1] = m /\ \A k \in 0 .. (y2 - (y1 + lines)) : e[k] = Copying(e[k - 1], k)
    <3>1. 0 - 1 \in 0 - 1 .. (y2 - (y1 + lines)) /\ 0 - 1 < 0
      BY <1>1, <1>4
    <3>2. \A k \in 0 .. (y2 - (y1 + lines)) : k \in 0 - 1 .. (y2 - (y1 + lines)) /\ ~(k < 0)
      BY <1>1
    <3> QED BY <2>9, <3>1, <3>2
  <2> DEFINE So(k) == Became(m, e[k], Moved(Page(m), W(k), d), Moved(m.fb, W(k), d))
             T == {k \in Int : So(k)}
  <2>11. 0 - 1 \in T
    <3>1. W(0 - 1) \cap Places = {}
      BY <1>1, NoWindow
    <3> HIDE DEF W
    <3>2. Moved(Page(m), W(0 - 1), d) = Page(m) /\ Moved(m.fb, W(0 - 1), d) = m.fb
      BY <1>1, <1>2, <3>1, MovedNone
    <3> QED BY <1>1, <2>10, <3>2, BecameSelf
  <2>12. ASSUME NEW k \in 0 .. (y2 - (y1 + lines)), k - 1 \in T PROVE k \in T
    <3> DEFINE s == e[k - 1]
               t == e[k]
               V == Window(x1, y2 - k, x2, y2 - k)
               B == Moved(Page(m), W(k - 1), d)
               F == Moved(m.fb, W(k - 1), d)
    <3>1. /\ k \in Int /\ k - 1 \in Int /\ k >= 0 /\ k <= (y2 - (y1 + lines))
          /\ y2 - k \in Int /\ x1 \in Int /\ x2 \in Int /\ y1 \in Int
      BY <1>1
    <3>2. ASSUME NEW q \in Places PROVE q \in W(k) <=> (q \in W(k - 1) \/ q \in V)
      <4>1. RowOf(q) \in Nat /\ y2 - k \in Int /\ y2 - (k - 1) \in Int
        BY <1>1, <3>1, RowsAre
      <4>2. /\ q \in W(k) <=> (Column(q) \in x1 .. x2 /\ y2 - k <= RowOf(q) /\ RowOf(q) <= y2)
            /\ q \in W(k - 1) <=> (Column(q) \in x1 .. x2 /\ y2 - (k - 1) <= RowOf(q) /\ RowOf(q) <= y2)
            /\ q \in V <=> (Column(q) \in x1 .. x2 /\ y2 - k <= RowOf(q) /\ RowOf(q) <= y2 - k)
        BY <1>1, <4>1, RowsAre
      <4> HIDE DEF W, V
      <4>3. PICK j \in Nat : j = RowOf(q)
        BY <4>1
      <4>4. y2 - k <= j /\ j <= y2 <=> (y2 - (k - 1) <= j /\ j <= y2) \/ (y2 - k <= j /\ j <= y2 - k)
        BY <1>1, <3>1
      <4> QED BY <4>2, <4>3, <4>4
    <3>9. Inside(W(k), d)
      BY <1>5, <3>1
    <3>10. ASSUME NEW q \in Places, q \in V
           PROVE  q \notin W(k - 1) /\ Place(Column(q), RowOf(q) + d) \notin W(k - 1)
      <4>1. RowOf(q) = y2 - k /\ RowOf(q) \in Nat /\ Column(q) \in x1 .. x2
        BY <1>1, <3>1, <3>10, RowsAre
      <4>2. q \notin W(k - 1)
        BY <1>1, <3>1, <4>1, RowsAre
      <4>3. q \in W(k)
        BY <3>2, <3>10
      <4>4. RowOf(q) + d \in 0 .. MAX_Y - 1 /\ Column(q) \in 0 .. MAX_X - 1
        BY <3>9, <4>3, PlaceOf DEF Inside
      <4>5. PICK r \in Places : /\ r = Place(Column(q), RowOf(q) + d)
                                /\ RowOf(r) = RowOf(q) + d
        BY <4>4, PlaceIs
      <4>6. RowOf(r) = y2 - k + d
        BY <4>1, <4>5
      <4>7. r \notin W(k - 1)
        BY <1>1, <3>1, <4>6, RowsAre
      <4> QED BY <4>2, <4>5, <4>7
    <3> HIDE DEF s, t, V, W, d
    <3>3. Moved(B, V, d) = Moved(Page(m), W(k), d) /\ Moved(F, V, d) = Moved(m.fb, W(k), d)
      BY <1>1, <1>2, <3>2, <3>9, <3>10, MovedBoth
    <3>4. Became(m, s, B, F)
      BY <2>12 DEF s
    <3>5. t = Copying(s, k)
      BY <2>10 DEF s, t
    <3> HIDE DEF B, F
    <3>6. s \in Screens /\ Page(s) = B /\ s.fb = F
      BY <3>4, BecamePage
    <3>7. Became(s, t, Moved(B, V, d), Moved(F, V, d))
      BY <2>2, <3>5, <3>6 DEF V
    <3>8. Became(m, t, Moved(Page(m), W(k), d), Moved(m.fb, W(k), d))
      BY <3>3, <3>4, <3>7, BecameTwice
    <3> QED BY <3>1, <3>8 DEF t
  <2> HIDE DEF T
  <2>13. (y2 - (y1 + lines)) \in T
    BY <1>1, <1>4, <2>11, <2>12, LoopInduction
  <2>14. y2 - (y2 - (y1 + lines)) = y1 + lines
    BY <1>1
  <2> QED BY <1>7, <2>1, <2>13, <2>14 DEF T
<1> QED
  BY <1>1, <1>3, <1>4

\* The rows that are filled: the last ones, or the first.
TopFilled(lines, y1, y2) == IF y1 > y2 - lines + 1 THEN y1 ELSE y2 - lines + 1
LastFilled(lines, y1, y2) == IF y2 < y1 + lines - 1 THEN y2 ELSE y1 + lines - 1

\* ScrollUp moves the rows that stay in the window and fills the others, ...
LEMMA ScrolledUp ==
  ASSUME NEW m \in Screens, NEW lines \in Nat \ {0}, NEW x1 \in Nat, NEW y1 \in Nat,
         NEW x2 \in 0 .. MAX_X - 1, NEW y2 \in 0 .. MAX_Y - 1, y1 <= y2,
         NEW c, c \in Cells, NEW n, n = ScrollUp(m, lines, x1, y1, x2, y2, c)
  PROVE  /\ Became(m, n,
                   Filled(Moved(Page(m), Window(x1, y1, x2, y2 - lines), lines),
                          Window(x1, TopFilled(lines, y1, y2), x2, y2), c),
                   Filled(Moved(m.fb, Window(x1, y1, x2, y2 - lines), lines),
                           Window(x1, TopFilled(lines, y1, y2), x2, y2), c))
         /\ Inside(Window(x1, y1, x2, y2 - lines), lines)
<1> DEFINE V == Window(x1, y1, x2, y2 - lines)
           U == Window(x1, TopFilled(lines, y1, y2), x2, y2)
           k == lines
<1>1. PICK r : r = RowsUp(m, lines, x1, y1, x2, y2)
  OBVIOUS
<1>2. n = FillRows(r, TopFilled(lines, y1, y2), y2, x1, x2, c)
  BY <1>1 DEF ScrollUp, TopFilled
<1>3. /\ TopFilled(lines, y1, y2) \in Nat /\ y2 \in 0 .. MAX_Y - 1
  <2>1. MAX_Y \in Nat \ {0}
    BY ConsoleAssumption
  <2> QED BY <2>1 DEF TopFilled
<1>4. Became(m, r, Moved(Page(m), V, k), Moved(m.fb, V, k)) /\ Inside(V, k)
  BY <1>1, RowsUpMove
<1> HIDE DEF V, k
<1>5. r \in Screens /\ Page(r) = Moved(Page(m), V, k) /\ r.fb = Moved(m.fb, V, k)
  BY <1>4, BecamePage
<1>6. Became(r, n, Filled(Page(r), U, c), Filled(r.fb, U, c))
  BY <1>2, <1>3, <1>5, RowsFilled
<1> HIDE DEF U
<1>7. Became(m, n, Filled(Page(r), U, c), Filled(r.fb, U, c))
  BY <1>4, <1>6, BecameTwice
<1> QED
  BY <1>4, <1>5, <1>7 DEF V, U, k

\* ... and so does ScrollDown.
LEMMA ScrolledDown ==
  ASSUME NEW m \in Screens, NEW lines \in Nat \ {0}, NEW x1 \in Nat, NEW y1 \in Nat,
         NEW x2 \in 0 .. MAX_X - 1, NEW y2 \in 0 .. MAX_Y - 1, y1 <= y2,
         NEW c, c \in Cells, NEW n, n = ScrollDown(m, lines, x1, y1, x2, y2, c)
  PROVE  /\ Became(m, n,
                   Filled(Moved(Page(m), Window(x1, y1 + lines, x2, y2), (0 - lines)),
                          Window(x1, y1, x2, LastFilled(lines, y1, y2)), c),
                   Filled(Moved(m.fb, Window(x1, y1 + lines, x2, y2), (0 - lines)),
                           Window(x1, y1, x2, LastFilled(lines, y1, y2)), c))
         /\ Inside(Window(x1, y1 + lines, x2, y2), (0 - lines))
<1> DEFINE V == Window(x1, y1 + lines, x2, y2)
           U == Window(x1, y1, x2, LastFilled(lines, y1, y2))
           k == (0 - lines)
<1>1. PICK r : r = RowsDown(m, lines, x1, y1, x2, y2)
  OBVIOUS
<1>2. n = FillRows(r, y1, LastFilled(lines, y1, y2), x1, x2, c)
  BY <1>1 DEF ScrollDown, LastFilled
<1>3. /\ y1 \in Nat /\ LastFilled(lines, y1, y2) \in 0 .. MAX_Y - 1
  <2>1. MAX_Y \in Nat \ {0}
    BY ConsoleAssumption
  <2> QED BY <2>1 DEF LastFilled
<1>4. Became(m, r, Moved(Page(m), V, k), Moved(m.fb, V, k)) /\ Inside(V, k)
  BY <1>1, RowsDownMove
<1> HIDE DEF V, k
<1>5. r \in Screens /\ Page(r) = Moved(Page(m), V, k) /\ r.fb = Moved(m.fb, V, k)
  BY <1>4, BecamePage
<1>6. Became(r, n, Filled(Page(r), U, c), Filled(r.fb, U, c))
  BY <1>2, <1>3, <1>5, RowsFilled
<1> HIDE DEF U
<1>7. Became(m, n, Filled(Page(r), U, c), Filled(r.fb, U, c))
  BY <1>4, <1>6, BecameTwice
<1> QED
  BY <1>4, <1>5, <1>7 DEF V, U, k

\* WriteCells fills the places from the cursor on.
From(start, k) == {q \in Places : \E i \in 0 .. k : q = (start + i) % (MAX_X * MAX_Y)}

\* WriteCells fills the cells from the start on, around the bottom of the screen.
LEMMA CellsWritten ==
  ASSUME NEW m \in Screens, NEW code \in Byte, NEW a \in Byte, NEW k1 \in Nat,
         NEW start \in Nat, start = Place(m.pos[m.page][1], m.pos[m.page][2]),
         NEW n, n = WriteCells(m, code, a, k1)
  PROVE  Became(m, n, Filled(Page(m), From(start, k1 - 1), <<code, a>>),
                Filled(m.fb, From(start, k1 - 1), <<code, a>>))
<1> DEFINE c == <<code, a>>
           size == MAX_X * MAX_Y
           last == k1 - 1
<1>1. size \in Nat \ {0} /\ Places = 0 .. size - 1 /\ last \in Int /\ 0 \in Int
  <2>1. MAX_X \in Nat \ {0} /\ MAX_Y \in Nat \ {0}
    BY ConsoleAssumption
  <2>2. \A i, j \in Nat \ {0} : i * j \in Nat \ {0}
    OBVIOUS
  <2> QED BY <2>1, <2>2 DEF Places
<1>2. Page(m) \in Pictures /\ m.fb \in Pictures
  BY ScreenParts
<1>5. c \in Cells
  BY DEF Cells
<1>6. \A k \in Nat : (start + k) % size \in Places
  <2> HIDE DEF size
  <2> QED BY <1>1
<1>7. n = IF last < 0 THEN m
          ELSE (CHOOSE f : f = [k \in 0 - 1 .. last |->
                   IF k < 0 THEN m ELSE updateDispBuf(f[k - 1], (start + k) % size, c)])[last]
  BY DEF WriteCells, For
<1> HIDE DEF c, size, last
<1> DEFINE IsFor(f) == f = [k \in 0 - 1 .. last |->
                              IF k < 0 THEN m ELSE updateDispBuf(f[k - 1], (start + k) % size, c)]
           e == CHOOSE f : IsFor(f)
           W(k) == From(start, k)
<1>3. CASE last < 0
  <2>1. n = m
    BY <1>1, <1>3, <1>7
  <2>2. W(last) \cap Places = {}
    <3>1. 0 .. last = {}
      BY <1>1, <1>3
    <3> QED BY <3>1 DEF From
  <2>3. Filled(Page(m), W(last), c) = Page(m) /\ Filled(m.fb, W(last), c) = m.fb
    <3> HIDE DEF W
    <3> QED BY <1>2, <1>5, <2>2, FilledNone
  <2>4. Became(m, n, Filled(Page(m), W(last), c), Filled(m.fb, W(last), c))
    <3> HIDE DEF W
    <3> QED BY <2>1, <2>3, BecameSelf
  <2> QED BY <2>4 DEF last, c
<1>4. CASE 0 <= last
  <2>1. n = e[last]
    BY <1>1, <1>4, <1>7
  <2> DEFINE G == [z \in Screens \X (0 .. last) |-> updateDispBuf(z[1], (start + z[2]) % size, c)]
  <2>2. ASSUME NEW s \in Screens, NEW k \in 0 .. last, NEW t, t = updateDispBuf(s, (start + k) % size, c)
        PROVE  Became(s, t, Written(Page(s), (start + k) % size, c), Written(s.fb, (start + k) % size, c))
    <3>0. k \in Nat
      BY <1>1
    <3>1. (start + k) % size \in Places
      BY <1>6, <3>0
    <3> QED BY <1>5, <2>2, <3>1, CellUpdated
  <2>3. ASSUME NEW z \in Screens \X (0 .. last) PROVE G[z] \in Screens
    <3>1. z[1] \in Screens /\ z[2] \in 0 .. last /\ G[z] = updateDispBuf(z[1], (start + z[2]) % size, c)
      OBVIOUS
    <3> HIDE DEF G
    <3>2. PICK t : t = updateDispBuf(z[1], (start + z[2]) % size, c)
      OBVIOUS
    <3>3. t \in Screens
      BY <2>2, <3>1, <3>2 DEF Became, Kept
    <3> QED BY <3>1, <3>2, <3>3
  <2>4. Body(G, 0, last)
    BY <2>3 DEF Body
  <2>5. \A s \in Screens, k \in 0 .. last : G[<<s, k>>] = updateDispBuf(s, (start + k) % size, c)
    OBVIOUS
  <2> HIDE DEF G
  <2>6. PICK f : Runs(f, m, 0, last, G)
    BY <1>1, <1>4, <2>4, LoopExists
  <2>7. ASSUME NEW k \in 0 .. last PROVE f[k] = updateDispBuf(f[k - 1], (start + k) % size, c)
    <3>1. k - 1 \in 0 - 1 .. last
      BY <1>1
    <3> QED BY <2>5, <2>6, <3>1 DEF Runs
  <2>8. IsFor(f)
    <3>1. ASSUME NEW k \in 0 - 1 .. last
          PROVE  f[k] = IF k < 0 THEN m ELSE updateDispBuf(f[k - 1], (start + k) % size, c)
      <4>1. k < 0 => k = 0 - 1
        BY <1>1
      <4>2. ~(k < 0) => k \in 0 .. last
        BY <1>1
      <4> QED BY <2>6, <2>7, <4>1, <4>2 DEF Runs
    <3> QED BY <2>6, <3>1 DEF Runs
  <2>9. IsFor(e)
    BY <2>8
  <2> HIDE DEF e
  <2>10. e[0 - 1] = m /\ \A k \in 0 .. last : e[k] = updateDispBuf(e[k - 1], (start + k) % size, c)
    <3>1. 0 - 1 \in 0 - 1 .. last /\ 0 - 1 < 0
      BY <1>1, <1>4
    <3>2. \A k \in 0 .. last : k \in 0 - 1 .. last /\ ~(k < 0)
      BY <1>1
    <3> QED BY <2>9, <3>1, <3>2
  <2> DEFINE So(k) == Became(m, e[k], Filled(Page(m), W(k), c), Filled(m.fb, W(k), c))
             T == {k \in Int : So(k)}
  <2>11. 0 - 1 \in T
    <3>1. W(0 - 1) \cap Places = {}
      BY DEF From
    <3> HIDE DEF W
    <3>2. Filled(Page(m), W(0 - 1), c) = Page(m) /\ Filled(m.fb, W(0 - 1), c) = m.fb
      BY <1>2, <1>5, <3>1, FilledNone
    <3> QED BY <2>10, <3>2, BecameSelf
  <2>12. ASSUME NEW k \in 0 .. last, k - 1 \in T PROVE k \in T
    <3> DEFINE s == e[k - 1]
               t == e[k]
               p == (start + k) % size
               B == Filled(Page(m), W(k - 1), c)
               F == Filled(m.fb, W(k - 1), c)
    <3>1. k \in Nat /\ k >= 0
      BY <1>1
    <3>2. p \in Places /\ \A q \in Places : q \in W(k) <=> (q \in W(k - 1) \/ q = p)
      <4>1. \A i : i \in 0 .. k <=> (i \in 0 .. k - 1 \/ i = k)
        BY <3>1
      <4>2. \A q \in Places : q \in W(k) <=> \E i \in 0 .. k : q = (start + i) % size
        BY DEF From, size
      <4>3. \A q \in Places : q \in W(k - 1) <=> \E i \in 0 .. k - 1 : q = (start + i) % size
        BY DEF From, size
      <4>4. p \in Places
        BY <1>6, <3>1
      <4> HIDE DEF W
      <4> QED BY <4>1, <4>2, <4>3, <4>4, Zenon
    <3>3. Written(B, p, c) = Filled(Page(m), W(k), c) /\ Written(F, p, c) = Filled(m.fb, W(k), c)
      <4> HIDE DEF W, p
      <4> QED BY <1>2, <1>5, <3>2, FilledMore
    <3>4. Became(m, s, B, F)
      BY <2>12
    <3>5. t = updateDispBuf(s, p, c)
      BY <2>10
    <3> HIDE DEF s, t, p, B, F, W
    <3>6. s \in Screens /\ Page(s) = B /\ s.fb = F
      BY <3>4, BecamePage
    <3>7. Became(s, t, Written(B, p, c), Written(F, p, c))
      BY <2>2, <3>5, <3>6 DEF p
    <3>8. Became(m, t, Filled(Page(m), W(k), c), Filled(m.fb, W(k), c))
      BY <3>3, <3>4, <3>7, BecameTwice
    <3> QED BY <3>1, <3>8 DEF t
  <2> HIDE DEF T
  <2>13. last \in T
    BY <1>1, <1>4, <2>11, <2>12, LoopInduction
  <2> QED BY <2>1, <2>13 DEF T, last, c
<1> QED
  BY <1>1, <1>3, <1>4

\* CopyBuffer copies cells of the page to the display.
Copied(F, W, B) == [q \in Places |-> IF q \in W THEN B[q] ELSE F[q]]

\* Copying gives a picture, ...
LEMMA CopiedType ==
  ASSUME NEW F \in Pictures, NEW B \in Pictures, NEW W
  PROVE  /\ Copied(F, W, B) \in Pictures
         /\ \A q \in Places : Copied(F, W, B)[q] = IF q \in W THEN B[q] ELSE F[q]
BY DEF Copied, Pictures

\* ... copying nothing changes nothing, ...
LEMMA CopiedNone ==
  ASSUME NEW F \in Pictures, NEW B \in Pictures, NEW W, W \cap Places = {}
  PROVE  Copied(F, W, B) = F
<1>1. \A q \in Places : Copied(F, W, B)[q] = F[q]
  BY CopiedType
<1> QED
  BY <1>1, CopiedType, SamePicture

\* ... and one more cell is one written.
LEMMA CopiedMore ==
  ASSUME NEW F \in Pictures, NEW B \in Pictures, NEW V, NEW W, NEW p \in Places,
         \A q \in Places : q \in W <=> (q \in V \/ q = p), NEW c, c = B[p]
  PROVE  Written(Copied(F, V, B), p, c) = Copied(F, W, B)
<1> DEFINE E == Copied(F, V, B)
           L == Written(E, p, c)
           R == Copied(F, W, B)
<1>1. E \in Pictures /\ \A q \in Places : E[q] = IF q \in V THEN B[q] ELSE F[q]
  BY CopiedType
<1>2. R \in Pictures /\ \A q \in Places : R[q] = IF q \in W THEN B[q] ELSE F[q]
  BY CopiedType
<1> HIDE DEF E, R
<1>3. c \in Cells
  BY DEF Pictures
<1>4. L \in Pictures /\ \A q \in Places : L[q] = IF q = p THEN c ELSE E[q]
  BY <1>1, <1>3, WrittenType
<1> HIDE DEF L
<1>5. \A q \in Places : L[q] = R[q]
  BY <1>1, <1>2, <1>4
<1>6. L = R
  BY <1>2, <1>4, <1>5, SamePicture
<1> QED
  BY <1>6 DEF L, R, E

\* A cell stored byte by byte.
LEMMA BytesStored ==
  ASSUME NEW m \in Screens, NEW p \in Places, NEW c, c \in Cells, NEW n,
         n = writeDataMem(writeDataMem(m, 2 * p, <<c[1]>>), (2 * p) + 1, <<c[2]>>)
  PROVE  Became(m, n, Page(m), Written(m.fb, p, c))
<1>1. c[1] \in Byte /\ c[2] \in Byte /\ c = <<c[1], c[2]>>
  BY DEF Cells
<1>2. PICK l : l = writeDataMem(m, 2 * p, <<c[1]>>)
  OBVIOUS
<1>3. PICK b1 \in Byte, b2 \in Byte : b1 = c[1] /\ b2 = c[2] /\ c = <<b1, b2>>
  BY <1>1
<1>4. PICK h \in 0 .. 1 : h = 0
  OBVIOUS
<1>5. l = writeDataMem(m, (2 * p) + h, <<b1>>)
  <2>1. (2 * p) + h = 2 * p
    BY <1>4, PlaceOf
  <2> QED BY <1>2, <1>3, <2>1
<1>6. Kept(m, l) /\ l.buf = m.buf /\ l.fb = [m.fb EXCEPT ![p] = <<b1, m.fb[p][2]>>]
  <2>1. HasHalf(m, l, p, h, b1)
    BY <1>5, HalfStored
  <2> QED BY <1>4, <2>1 DEF HasHalf
<1>7. l \in Screens
  BY <1>6 DEF Kept
<1>8. n = writeDataMem(l, (2 * p) + 1, <<b2>>)
  BY <1>2, <1>3
<1>9. Kept(l, n) /\ n.buf = l.buf /\ n.fb = [l.fb EXCEPT ![p] = <<l.fb[p][1], b2>>]
  <2>1. HasHalf(l, n, p, 1, b2)
    BY <1>7, <1>8, HalfStored
  <2> QED BY <2>1 DEF HasHalf
<1>10. m.fb \in [Places -> Cells]
  BY ScreenParts
<1>11. n.fb = Written(m.fb, p, c)
  <2>1. l.fb[p] = <<b1, m.fb[p][2]>>
    BY <1>6, <1>10
  <2>2. l.fb[p][1] = b1
    BY <2>1
  <2>3. n.fb = [l.fb EXCEPT ![p] = c]
    BY <1>3, <1>9, <2>2
  <2>4. n.fb = [m.fb EXCEPT ![p] = c]
    BY <1>6, <1>10, <2>3
  <2> QED BY <2>4 DEF Written
<1>12. Kept(m, n)
  BY <1>6, <1>9 DEF Kept
<1>13. Written(m.fb, p, c) \in Pictures /\ Page(m) \in Pictures
  BY ScreenParts, WrittenType
<1>14. n.buf = [m.buf EXCEPT ![m.page] = Page(m)]
  BY <1>6, <1>9, ScreenParts DEF Page
<1> QED
  BY <1>11, <1>12, <1>13, <1>14 DEF Became

\* CopyBuffer, byte by byte, copies the cells.
LEMMA BufferCopied ==
  ASSUME NEW m \in Screens, NEW p0 \in Nat, NEW p2 \in Int, p0 .. p2 \subseteq Places,
         NEW k0, p2 = p0 + k0 - 1, NEW n, n = CopyBuffer(m, p0, k0)
  PROVE  Became(m, n, Page(m), Copied(m.fb, p0 .. p2, Page(m)))
<1>1. p0 \in Int /\ p2 \in Int
  OBVIOUS
<1>2. Page(m) \in Pictures /\ m.fb \in Pictures
  BY ScreenParts
<1> DEFINE Copying(s, k) == writeDataMem(writeDataMem(s, 2 * k, <<m.buf[m.page][k][1]>>), (2 * k) + 1,
                                         <<m.buf[m.page][k][2]>>)
           IsFor(f) == f = [k \in p0 - 1 .. p2 |->
                              IF k < p0 THEN m ELSE Copying(f[k - 1], k)]
           e == CHOOSE f : IsFor(f)
           W(k) == p0 .. k
<1>3. CASE p2 < p0
  <2>1. n = m
    BY <1>1, <1>3 DEF CopyBuffer, For
  <2>2. W(p2) \cap Places = {}
    BY <1>1, <1>3
  <2>3. Copied(m.fb, W(p2), Page(m)) = m.fb
    <3> HIDE DEF W
    <3> QED BY <1>2, <2>2, CopiedNone
  <2>4. Became(m, n, Page(m), Copied(m.fb, W(p2), Page(m)))
    <3> HIDE DEF W
    <3> QED BY <2>1, <2>3, BecameSelf
  <2> QED BY <2>4
<1>4. CASE p0 <= p2
  <2>1. n = e[p2]
    BY <1>1, <1>4 DEF CopyBuffer, For
  <2> DEFINE G == [z \in Screens \X (p0 .. p2) |-> Copying(z[1], z[2])]
  <2>2. ASSUME NEW s \in Screens, NEW k \in p0 .. p2, NEW t, t = Copying(s, k)
        PROVE  Became(s, t, Page(s), Written(s.fb, k, Page(m)[k]))
    <3>1. k \in Places
      OBVIOUS
    <3>2. m.buf[m.page][k] = Page(m)[k] /\ Page(m)[k] \in Cells
      BY <1>2, <3>1 DEF Page, Pictures
    <3> QED BY <2>2, <3>1, <3>2, BytesStored
  <2>3. ASSUME NEW z \in Screens \X (p0 .. p2) PROVE G[z] \in Screens
    <3>1. z[1] \in Screens /\ z[2] \in p0 .. p2 /\ G[z] = Copying(z[1], z[2])
      OBVIOUS
    <3> HIDE DEF G
    <3>2. PICK t : t = Copying(z[1], z[2])
      OBVIOUS
    <3>3. t \in Screens
      BY <2>2, <3>1, <3>2 DEF Became, Kept
    <3> QED BY <3>1, <3>2, <3>3
  <2>4. Body(G, p0, p2)
    BY <2>3 DEF Body
  <2>5. \A s \in Screens, k \in p0 .. p2 : G[<<s, k>>] = Copying(s, k)
    OBVIOUS
  <2> HIDE DEF G
  <2>6. PICK f : Runs(f, m, p0, p2, G)
    BY <1>1, <1>4, <2>4, LoopExists
  <2>7. ASSUME NEW k \in p0 .. p2 PROVE f[k] = Copying(f[k - 1], k)
    <3>1. k - 1 \in p0 - 1 .. p2
      BY <1>1
    <3> QED BY <2>5, <2>6, <3>1 DEF Runs
  <2>8. IsFor(f)
    <3>1. ASSUME NEW k \in p0 - 1 .. p2
          PROVE  f[k] = IF k < p0 THEN m ELSE Copying(f[k - 1], k)
      <4>1. k < p0 => k = p0 - 1
        BY <1>1
      <4>2. ~(k < p0) => k \in p0 .. p2
        BY <1>1
      <4> QED BY <2>6, <2>7, <4>1, <4>2 DEF Runs
    <3> QED BY <2>6, <3>1 DEF Runs
  <2>9. IsFor(e)
    BY <2>8
  <2> HIDE DEF e
  <2>10. e[p0 - 1] = m /\ \A k \in p0 .. p2 : e[k] = Copying(e[k - 1], k)
    <3>1. p0 - 1 \in p0 - 1 .. p2 /\ p0 - 1 < p0
      BY <1>1, <1>4
    <3>2. \A k \in p0 .. p2 : k \in p0 - 1 .. p2 /\ ~(k < p0)
      BY <1>1
    <3> QED BY <2>9, <3>1, <3>2
  <2> DEFINE So(k) == Became(m, e[k], Page(m), Copied(m.fb, W(k), Page(m)))
             T == {k \in Int : So(k)}
  <2>11. p0 - 1 \in T
    <3>1. W(p0 - 1) \cap Places = {}
      OBVIOUS
    <3> HIDE DEF W
    <3>2. Copied(m.fb, W(p0 - 1), Page(m)) = m.fb
      BY <1>2, <3>1, CopiedNone
    <3> QED BY <2>10, <3>2, BecameSelf
  <2>12. ASSUME NEW k \in p0 .. p2, k - 1 \in T PROVE k \in T
    <3> DEFINE s == e[k - 1]
               t == e[k]
               c == Page(m)[k]
               F == Copied(m.fb, W(k - 1), Page(m))
    <3>1. k \in Places /\ k \in Int /\ p0 <= k
      OBVIOUS
    <3>2. \A q \in Places : q \in W(k) <=> (q \in W(k - 1) \/ q = k)
      BY <3>1 DEF Places
    <3>3. Written(F, k, c) = Copied(m.fb, W(k), Page(m))
      <4> HIDE DEF W
      <4> QED BY <1>2, <3>1, <3>2, CopiedMore
    <3>4. Became(m, s, Page(m), F)
      BY <2>12
    <3>5. t = Copying(s, k)
      BY <2>10
    <3> HIDE DEF s, t, c, F, W
    <3>6. s \in Screens /\ Page(s) = Page(m) /\ s.fb = F
      BY <3>4, BecamePage
    <3>7. Became(s, t, Page(m), Written(F, k, c))
      BY <2>2, <3>5, <3>6 DEF c
    <3>8. Became(m, t, Page(m), Copied(m.fb, W(k), Page(m)))
      BY <3>3, <3>4, <3>7, BecameTwice
    <3> QED BY <3>1, <3>8 DEF t
  <2> HIDE DEF T
  <2>13. p2 \in T
    BY <1>1, <1>4, <2>11, <2>12, LoopInduction
  <2> QED BY <2>1, <2>13 DEF T
<1> QED
  BY <1>1, <1>3, <1>4

-----------------------------------------------------------------------------
(***************************************************************************)
(* The cursor, and a character typed.                                      *)
(***************************************************************************)
\* The displayed page has become B, the display's memory F, and the cursor of the
\* page, but for the BIOS data area, is xy.
Penned(m, n, B, F, xy) ==
    /\ n \in Screens /\ n.page = m.page /\ n.bda = m.bda /\ n.at \in {m.at, m.bda[0]}
    /\ Clean(m) => Clean(n)
    /\ B \in Pictures /\ F \in Pictures /\ xy \in Spots
    /\ n.buf = [m.buf EXCEPT ![m.page] = B] /\ n.fb = F
    /\ n.pos = [m.pos EXCEPT ![m.page] = xy]

\* What has become of page, display and pen is there, ...
LEMMA PennedIs ==
  ASSUME NEW m \in Screens, NEW n, NEW B, NEW F, NEW xy, Penned(m, n, B, F, xy)
  PROVE  /\ n \in Screens /\ Page(n) = B /\ n.fb = F /\ n.page = m.page /\ n.pos[n.page] = xy
         /\ n.pos[m.page] = xy
BY ScreenParts DEF Penned, Page

\* ... and of that something more may become.
LEMMA PennedTwice ==
  ASSUME NEW m \in Screens, NEW n, NEW o, NEW B, NEW F, NEW xy, NEW C, NEW E, NEW zw,
         Penned(m, n, B, F, xy), Penned(n, o, C, E, zw)
  PROVE  Penned(m, o, C, E, zw)
<1>1. o.buf = [m.buf EXCEPT ![m.page] = C]
  BY ScreenParts DEF Penned
<1>2. o.pos = [m.pos EXCEPT ![m.page] = zw]
  BY ScreenParts DEF Penned
<1> QED
  BY <1>1, <1>2 DEF Penned

\* Page and display alone, ...
LEMMA BecamePenned ==
  ASSUME NEW m \in Screens, NEW n, NEW B, NEW F, Became(m, n, B, F)
  PROVE  Penned(m, n, B, F, m.pos[m.page])
<1>1. m.pos[m.page] \in Spots /\ n.pos = [m.pos EXCEPT ![m.page] = m.pos[m.page]]
  BY ScreenParts DEF Became, Kept
<1> QED
  BY <1>1 DEF Became, Kept, Penned

\* ... and the pen alone.
LEMMA PosPenned ==
  ASSUME NEW m \in Screens, NEW xy \in Spots, NEW g, g = m.page, NEW n, n = [m EXCEPT !.pos[g] = xy]
  PROVE  Penned(m, n, Page(m), m.fb, xy)
<1>1. m.page \in PageSet /\ m \in Screens /\ xy \in Spots
  BY ScreenParts
<1>0. n = WithPos(m, m.page, xy)
  BY DEF WithPos
<1>2. /\ n \in Screens /\ n.page = m.page /\ n.pos = [m.pos EXCEPT ![m.page] = xy] /\ n.bda = m.bda
      /\ n.buf = m.buf /\ n.fb = m.fb /\ n.shown = m.shown /\ n.at = m.at
  <2>1. HasPos(m, n, m.page, xy)
    BY <1>0, <1>1, FieldPos
  <2> QED BY <2>1 DEF HasPos
<1>3. n.buf = [m.buf EXCEPT ![m.page] = Page(m)] /\ Page(m) \in Pictures /\ m.fb \in Pictures
  BY <1>2, ScreenParts DEF Page
<1>4. Clean(m) => Clean(n)
  BY <1>2 DEF Clean
<1> QED
  BY <1>2, <1>3, <1>4 DEF Penned

\* StoreCursor puts it into the BIOS data area, and moves the terminal's for page 0.
LEMMA CursorStored ==
  ASSUME NEW m \in Screens, NEW g \in PageSet, NEW xy \in Spots, NEW n, n = StoreCursor(m, g, xy)
  PROVE  /\ n \in Screens /\ n.page = m.page /\ n.pos = m.pos /\ n.bda = [m.bda EXCEPT ![g] = xy]
         /\ n.buf = m.buf /\ n.fb = m.fb /\ n.shown = m.shown
         /\ n.at = IF g = 0 THEN xy ELSE m.at
<1> DEFINE l == [m EXCEPT !.bda[g] = xy]
           a == IF g = 0 THEN xy ELSE m.at
<1>1. l = WithBda(m, g, xy)
  BY DEF WithBda
<1>2. n = [l EXCEPT !.at = a]
  BY DEF StoreCursor, Screens
<1>3. a \in Spots
  BY ScreenParts
<1>4. a = IF g = 0 THEN xy ELSE m.at
  OBVIOUS
<1> HIDE DEF l, a
<1>5. /\ l \in Screens /\ l.page = m.page /\ l.bda = [m.bda EXCEPT ![g] = xy] /\ l.pos = m.pos
      /\ l.buf = m.buf /\ l.fb = m.fb /\ l.shown = m.shown /\ l.at = m.at
  BY <1>1, FieldBda
<1>6. /\ n \in Screens /\ n.page = l.page /\ n.pos = l.pos /\ n.bda = l.bda /\ n.buf = l.buf
      /\ n.fb = l.fb /\ n.shown = l.shown /\ n.at = a
  BY <1>2, <1>3, <1>5, FieldAt
<1> QED
  BY <1>4, <1>5, <1>6

\* What is typed, and where the pen is then.
Inked(B, p, code, a) == IF code \in {7, 8, 10, 13} THEN B ELSE Written(B, p, <<code, a>>)
SteppedTo(x, y, code) ==
    CASE code = 10 -> <<x, y + 1>>
      [] code = 13 -> <<0, y>>
      [] code = 8 -> <<IF x = 0 THEN 0 ELSE x - 1, y>>
      [] code = 7 -> <<x, y>>
      [] OTHER -> <<x + 1, y>>

\* Stepped inks the character and moves the pen, ...
LEMMA SteppedEffect ==
  ASSUME NEW m \in Screens, NEW x \in 0 .. MAX_X - 1, NEW y \in 0 .. MAX_Y - 1,
         m.pos[m.page] = <<x, y>>, NEW code \in Byte, NEW a \in Byte, NEW n, n = Stepped(m, code, a)
  PROVE  Penned(m, n, Inked(Page(m), Place(x, y), code, a), Inked(m.fb, Place(x, y), code, a),
                SteppedTo(x, y, code))
<1>1. x \in Nat /\ y \in Nat /\ Place(x, y) \in Places
  BY PlaceIs, ConsoleAssumption
<1>2. PICK g : g = m.page
  OBVIOUS
<1>3. PICK x0, y0 : x0 = m.pos[g][1] /\ y0 = m.pos[g][2]
  OBVIOUS
<1>4. x0 = x /\ y0 = y
  BY <1>2, <1>3
<1>5. n = CASE code = 10 -> [m EXCEPT !.pos[g] = <<x, y + 1>>]
            [] code = 13 -> [m EXCEPT !.pos[g] = <<0, y>>]
            [] code = 8 -> [m EXCEPT !.pos[g] = <<IF x = 0 THEN 0 ELSE x - 1, y>>]
            [] code = 7 -> m
            [] OTHER -> [updateDispBuf(m, Place(x, y), <<code, a>>) EXCEPT !.pos[g] = <<x + 1, y>>]
  BY <1>2, <1>3, <1>4 DEF Stepped
<1>6. CASE code = 7
  <2>1. n = m /\ Inked(Page(m), Place(x, y), code, a) = Page(m)
        /\ Inked(m.fb, Place(x, y), code, a) = m.fb /\ SteppedTo(x, y, code) = m.pos[m.page]
    BY <1>5, <1>6 DEF Inked, SteppedTo
  <2> QED BY <2>1, BecameSelf, BecamePenned
<1>7. CASE code \in {8, 10, 13}
  <2> DEFINE xy == SteppedTo(x, y, code)
  <2>1. n = [m EXCEPT !.pos[g] = xy]
    BY <1>5, <1>7 DEF SteppedTo
  <2>2. xy \in Spots
    BY <1>1, <1>7 DEF SteppedTo, Spots
  <2>3. Inked(Page(m), Place(x, y), code, a) = Page(m) /\ Inked(m.fb, Place(x, y), code, a) = m.fb
    BY <1>7 DEF Inked
  <2> HIDE DEF xy
  <2>4. Penned(m, n, Page(m), m.fb, xy)
    BY <1>2, <2>1, <2>2, PosPenned
  <2> QED BY <2>3, <2>4 DEF xy
<1>8. CASE code \notin {7, 8, 10, 13}
  <2>1. PICK c : c = <<code, a>>
    OBVIOUS
  <2>2. PICK l : l = updateDispBuf(m, Place(x, y), c)
    OBVIOUS
  <2>13. <<x + 1, y>> \in Spots
    BY <1>1 DEF Spots
  <2>3. PICK xy \in Spots : xy = <<x + 1, y>>
    BY <2>13
  <2>4. n = [l EXCEPT !.pos[g] = xy]
    BY <1>5, <1>8, <2>1, <2>2, <2>3
  <2>5. c \in Cells
    BY <2>1 DEF Cells
  <2>6. Became(m, l, Written(Page(m), Place(x, y), c), Written(m.fb, Place(x, y), c))
    BY <1>1, <2>2, <2>5, CellUpdated
  <2> DEFINE B == Written(Page(m), Place(x, y), c)
             F == Written(m.fb, Place(x, y), c)
  <2>7. Inked(Page(m), Place(x, y), code, a) = B /\ Inked(m.fb, Place(x, y), code, a) = F
    BY <1>8, <2>1 DEF Inked
  <2>8. SteppedTo(x, y, code) = xy
    BY <1>8, <2>3 DEF SteppedTo
  <2> HIDE DEF B, F
  <2>9. Penned(m, l, B, F, m.pos[m.page])
    BY <2>6, BecamePenned DEF B, F
  <2>10. l \in Screens /\ l.page = g /\ Page(l) = B /\ l.fb = F
    BY <1>2, <2>9, PennedIs
  <2>11. Penned(l, n, Page(l), l.fb, xy)
    BY <2>4, <2>10, PosPenned
  <2>12. Penned(m, n, B, F, xy)
    BY <2>9, <2>10, <2>11, PennedTwice
  <2> QED BY <2>7, <2>8, <2>12
<1> QED
  BY <1>6, <1>7, <1>8

\* The pen on a line behind the last column, and behind the last line.
WrappedTo(xy) == IF xy[1] >= MAX_X THEN <<xy[1] % MAX_X, xy[2] + 1>> ELSE xy

RolledUp(B) ==
    Filled(Moved(B, Window(0, 0, MAX_X - 1, MAX_Y - 1 - 1), 1),
           Window(0, TopFilled(1, 0, MAX_Y - 1), MAX_X - 1, MAX_Y - 1), <<32, 7>>)

\* ... Wrapped moves it to the next line, ...
LEMMA WrappedEffect ==
  ASSUME NEW m \in Screens, NEW n, n = Wrapped(m)
  PROVE  Penned(m, n, Page(m), m.fb, WrappedTo(m.pos[m.page]))
<1>1. PICK xy : xy = m.pos[m.page]
  OBVIOUS
<1>2. xy \in Spots
  BY <1>1, ScreenParts
<1>3. CASE xy[1] >= MAX_X
  <2> DEFINE zw == <<xy[1] % MAX_X, xy[2] + 1>>
  <2>1. zw \in Spots
    BY <1>2, ConsoleAssumption DEF Spots
  <2>2. n = [m EXCEPT !.pos[m.page] = zw]
    BY <1>1, <1>3 DEF Wrapped
  <2>3. WrappedTo(xy) = zw
    BY <1>3 DEF WrappedTo
  <2> HIDE DEF zw
  <2> QED BY <1>1, <2>1, <2>2, <2>3, PosPenned
<1>4. CASE ~(xy[1] >= MAX_X)
  <2>1. n = m /\ WrappedTo(xy) = xy
    BY <1>1, <1>4 DEF Wrapped, WrappedTo
  <2> QED BY <1>1, <2>1, BecameSelf, BecamePenned
<1> QED
  BY <1>3, <1>4

\* ... and Scrolled rolls the page up.
LEMMA ScrolledEffect ==
  ASSUME NEW m \in Screens, NEW n, n = Scrolled(m)
  PROVE  /\ m.pos[m.page][2] < MAX_Y => Penned(m, n, Page(m), m.fb, m.pos[m.page])
         /\ ~(m.pos[m.page][2] < MAX_Y) =>
               Penned(m, n, RolledUp(Page(m)), RolledUp(m.fb), <<m.pos[m.page][1], MAX_Y - 1>>)
<1>1. PICK xy : xy = m.pos[m.page]
  OBVIOUS
<1>2. xy \in Spots /\ MAX_Y \in Nat \ {0} /\ MAX_X \in Nat \ {0}
  BY <1>1, ScreenParts, ConsoleAssumption
<1>3. CASE xy[2] < MAX_Y
  <2>1. n = m
    BY <1>1, <1>3 DEF Scrolled
  <2>2. Penned(m, n, Page(m), m.fb, m.pos[m.page])
    BY <2>1, BecameSelf, BecamePenned
  <2> QED BY <1>1, <1>3, <2>2
<1>4. CASE ~(xy[2] < MAX_Y)
  <2>1. PICK zw : zw = <<xy[1], MAX_Y - 1>>
    OBVIOUS
  <2>2. zw \in Spots
    BY <1>2, <2>1 DEF Spots
  <2>3. PICK l : l = [m EXCEPT !.pos[m.page] = zw]
    OBVIOUS
  <2>4. PICK c : c = <<32, 7>>
    OBVIOUS
  <2>5. n = ScrollUp(l, 1, 0, 0, MAX_X - 1, MAX_Y - 1, c)
    BY <1>1, <1>4, <2>1, <2>3, <2>4 DEF Scrolled
  <2>6. Penned(m, l, Page(m), m.fb, zw)
    BY <2>2, <2>3, PosPenned
  <2>7. l \in Screens /\ Page(l) = Page(m) /\ l.fb = m.fb /\ l.pos[l.page] = zw
    BY <2>6, PennedIs
  <2>8. Became(l, n, RolledUp(Page(l)), RolledUp(l.fb))
    <3>1. c \in Cells
      BY <2>4 DEF Cells, Byte
    <3>2. /\ 1 \in Nat \ {0} /\ 0 \in Nat /\ 0 <= MAX_Y - 1
          /\ MAX_X - 1 \in 0 .. MAX_X - 1 /\ MAX_Y - 1 \in 0 .. MAX_Y - 1
      BY <1>2
    <3>3. Became(l, n, Filled(Moved(Page(l), Window(0, 0, MAX_X - 1, MAX_Y - 1 - 1), 1),
                              Window(0, TopFilled(1, 0, MAX_Y - 1), MAX_X - 1, MAX_Y - 1), c),
                       Filled(Moved(l.fb, Window(0, 0, MAX_X - 1, MAX_Y - 1 - 1), 1),
                              Window(0, TopFilled(1, 0, MAX_Y - 1), MAX_X - 1, MAX_Y - 1), c))
      BY <2>5, <2>7, <3>1, <3>2, ScrolledUp
    <3> QED BY <2>4, <3>3 DEF RolledUp
  <2>9. Penned(l, n, RolledUp(Page(l)), RolledUp(l.fb), zw)
    BY <2>7, <2>8, BecamePenned
  <2>10. Penned(m, n, RolledUp(Page(m)), RolledUp(m.fb), zw)
    BY <2>6, <2>7, <2>9, PennedTwice
  <2> QED BY <1>1, <1>4, <2>1, <2>10
<1> QED
  BY <1>3, <1>4

\* putCharWithAttr.
Rest(xy) == IF xy[2] < MAX_Y THEN xy ELSE <<xy[1], MAX_Y - 1>>
Risen(B, xy) == IF xy[2] < MAX_Y THEN B ELSE RolledUp(B)

\* All of putCharWithAttr.
LEMMA CharPut ==
  ASSUME NEW m \in Screens, NEW x \in 0 .. MAX_X - 1, NEW y \in 0 .. MAX_Y - 1,
         m.pos[m.page] = <<x, y>>, NEW code \in Byte, NEW a \in Byte,
         NEW n, n = putCharWithAttr(m, code, a), NEW xy, xy = WrappedTo(SteppedTo(x, y, code))
  PROVE  /\ n \in Screens /\ n.page = m.page
         /\ n.buf = [m.buf EXCEPT ![m.page] = Risen(Inked(Page(m), Place(x, y), code, a), xy)]
         /\ n.fb = Risen(Inked(m.fb, Place(x, y), code, a), xy)
         /\ n.pos = [m.pos EXCEPT ![m.page] = Rest(xy)] /\ n.bda = [m.bda EXCEPT ![m.page] = Rest(xy)]
         /\ n.at \in IF m.page = 0 THEN {Rest(xy)} ELSE {m.at, m.bda[0]}
         /\ Clean(m) => Clean(n)
         /\ Page(n) = Risen(Inked(Page(m), Place(x, y), code, a), xy)
<1> DEFINE B == Inked(Page(m), Place(x, y), code, a)
           F == Inked(m.fb, Place(x, y), code, a)
<1>1. PICK s : s = Stepped(m, code, a)
  OBVIOUS
<1>2. PICK w : w = Wrapped(s)
  OBVIOUS
<1>3. PICK r : r = Scrolled(w)
  OBVIOUS
<1>4. n = StoreCursor(r, m.page, r.pos[m.page])
  BY <1>1, <1>2, <1>3 DEF putCharWithAttr
<1>5. Penned(m, s, B, F, SteppedTo(x, y, code))
  BY <1>1, SteppedEffect
<1> HIDE DEF B, F
<1>6. s \in Screens /\ Page(s) = B /\ s.fb = F /\ s.page = m.page
      /\ s.pos[s.page] = SteppedTo(x, y, code)
  BY <1>5, PennedIs
<1>7. Penned(s, w, Page(s), s.fb, WrappedTo(s.pos[s.page]))
  BY <1>2, <1>6, WrappedEffect
<1>8. Penned(m, w, B, F, xy)
  BY <1>5, <1>6, <1>7, PennedTwice
<1>9. w \in Screens /\ Page(w) = B /\ w.fb = F /\ w.page = m.page /\ w.pos[w.page] = xy
  BY <1>8, PennedIs
<1>10. Penned(m, r, Risen(B, xy), Risen(F, xy), Rest(xy))
  <2>1. CASE xy[2] < MAX_Y
    <3>1. Penned(w, r, B, F, xy)
      BY <1>3, <1>9, <2>1, ScrolledEffect
    <3>2. Penned(m, r, B, F, xy)
      BY <1>8, <1>9, <3>1, PennedTwice
    <3> QED BY <2>1, <3>2 DEF Risen, Rest
  <2>2. CASE ~(xy[2] < MAX_Y)
    <3>1. Penned(w, r, RolledUp(B), RolledUp(F), <<xy[1], MAX_Y - 1>>)
      BY <1>3, <1>9, <2>2, ScrolledEffect
    <3>2. Penned(m, r, RolledUp(B), RolledUp(F), <<xy[1], MAX_Y - 1>>)
      BY <1>8, <1>9, <3>1, PennedTwice
    <3> QED BY <2>2, <3>2 DEF Risen, Rest
  <2> QED BY <2>1, <2>2
<1>11. r \in Screens /\ r.page = m.page /\ r.pos[m.page] = Rest(xy) /\ Page(r) = Risen(B, xy)
  BY <1>10, PennedIs
<1>12. m.page \in PageSet /\ Rest(xy) \in Spots
  BY <1>10, ScreenParts DEF Penned
<1>13. /\ n \in Screens /\ n.page = r.page /\ n.pos = r.pos /\ n.bda = [r.bda EXCEPT ![m.page] = Rest(xy)]
       /\ n.buf = r.buf /\ n.fb = r.fb /\ n.shown = r.shown
       /\ n.at = IF m.page = 0 THEN Rest(xy) ELSE r.at
  BY <1>4, <1>11, <1>12, CursorStored
<1>14. Page(n) = Risen(B, xy)
  BY <1>11, <1>13 DEF Page
<1>15. Clean(m) => Clean(n)
  BY <1>10, <1>13 DEF Penned, Clean
<1> QED
  BY <1>10, <1>13, <1>14, <1>15 DEF Penned, B, F

-----------------------------------------------------------------------------
(***************************************************************************)
(* The terminal in step.                                                   *)
(***************************************************************************)
VideoInv ==
    /\ screen \in Screens /\ asks \subseteq VideoCalls /\ behind \subseteq Places
    /\ TerminalInStep
    /\ "page" \in asks \/ screen.page = 0

Room == (0 .. MAX_X - 1) \X (0 .. MAX_Y - 1)

\* The screen has a place for the cursor, and a page.
LEMMA RoomIs ==
  /\ MAX_X \in Nat \ {0} /\ MAX_Y \in Nat \ {0} /\ PAGES \in Nat \ {0}
  /\ <<0, 0>> \in Room /\ 0 \in PageSet /\ Room \subseteq Spots
BY ConsoleAssumption, VideoAssumption DEF Room, PageSet, Spots

\* What the invariant says, part by part.
LEMMA Parts ==
  ASSUME VideoInv
  PROVE  /\ screen \in Screens /\ screen.page \in PageSet /\ 0 \in PageSet
         /\ screen.pos \in [PageSet -> Spots] /\ screen.bda \in [PageSet -> Spots]
         /\ \A g \in PageSet : screen.pos[g] \in Room /\ screen.bda[g] = screen.pos[g]
         /\ \A p \in Places \ behind : screen.fb[p] = Page(screen)[p]
         /\ "wide" \in asks \/ Clean(screen)
         /\ "page" \in asks \/ (screen.page = 0 /\ screen.at = screen.pos[0])
BY ScreenParts, RoomIs DEF VideoInv, TerminalInStep, CursorInStep, Clean, Page, Room

\* And back.
LEMMA PartsKept ==
  ASSUME VideoInv, asks' = asks, NEW n, screen' = n, n \in Screens, behind' \subseteq Places,
         \A g \in PageSet : n.pos[g] \in Room /\ n.bda[g] = n.pos[g],
         \A p \in Places \ behind' : n.fb[p] = Page(n)[p],
         "wide" \in asks \/ Clean(n),
         "page" \in asks \/ (n.page = 0 /\ n.at = n.pos[0])
  PROVE  VideoInv'
BY DEF VideoInv, TerminalInStep, CursorInStep, Clean, Page, Room

\* The displayed page and the display's memory have changed, and agree off behind.
LEMMA PaintKeeps ==
  ASSUME VideoInv, asks' = asks, NEW n, screen' = n, NEW B, NEW F, Became(screen, n, B, F),
         behind' \subseteq Places, \A p \in Places \ behind' : F[p] = B[p]
  PROVE  VideoInv'
<1>1. PICK m : m = screen
  OBVIOUS
<1>2. /\ m \in Screens /\ m.page \in PageSet /\ 0 \in PageSet
      /\ \A g \in PageSet : m.pos[g] \in Room /\ m.bda[g] = m.pos[g]
      /\ "wide" \in asks \/ Clean(m)
      /\ "page" \in asks \/ (m.page = 0 /\ m.at = m.pos[0])
  BY <1>1, Parts
<1>3. Became(m, n, B, F)
  BY <1>1
<1>4. n \in Screens /\ Page(n) = B /\ n.fb = F /\ n.page = m.page
  BY <1>2, <1>3, BecamePage
<1>5. n.pos = m.pos /\ n.bda = m.bda /\ n.at \in {m.at, m.bda[0]} /\ (Clean(m) => Clean(n))
  BY <1>3 DEF Became, Kept
<1>6. \A g \in PageSet : n.pos[g] \in Room /\ n.bda[g] = n.pos[g]
  BY <1>2, <1>5
<1>7. "wide" \in asks \/ Clean(n)
  BY <1>2, <1>5
<1>8. "page" \in asks \/ (n.page = 0 /\ n.at = n.pos[0])
  BY <1>2, <1>4, <1>5
<1>9. \A p \in Places \ behind' : n.fb[p] = Page(n)[p]
  BY <1>4
<1> QED
  BY <1>4, <1>6, <1>7, <1>8, <1>9, PartsKept

\* Where nothing is behind, the display's memory is the page.
LEMMA NothingBehind ==
  ASSUME VideoInv, behind = {}
  PROVE  Page(screen) = screen.fb
<1>1. \A p \in Places : Page(screen)[p] = screen.fb[p]
  BY Parts
<1>2. Page(screen) \in Pictures /\ screen.fb \in Pictures
  BY Parts, ScreenParts
<1> QED
  BY <1>1, <1>2, SamePicture

\* At the start nothing has been written.
LEMMA VideoInitInv == VideoInit => VideoInv
<1> SUFFICES ASSUME VideoInit PROVE VideoInv
  OBVIOUS
<1> DEFINE P == [g \in PageSet |-> <<0, 0>>]
           E == [g \in PageSet |-> [p \in Places |-> <<0, 0>>]]
           F == [p \in Places |-> <<32, 8>>]
<1>1. screen = [page |-> 0, pos |-> P, bda |-> P, buf |-> E, fb |-> F, shown |-> F, at |-> <<0, 0>>]
  BY DEF VideoInit
<1>2. /\ P \in [PageSet -> Spots] /\ E \in [PageSet -> Pictures] /\ F \in Pictures
      /\ F \in [Places -> Nat \X Byte] /\ <<0, 0>> \in Spots
  BY DEF Spots, Pictures, Cells, Byte
<1>3. (\A g \in PageSet : P[g] = <<0, 0>>) /\ (\A p \in Places : F[p] = <<32, 8>>)
  OBVIOUS
<1> HIDE DEF P, E, F
<1>4. screen \in Screens
  BY <1>1, <1>2, RoomIs DEF Screens
<1>5. Clean(screen)
  <2>1. getCharacterForConsole(32) = 32
    BY DEF getCharacterForConsole
  <2>2. ASSUME NEW p \in Places PROVE screen.shown[p] = Look(screen.fb[p])
    BY <1>1, <1>3, <2>1 DEF Look
  <2> QED BY <2>2 DEF Clean
<1>6. CursorInStep
  BY <1>1, <1>3, RoomIs DEF CursorInStep, Room
<1>7. screen.page = 0 /\ screen.at = screen.pos[0]
  BY <1>1, <1>3, RoomIs
<1>8. behind = Places /\ asks \subseteq VideoCalls
  <2>1. PICK program \in Programs : asks = program.calls
    BY DEF VideoInit
  <2>2. program \in [calls : SUBSET VideoCalls, length : Nat]
    BY VideoAssumption
  <2> QED BY <2>1, <2>2 DEF VideoInit
<1> QED
  BY <1>4, <1>5, <1>6, <1>7, <1>8 DEF VideoInv, TerminalInStep, Clean

\* The guest's calls.
LEMMA ModeEffect ==
  ASSUME VideoInv, int10_handler_ah00
  PROVE  /\ VideoInv'
         /\ screen'.page = screen.page
         /\ screen'.buf = [screen.buf EXCEPT ![screen.page] = [p \in Places |-> <<32, 7>>]]
         /\ screen'.fb = [p \in Places |-> <<32, 7>>]
         /\ screen'.pos = [screen.pos EXCEPT ![screen.page] = <<0, 0>>]
<1>1. PICK m : m = screen
  OBVIOUS
<1>2. PICK o : o = <<0, 0>>
  OBVIOUS
<1>3. PICK c : c = <<32, 7>>
  OBVIOUS
<1>4. PICK n : n = screen'
  OBVIOUS
<1>5. PICK f : f = FillRows(m, 0, MAX_Y - 1, 0, MAX_X - 1, c)
  OBVIOUS
<1>6. PICK g : g = f.page
  OBVIOUS
<1>7. PICK l : l = [f EXCEPT !.pos[g] = o]
  OBVIOUS
<1>8. PICK r : r = StoreCursor(l, g, o)
  OBVIOUS
<1>9. n = [r EXCEPT !.at = o] /\ behind' = {} /\ asks' = asks
  BY <1>1, <1>2, <1>3, <1>4, <1>5, <1>6, <1>7, <1>8 DEF int10_handler_ah00, Given
<1>10. /\ m \in Screens /\ m.page \in PageSet /\ 0 \in PageSet
       /\ m.pos \in [PageSet -> Spots] /\ m.bda \in [PageSet -> Spots]
       /\ \A i \in PageSet : m.pos[i] \in Room /\ m.bda[i] = m.pos[i]
       /\ "wide" \in asks \/ Clean(m)
       /\ "page" \in asks \/ m.page = 0
  BY <1>1, Parts
<1>11. o \in Spots /\ o \in Room /\ c \in Cells
  BY <1>2, <1>3, RoomIs, Blanks DEF Byte
<1> DEFINE W == Window(0, 0, MAX_X - 1, MAX_Y - 1)
           B == Filled(Page(m), W, c)
           F == Filled(m.fb, W, c)
<1>12. Became(m, f, B, F)
  <2>1. 0 \in Nat /\ MAX_X - 1 \in 0 .. MAX_X - 1 /\ MAX_Y - 1 \in 0 .. MAX_Y - 1
    BY RoomIs
  <2> QED BY <1>5, <1>10, <1>11, <2>1, RowsFilled
<1>13. \A p \in Places : B[p] = c /\ F[p] = c
  <2>1. \A p \in Places : p \in W
    BY PlaceOf DEF Window
  <2> HIDE DEF W
  <2> QED BY <1>10, <1>11, <2>1, ScreenParts, FilledType
<1> HIDE DEF B, F
<1>14. f \in Screens /\ Page(f) = B /\ f.fb = F /\ f.page = m.page /\ g = m.page
  BY <1>6, <1>10, <1>12, BecamePage
<1>15. Penned(m, f, B, F, m.pos[m.page])
  BY <1>10, <1>12, BecamePenned
<1>16. Penned(f, l, Page(f), f.fb, o)
  BY <1>6, <1>7, <1>11, <1>14, PosPenned
<1>17. Penned(m, l, B, F, o)
  BY <1>10, <1>14, <1>15, <1>16, PennedTwice
<1>18. l \in Screens /\ Page(l) = B /\ l.fb = F /\ l.page = m.page
  BY <1>10, <1>17, PennedIs
<1>19. /\ r \in Screens /\ r.page = l.page /\ r.pos = l.pos /\ r.bda = [l.bda EXCEPT ![g] = o]
       /\ r.buf = l.buf /\ r.fb = l.fb /\ r.shown = l.shown
  BY <1>8, <1>10, <1>11, <1>14, <1>18, CursorStored
<1>20. /\ n \in Screens /\ n.page = r.page /\ n.pos = r.pos /\ n.bda = r.bda /\ n.buf = r.buf
       /\ n.fb = r.fb /\ n.shown = r.shown /\ n.at = o
  BY <1>9, <1>11, <1>19, FieldAt
<1>21. n.pos = [m.pos EXCEPT ![m.page] = o] /\ n.bda = [m.bda EXCEPT ![m.page] = o]
       /\ n.buf = [m.buf EXCEPT ![m.page] = B] /\ n.page = m.page /\ n.fb = F /\ Page(n) = B
  BY <1>14, <1>17, <1>18, <1>19, <1>20 DEF Penned, Page
<1>22. Clean(m) => Clean(n)
  BY <1>17, <1>19, <1>20 DEF Penned, Clean
<1>23. \A i \in PageSet : n.pos[i] \in Room /\ n.bda[i] = n.pos[i]
  BY <1>10, <1>11, <1>21
<1>24. "page" \in asks \/ (n.page = 0 /\ n.at = n.pos[0])
  BY <1>10, <1>20, <1>21
<1>25. \A p \in Places \ behind' : n.fb[p] = Page(n)[p]
  BY <1>13, <1>21
<1>26. VideoInv'
  BY <1>4, <1>9, <1>10, <1>20, <1>22, <1>23, <1>24, <1>25, PartsKept
<1>27. B = [p \in Places |-> c] /\ F = [p \in Places |-> c]
  BY <1>12, <1>13 DEF Became, Pictures
<1> QED
  BY <1>1, <1>2, <1>3, <1>4, <1>21, <1>26, <1>27

\* What is clipped is within the limit.
LEMMA ClipIs ==
  ASSUME NEW k \in Nat \ {0}, NEW i \in Nat
  PROVE  Clip(i, k) \in 0 .. k - 1 /\ (i \in 0 .. k - 1 => Clip(i, k) = i)
BY DEF Clip

\* AH = 02h: the cursor of a page.
LEMMA PlaceEffect ==
  ASSUME VideoInv, int10_handler_ah02
  PROVE  /\ VideoInv'
         /\ screen'.page = screen.page /\ screen'.buf = screen.buf /\ screen'.fb = screen.fb
         /\ \E g \in PageSet, xy \in Room : screen'.pos = [screen.pos EXCEPT ![g] = xy]
<1>1. PICK m : m = screen
  OBVIOUS
<1>2. PICK i \in 0 .. PAGES, x0 \in 0 .. MAX_X, y0 \in 0 .. MAX_Y :
        LET g == Clip(i, PAGES)
            xy == <<Clip(x0, MAX_X), Clip(y0, MAX_Y)>>
            placed == [m EXCEPT !.pos[g] = xy, !.at = IF g = m.page THEN xy ELSE @]
        IN screen' = StoreCursor(placed, g, xy)
  BY <1>1 DEF int10_handler_ah02
<1>3. PICK g : g = Clip(i, PAGES)
  OBVIOUS
<1>4. PICK xy : xy = <<Clip(x0, MAX_X), Clip(y0, MAX_Y)>>
  OBVIOUS
<1>5. PICK l : l = WithPos(m, g, xy)
  OBVIOUS
<1>6. PICK a : a = IF g = m.page THEN xy ELSE m.at
  OBVIOUS
<1>7. PICK p : p = [l EXCEPT !.at = a]
  OBVIOUS
<1>8. PICK n : n = screen'
  OBVIOUS
<1>9. /\ m \in Screens /\ m.page \in PageSet /\ 0 \in PageSet
      /\ m.pos \in [PageSet -> Spots] /\ m.bda \in [PageSet -> Spots]
      /\ \A j \in PageSet : m.pos[j] \in Room /\ m.bda[j] = m.pos[j]
      /\ \A q \in Places \ behind : m.fb[q] = Page(m)[q]
      /\ "wide" \in asks \/ Clean(m)
      /\ "page" \in asks \/ (m.page = 0 /\ m.at = m.pos[0])
  BY <1>1, Parts
<1>10. g \in PageSet /\ xy \in Room /\ xy \in Spots
  <2>1. i \in Nat /\ x0 \in Nat /\ y0 \in Nat
    BY RoomIs
  <2>2. g \in PageSet /\ xy \in Room
    BY <1>3, <1>4, <2>1, RoomIs, ClipIs DEF PageSet, Room
  <2> QED BY <2>2, RoomIs
<1>11. n = StoreCursor(p, g, xy)
  <2>1. p = [m EXCEPT !.pos[g] = xy, !.at = IF g = m.page THEN xy ELSE @]
    BY <1>5, <1>6, <1>7, <1>9 DEF WithPos, Screens
  <2> QED BY <1>2, <1>3, <1>4, <1>8, <2>1
<1>12. /\ l \in Screens /\ l.page = m.page /\ l.pos = [m.pos EXCEPT ![g] = xy] /\ l.bda = m.bda
       /\ l.buf = m.buf /\ l.fb = m.fb /\ l.shown = m.shown /\ l.at = m.at
  <2>1. HasPos(m, l, g, xy)
    BY <1>5, <1>9, <1>10, FieldPos
  <2> QED BY <2>1 DEF HasPos
<1>13. a \in Spots
  BY <1>6, <1>9, <1>10, ScreenParts
<1>14. /\ p \in Screens /\ p.page = l.page /\ p.pos = l.pos /\ p.bda = l.bda /\ p.buf = l.buf
       /\ p.fb = l.fb /\ p.shown = l.shown /\ p.at = a
  BY <1>7, <1>12, <1>13, FieldAt
<1>15. /\ n \in Screens /\ n.page = p.page /\ n.pos = p.pos /\ n.bda = [p.bda EXCEPT ![g] = xy]
       /\ n.buf = p.buf /\ n.fb = p.fb /\ n.shown = p.shown
       /\ n.at = IF g = 0 THEN xy ELSE p.at
  BY <1>10, <1>11, <1>14, CursorStored
<1>16. Clean(m) => Clean(n)
  BY <1>12, <1>14, <1>15 DEF Clean
<1>17. \A j \in PageSet : n.pos[j] \in Room /\ n.bda[j] = n.pos[j]
  BY <1>9, <1>10, <1>12, <1>14, <1>15
<1>18. "page" \in asks \/ (n.page = 0 /\ n.at = n.pos[0])
  BY <1>6, <1>9, <1>10, <1>12, <1>14, <1>15
<1>19. Page(n) = Page(m) /\ n.fb = m.fb /\ n.buf = m.buf /\ n.page = m.page
       /\ n.pos = [m.pos EXCEPT ![g] = xy]
  BY <1>12, <1>14, <1>15 DEF Page
<1>20. asks' = asks /\ behind' = behind
  BY DEF int10_handler_ah02, Given
<1>21. behind' \subseteq Places /\ \A q \in Places \ behind' : n.fb[q] = Page(n)[q]
  BY <1>9, <1>19, <1>20 DEF VideoInv
<1>22. VideoInv'
  BY <1>8, <1>9, <1>15, <1>16, <1>17, <1>18, <1>20, <1>21, PartsKept
<1> QED
  BY <1>1, <1>8, <1>10, <1>19, <1>22

\* AH = 05h: the displayed page.
LEMMA PageEffect ==
  ASSUME VideoInv, int10_handler_ah05
  PROVE  /\ VideoInv'
         /\ screen'.page \in PageSet /\ screen'.buf = screen.buf /\ screen'.pos = screen.pos
         /\ screen'.fb = screen.fb
<1>1. PICK m : m = screen
  OBVIOUS
<1>2. PICK i \in 0 .. PAGES :
        screen' = [m EXCEPT !.page = Clip(i, PAGES), !.at = m.pos[Clip(i, PAGES)]]
  BY <1>1 DEF int10_handler_ah05
<1>3. PICK g : g = Clip(i, PAGES)
  OBVIOUS
<1>4. PICK n : n = screen'
  OBVIOUS
<1>5. /\ m \in Screens /\ m.pos \in [PageSet -> Spots]
      /\ \A j \in PageSet : m.pos[j] \in Room /\ m.bda[j] = m.pos[j]
      /\ "wide" \in asks \/ Clean(m)
  BY <1>1, Parts
<1>6. g \in PageSet
  <2>1. i \in Nat
    BY RoomIs
  <2> QED BY <1>3, <2>1, RoomIs, ClipIs DEF PageSet
<1>7. n = [m EXCEPT !.page = g, !.at = m.pos[g]]
  BY <1>2, <1>3, <1>4
<1>8. PICK a \in Spots : a = m.pos[g]
  BY <1>5, <1>6
<1>9. PICK l : l = [m EXCEPT !.page = g]
  OBVIOUS
<1>10. l \in Screens /\ l.page = g /\ l.pos = m.pos /\ l.bda = m.bda /\ l.buf = m.buf /\ l.fb = m.fb
       /\ l.shown = m.shown
  BY <1>5, <1>6, <1>9 DEF Screens
<1>11. n = [l EXCEPT !.at = a]
  BY <1>5, <1>7, <1>8, <1>9 DEF Screens
<1>12. /\ n \in Screens /\ n.page = l.page /\ n.pos = l.pos /\ n.bda = l.bda /\ n.buf = l.buf
       /\ n.fb = l.fb /\ n.shown = l.shown /\ n.at = a
  BY <1>10, <1>11, FieldAt
<1>13. behind' = Places /\ asks' = asks /\ "page" \in asks
  BY DEF int10_handler_ah05, Given, Guest10
<1>14. Clean(m) => Clean(n)
  BY <1>10, <1>12 DEF Clean
<1>15. \A j \in PageSet : n.pos[j] \in Room /\ n.bda[j] = n.pos[j]
  BY <1>5, <1>10, <1>12
<1>16. \A q \in Places \ behind' : n.fb[q] = Page(n)[q]
  BY <1>13
<1>17. VideoInv'
  BY <1>4, <1>5, <1>12, <1>13, <1>14, <1>15, <1>16, PartsKept
<1> QED
  BY <1>1, <1>4, <1>6, <1>10, <1>12, <1>17

Raised(B, w, k, c) ==
    LET x2 == Clip(w.right, MAX_X)
        y2 == Clip(w.bottom, MAX_Y)
    IN Filled(Moved(B, Window(w.left, w.top, x2, y2 - k), k),
              Window(w.left, TopFilled(k, w.top, y2), x2, y2), c)

Lowered(B, w, k, c) ==
    LET x2 == Clip(w.right, MAX_X)
        y2 == Clip(w.bottom, MAX_Y)
    IN Filled(Moved(B, Window(w.left, w.top + k, x2, y2), 0 - k),
              Window(w.left, w.top, x2, LastFilled(k, w.top, y2)), c)

\* AH = 06h: a window up, ...
LEMMA ScrollUpEffect ==
  ASSUME VideoInv, int10_handler_ah06
  PROVE  /\ VideoInv'
         /\ screen'.page = screen.page /\ screen'.pos = screen.pos
         /\ \E w \in Windows, k \in Nat \ {0}, a \in Attributes :
              \/ screen'.buf = screen.buf /\ screen'.fb = screen.fb
              \/ /\ w.left <= Clip(w.right, MAX_X) /\ w.top <= Clip(w.bottom, MAX_Y)
                 /\ screen'.buf = [screen.buf EXCEPT ![screen.page] =
                                      Raised(Page(screen), w, k, <<32, a>>)]
                 /\ screen'.fb = Raised(screen.fb, w, k, <<32, a>>)
<1>1. PICK m : m = screen
  OBVIOUS
<1>2. PICK n : n = screen'
  OBVIOUS
<1>3. PICK w \in Windows, lines \in 0 .. MAX_Y + 1, a \in Attributes : Scrolls(w, lines, ScrollUp, a)
  BY DEF int10_handler_ah06
<1>4. PICK x2, y2, k, c : /\ x2 = Clip(w.right, MAX_X) /\ y2 = Clip(w.bottom, MAX_Y)
                          /\ k = (IF lines = 0 THEN MAX_Y ELSE lines) /\ c = <<32, a>>
  OBVIOUS
<1>5. n = IF x2 < w.left \/ y2 < w.top THEN m ELSE ScrollUp(m, k, w.left, w.top, x2, y2, c)
  BY <1>1, <1>2, <1>3, <1>4 DEF Scrolls
<1>6. /\ w.left \in Nat /\ w.top \in Nat /\ w.right \in Nat /\ w.bottom \in Nat /\ a \in Byte
  BY VideoAssumption DEF Byte
<1>7. x2 \in 0 .. MAX_X - 1 /\ y2 \in 0 .. MAX_Y - 1
  BY <1>4, <1>6, RoomIs, ClipIs
<1>8. k \in Nat \ {0}
  BY <1>4, RoomIs
<1>9. c \in Cells
  BY <1>4, <1>6, Blanks
<1>10. m \in Screens /\ Page(m) \in Pictures /\ m.fb \in Pictures
  BY <1>1, Parts, ScreenParts
<1>11. behind' = (IF behind = {} THEN {} ELSE Places) /\ asks' = asks
  BY DEF int10_handler_ah06, Given
<1> DEFINE B == Raised(Page(m), w, k, c)
           F == Raised(m.fb, w, k, c)
<1>12. CASE x2 < w.left \/ y2 < w.top
  <2>1. n = m
    BY <1>5, <1>12
  <2>2. Became(m, n, Page(m), m.fb)
    BY <1>10, <2>1, BecameSelf
  <2>3. behind' \subseteq Places /\ \A p \in Places \ behind' : m.fb[p] = Page(m)[p]
    BY <1>1, <1>11, NothingBehind
  <2>4. VideoInv'
    BY <1>1, <1>2, <1>11, <2>2, <2>3, PaintKeeps
  <2> QED BY <1>1, <1>2, <1>8, <2>1, <2>4
<1>13. CASE ~(x2 < w.left \/ y2 < w.top)
  <2>1. w.left <= x2 /\ w.top <= y2
    BY <1>6, <1>7, <1>13, RoomIs
  <2>2. n = ScrollUp(m, k, w.left, w.top, x2, y2, c)
    BY <1>5, <1>13
  <2>3. PICK x1 \in Nat, y1 \in Nat : x1 = w.left /\ y1 = w.top
    BY <1>6
  <2>4. y1 <= y2 /\ n = ScrollUp(m, k, x1, y1, x2, y2, c)
    BY <2>1, <2>2, <2>3
  <2>5. Became(m, n, B, F)
    BY <1>4, <1>7, <1>8, <1>9, <1>10, <2>3, <2>4, ScrolledUp DEF Raised
  <2>6. behind' \subseteq Places /\ \A p \in Places \ behind' : F[p] = B[p]
    BY <1>1, <1>11, NothingBehind
  <2> HIDE DEF B, F
  <2>7. VideoInv'
    BY <1>1, <1>2, <1>11, <2>5, <2>6, PaintKeeps
  <2>8. n.page = m.page /\ n.pos = m.pos /\ n.buf = [m.buf EXCEPT ![m.page] = B] /\ n.fb = F
    BY <2>5 DEF Became, Kept
  <2> QED BY <1>1, <1>2, <1>4, <1>8, <2>1, <2>7, <2>8 DEF B, F
<1> QED
  BY <1>12, <1>13

\* ... and AH = 07h: down.
LEMMA ScrollDownEffect ==
  ASSUME VideoInv, int10_handler_ah07
  PROVE  /\ VideoInv'
         /\ screen'.page = screen.page /\ screen'.pos = screen.pos
         /\ \E w \in Windows, k \in Nat \ {0}, a \in Attributes :
              \/ screen'.buf = screen.buf /\ screen'.fb = screen.fb
              \/ /\ w.left <= Clip(w.right, MAX_X) /\ w.top <= Clip(w.bottom, MAX_Y)
                 /\ screen'.buf = [screen.buf EXCEPT ![screen.page] =
                                      Lowered(Page(screen), w, k, <<32, a>>)]
                 /\ screen'.fb = Lowered(screen.fb, w, k, <<32, a>>)
<1>1. PICK m : m = screen
  OBVIOUS
<1>2. PICK n : n = screen'
  OBVIOUS
<1>3. PICK w \in Windows, lines \in 0 .. MAX_Y + 1, a \in Attributes : Scrolls(w, lines, ScrollDown, a)
  BY DEF int10_handler_ah07
<1>4. PICK x2, y2, k, c : /\ x2 = Clip(w.right, MAX_X) /\ y2 = Clip(w.bottom, MAX_Y)
                          /\ k = (IF lines = 0 THEN MAX_Y ELSE lines) /\ c = <<32, a>>
  OBVIOUS
<1>5. n = IF x2 < w.left \/ y2 < w.top THEN m ELSE ScrollDown(m, k, w.left, w.top, x2, y2, c)
  BY <1>1, <1>2, <1>3, <1>4 DEF Scrolls
<1>6. /\ w.left \in Nat /\ w.top \in Nat /\ w.right \in Nat /\ w.bottom \in Nat /\ a \in Byte
  BY VideoAssumption DEF Byte
<1>7. x2 \in 0 .. MAX_X - 1 /\ y2 \in 0 .. MAX_Y - 1
  BY <1>4, <1>6, RoomIs, ClipIs
<1>8. k \in Nat \ {0}
  BY <1>4, RoomIs
<1>9. c \in Cells
  BY <1>4, <1>6, Blanks
<1>10. m \in Screens /\ Page(m) \in Pictures /\ m.fb \in Pictures
  BY <1>1, Parts, ScreenParts
<1>11. behind' = (IF behind = {} THEN {} ELSE Places) /\ asks' = asks
  BY DEF int10_handler_ah07, Given
<1> DEFINE B == Lowered(Page(m), w, k, c)
           F == Lowered(m.fb, w, k, c)
<1>12. CASE x2 < w.left \/ y2 < w.top
  <2>1. n = m
    BY <1>5, <1>12
  <2>2. Became(m, n, Page(m), m.fb)
    BY <1>10, <2>1, BecameSelf
  <2>3. behind' \subseteq Places /\ \A p \in Places \ behind' : m.fb[p] = Page(m)[p]
    BY <1>1, <1>11, NothingBehind
  <2>4. VideoInv'
    BY <1>1, <1>2, <1>11, <2>2, <2>3, PaintKeeps
  <2> QED BY <1>1, <1>2, <1>8, <2>1, <2>4
<1>13. CASE ~(x2 < w.left \/ y2 < w.top)
  <2>1. w.left <= x2 /\ w.top <= y2
    BY <1>6, <1>7, <1>13, RoomIs
  <2>2. n = ScrollDown(m, k, w.left, w.top, x2, y2, c)
    BY <1>5, <1>13
  <2>3. PICK x1 \in Nat, y1 \in Nat : x1 = w.left /\ y1 = w.top
    BY <1>6
  <2>4. y1 <= y2 /\ n = ScrollDown(m, k, x1, y1, x2, y2, c)
    BY <2>1, <2>2, <2>3
  <2>5. Became(m, n, B, F)
    BY <1>4, <1>7, <1>8, <1>9, <1>10, <2>3, <2>4, ScrolledDown DEF Lowered
  <2>6. behind' \subseteq Places /\ \A p \in Places \ behind' : F[p] = B[p]
    BY <1>1, <1>11, NothingBehind
  <2> HIDE DEF B, F
  <2>7. VideoInv'
    BY <1>1, <1>2, <1>11, <2>5, <2>6, PaintKeeps
  <2>8. n.page = m.page /\ n.pos = m.pos /\ n.buf = [m.buf EXCEPT ![m.page] = B] /\ n.fb = F
    BY <2>5 DEF Became, Kept
  <2> QED BY <1>1, <1>2, <1>4, <1>8, <2>1, <2>7, <2>8 DEF B, F
<1> QED
  BY <1>12, <1>13

\* The cursor of the displayed page is on the screen.
LEMMA CursorHere ==
  ASSUME VideoInv
  PROVE  \E x \in 0 .. MAX_X - 1, y \in 0 .. MAX_Y - 1 : screen.pos[screen.page] = <<x, y>>
BY Parts DEF Room

\* AH = 09h and 0Ah: cells from the cursor on.
LEMMA FillEffect ==
  ASSUME VideoInv, int10_handler_ah09
  PROVE  /\ VideoInv'
         /\ screen'.page = screen.page /\ screen'.pos = screen.pos
         /\ \E code \in Letters, a \in Attributes, k \in 0 .. MAX_X * MAX_Y, start \in Nat :
              /\ start = Place(screen.pos[screen.page][1], screen.pos[screen.page][2])
              /\ \/ screen'.buf = screen.buf /\ screen'.fb = screen.fb
                 \/ /\ screen'.buf = [screen.buf EXCEPT ![screen.page] =
                                        Filled(Page(screen), From(start, k - 1), <<code, a>>)]
                    /\ screen'.fb = Filled(screen.fb, From(start, k - 1), <<code, a>>)
<1>1. PICK m : m = screen
  OBVIOUS
<1>2. PICK n : n = screen'
  OBVIOUS
<1>3. PICK page \in PageSet, code \in Letters, a \in Attributes, k \in 0 .. MAX_X * MAX_Y :
        n = IF page # m.page THEN m ELSE WriteCells(m, code, a, k)
  BY <1>1, <1>2 DEF int10_handler_ah09
<1>4. m \in Screens /\ Page(m) \in Pictures /\ m.fb \in Pictures
  BY <1>1, Parts, ScreenParts
<1>5. behind' = (IF behind = {} THEN {} ELSE Places) /\ asks' = asks
  BY DEF int10_handler_ah09, Given
<1>6. code \in Byte /\ a \in Byte /\ k \in Nat
  <2>1. \A i, j \in Nat : i * j \in Nat
    OBVIOUS
  <2>2. MAX_X * MAX_Y \in Nat
    BY <2>1, RoomIs
  <2> QED BY <2>2, VideoAssumption DEF Byte
<1>7. PICK x \in 0 .. MAX_X - 1, y \in 0 .. MAX_Y - 1 : m.pos[m.page] = <<x, y>>
  BY <1>1, CursorHere
<1>8. PICK start \in Nat : start = Place(m.pos[m.page][1], m.pos[m.page][2])
  <2>1. Place(x, y) \in Places
    BY PlaceIs
  <2>2. Place(m.pos[m.page][1], m.pos[m.page][2]) = Place(x, y)
    BY <1>7
  <2> QED BY <2>1, <2>2, PlaceOf
<1>9. CASE page # m.page
  <2>1. n = m
    BY <1>3, <1>9
  <2>2. Became(m, n, Page(m), m.fb)
    BY <1>4, <2>1, BecameSelf
  <2>3. behind' \subseteq Places /\ \A p \in Places \ behind' : m.fb[p] = Page(m)[p]
    BY <1>1, <1>5, NothingBehind
  <2>4. VideoInv'
    BY <1>1, <1>2, <1>5, <2>2, <2>3, PaintKeeps
  <2> QED BY <1>1, <1>2, <1>8, <2>1, <2>4
<1>10. CASE page = m.page
  <2>1. n = WriteCells(m, code, a, k)
    BY <1>3, <1>10
  <2> DEFINE B == Filled(Page(m), From(start, k - 1), <<code, a>>)
             F == Filled(m.fb, From(start, k - 1), <<code, a>>)
  <2>2. Became(m, n, B, F)
    BY <1>4, <1>6, <1>8, <2>1, CellsWritten
  <2>3. behind' \subseteq Places /\ \A p \in Places \ behind' : F[p] = B[p]
    BY <1>1, <1>5, NothingBehind
  <2> HIDE DEF B, F
  <2>4. VideoInv'
    BY <1>1, <1>2, <1>5, <2>2, <2>3, PaintKeeps
  <2>5. n.page = m.page /\ n.pos = m.pos /\ n.buf = [m.buf EXCEPT ![m.page] = B] /\ n.fb = F
    BY <2>2 DEF Became, Kept
  <2> QED BY <1>1, <1>2, <1>8, <2>4, <2>5 DEF B, F
<1> QED
  BY <1>9, <1>10

\* The pen stays on the screen.
LEMMA RestInRoom ==
  ASSUME NEW x \in 0 .. MAX_X - 1, NEW y \in 0 .. MAX_Y - 1, NEW code \in Byte,
         NEW xy, xy = WrappedTo(SteppedTo(x, y, code))
  PROVE  /\ Rest(xy) \in Room
         /\ xy = CASE code = 7 -> <<x, y>>
                   [] code = 8 -> <<IF x = 0 THEN 0 ELSE x - 1, y>>
                   [] code = 10 -> <<x, y + 1>>
                   [] code = 13 -> <<0, y>>
                   [] code \notin {7, 8, 10, 13} /\ x < MAX_X - 1 -> <<x + 1, y>>
                   [] code \notin {7, 8, 10, 13} /\ x = MAX_X - 1 -> <<0, y + 1>>
<1>1. /\ MAX_X \in Nat \ {0} /\ MAX_Y \in Nat \ {0} /\ x \in Nat /\ y \in Nat /\ x < MAX_X /\ y < MAX_Y
      /\ code \in Nat
  BY RoomIs DEF Byte
<1>2. MAX_X % MAX_X = 0
  BY <1>1
<1>3. CASE code = 7
  <2>1. xy = <<x, y>>
    BY <1>1, <1>3 DEF SteppedTo, WrappedTo
  <2> QED BY <1>1, <1>3, <2>1 DEF Rest, Room
<1>4. CASE code = 8
  <2>1. xy = <<IF x = 0 THEN 0 ELSE x - 1, y>>
    BY <1>1, <1>4 DEF SteppedTo, WrappedTo
  <2> QED BY <1>1, <1>4, <2>1 DEF Rest, Room
<1>5. CASE code = 10
  <2>1. xy = <<x, y + 1>>
    BY <1>1, <1>5 DEF SteppedTo, WrappedTo
  <2> QED BY <1>1, <1>5, <2>1 DEF Rest, Room
<1>6. CASE code = 13
  <2>1. xy = <<0, y>>
    BY <1>1, <1>6 DEF SteppedTo, WrappedTo
  <2> QED BY <1>1, <1>6, <2>1 DEF Rest, Room
<1>7. CASE code \notin {7, 8, 10, 13} /\ x < MAX_X - 1
  <2>1. xy = <<x + 1, y>>
    BY <1>1, <1>7 DEF SteppedTo, WrappedTo
  <2> QED BY <1>1, <1>7, <2>1 DEF Rest, Room
<1>8. CASE code \notin {7, 8, 10, 13} /\ ~(x < MAX_X - 1)
  <2>1. x = MAX_X - 1
    BY <1>1, <1>8
  <2>2. SteppedTo(x, y, code) = <<MAX_X, y>>
    BY <1>1, <1>8, <2>1 DEF SteppedTo
  <2>3. xy = <<0, y + 1>>
    BY <1>1, <1>2, <2>2 DEF WrappedTo
  <2> QED BY <1>1, <1>8, <2>1, <2>3 DEF Rest, Room
<1> QED
  BY <1>3, <1>4, <1>5, <1>6, <1>7, <1>8

\* AH = 0Eh: a character, and the pen at rest on the screen.
LEMMA TypeEffect ==
  ASSUME VideoInv, int10_handler_ah0e
  PROVE  /\ VideoInv'
         /\ screen'.page = screen.page
         /\ \/ screen'.buf = screen.buf /\ screen'.pos = screen.pos /\ screen'.fb = screen.fb
            \/ \E code \in Codes, a \in Attributes, x \in 0 .. MAX_X - 1, y \in 0 .. MAX_Y - 1 :
              \E xy :
                 /\ screen.pos[screen.page] = <<x, y>> /\ xy = WrappedTo(SteppedTo(x, y, code))
                 /\ screen'.buf = [screen.buf EXCEPT ![screen.page] =
                                     Risen(Inked(Page(screen), Place(x, y), code, a), xy)]
                 /\ screen'.fb = Risen(Inked(screen.fb, Place(x, y), code, a), xy)
                 /\ screen'.pos = [screen.pos EXCEPT ![screen.page] = Rest(xy)]
<1>1. PICK m : m = screen
  OBVIOUS
<1>2. PICK n : n = screen'
  OBVIOUS
<1>3. PICK page \in PageSet, code \in Codes, a \in Attributes :
        n = IF page # m.page THEN m ELSE putCharWithAttr(m, code, a)
  BY <1>1, <1>2 DEF int10_handler_ah0e
<1>4. /\ m \in Screens /\ m.page \in PageSet /\ 0 \in PageSet
      /\ m.pos \in [PageSet -> Spots] /\ m.bda \in [PageSet -> Spots]
      /\ \A j \in PageSet : m.pos[j] \in Room /\ m.bda[j] = m.pos[j]
      /\ "wide" \in asks \/ Clean(m)
      /\ "page" \in asks \/ (m.page = 0 /\ m.at = m.pos[0])
  BY <1>1, Parts
<1>5. behind' = (IF behind = {} THEN {} ELSE Places) /\ asks' = asks
  BY DEF int10_handler_ah0e, Given
<1>6. code \in Byte /\ a \in Byte
  BY VideoAssumption DEF Byte
<1>7. PICK x \in 0 .. MAX_X - 1, y \in 0 .. MAX_Y - 1 : m.pos[m.page] = <<x, y>>
  BY <1>1, CursorHere
<1>8. CASE page # m.page
  <2>1. n = m
    BY <1>3, <1>8
  <2>2. Became(m, n, Page(m), m.fb)
    BY <1>4, <2>1, BecameSelf
  <2>3. behind' \subseteq Places /\ \A p \in Places \ behind' : m.fb[p] = Page(m)[p]
    BY <1>1, <1>5, NothingBehind
  <2>4. VideoInv'
    BY <1>1, <1>2, <1>5, <2>2, <2>3, PaintKeeps
  <2> QED BY <1>1, <1>2, <2>1, <2>4
<1>9. CASE page = m.page
  <2>1. n = putCharWithAttr(m, code, a)
    BY <1>3, <1>9
  <2>2. PICK xy : xy = WrappedTo(SteppedTo(x, y, code))
    OBVIOUS
  <2> DEFINE B == Risen(Inked(Page(m), Place(x, y), code, a), xy)
             F == Risen(Inked(m.fb, Place(x, y), code, a), xy)
  <2>3. /\ n \in Screens /\ n.page = m.page
        /\ n.buf = [m.buf EXCEPT ![m.page] = B] /\ n.fb = F
        /\ n.pos = [m.pos EXCEPT ![m.page] = Rest(xy)] /\ n.bda = [m.bda EXCEPT ![m.page] = Rest(xy)]
        /\ n.at \in IF m.page = 0 THEN {Rest(xy)} ELSE {m.at, m.bda[0]}
        /\ Clean(m) => Clean(n)
        /\ Page(n) = B
    BY <1>4, <1>6, <1>7, <2>1, <2>2, CharPut
  <2>4. behind' \subseteq Places /\ \A p \in Places \ behind' : F[p] = B[p]
    BY <1>1, <1>5, NothingBehind
  <2> HIDE DEF B, F
  <2>5. Rest(xy) \in Room
    BY <1>6, <2>2, RestInRoom
  <2>6. \A j \in PageSet : n.pos[j] \in Room /\ n.bda[j] = n.pos[j]
    BY <1>4, <2>3, <2>5
  <2>7. "page" \in asks \/ (n.page = 0 /\ n.at = n.pos[0])
    BY <1>4, <2>3
  <2>8. "wide" \in asks \/ Clean(n)
    BY <1>4, <2>3
  <2>10. \A p \in Places \ behind' : n.fb[p] = Page(n)[p]
    BY <2>3, <2>4
  <2>11. n \in Screens /\ behind' \subseteq Places /\ asks' = asks /\ screen' = n
    BY <1>2, <1>5, <2>3, <2>4
  <2>9. VideoInv'
    BY <2>6, <2>7, <2>8, <2>10, <2>11, PartsKept
  <2> QED BY <1>1, <1>2, <1>7, <2>2, <2>3, <2>9 DEF B, F
<1> QED
  BY <1>8, <1>9

\* The page's buffer by itself.
LEMMA BufferSet ==
  ASSUME NEW m \in Screens, NEW B \in Pictures, NEW n, n = [m EXCEPT !.buf[m.page] = B]
  PROVE  Became(m, n, B, m.fb)
<1>1. PICK g \in PageSet : g = m.page
  BY ScreenParts
<1>2. n = [m EXCEPT !.buf[g] = B]
  BY <1>1
<1>3. /\ n \in Screens /\ n.page = m.page /\ n.pos = m.pos /\ n.bda = m.bda
      /\ n.buf = [m.buf EXCEPT ![g] = B] /\ n.fb = m.fb /\ n.shown = m.shown /\ n.at = m.at
  BY <1>2 DEF Screens
<1>4. Kept(m, n)
  BY <1>3 DEF Kept, Clean
<1> QED
  BY <1>1, <1>3, <1>4, ScreenParts DEF Became

\* AH = FEh: the buffer is erased.
LEMMA TakeEffect ==
  ASSUME VideoInv, int10_handler_ahfe
  PROVE  /\ VideoInv'
         /\ screen'.page = screen.page /\ screen'.pos = screen.pos /\ screen'.fb = screen.fb
         /\ screen'.buf = [screen.buf EXCEPT ![screen.page] = [p \in Places |-> <<32, 0>>]]
<1>1. PICK m : m = screen
  OBVIOUS
<1>2. PICK n : n = screen'
  OBVIOUS
<1>3. PICK B : B = [p \in Places |-> <<32, 0>>]
  OBVIOUS
<1>4. B \in Pictures
  BY <1>3, Blanks DEF Pictures, Byte
<1>5. n = [m EXCEPT !.buf[m.page] = B] /\ m \in Screens
  BY <1>1, <1>2, <1>3, Parts DEF int10_handler_ahfe
<1>6. Became(m, n, B, m.fb)
  BY <1>4, <1>5, BufferSet
<1>7. behind' = Places /\ asks' = asks
  BY DEF int10_handler_ahfe, Given
<1>8. behind' \subseteq Places /\ \A p \in Places \ behind' : m.fb[p] = B[p]
  BY <1>7
<1>9. VideoInv'
  BY <1>1, <1>2, <1>6, <1>7, <1>8, PaintKeeps
<1>10. n.page = m.page /\ n.pos = m.pos /\ n.buf = [m.buf EXCEPT ![m.page] = B] /\ n.fb = m.fb
  BY <1>6 DEF Became, Kept
<1> QED
  BY <1>1, <1>2, <1>3, <1>9, <1>10

\* The guest draws a cell in the buffer.
LEMMA DrawEffect ==
  ASSUME VideoInv, DrawInBuffer
  PROVE  /\ VideoInv'
         /\ screen'.page = screen.page /\ screen'.pos = screen.pos /\ screen'.fb = screen.fb
         /\ \E p \in Places, code \in Letters, a \in Attributes :
              screen'.buf = [screen.buf EXCEPT ![screen.page] = Written(Page(screen), p, <<code, a>>)]
<1>1. PICK m : m = screen
  OBVIOUS
<1>2. PICK n : n = screen'
  OBVIOUS
<1>3. PICK p \in Places, code \in Letters, a \in Attributes :
        /\ n = [m EXCEPT !.buf[m.page][p] = <<code, a>>]
        /\ behind' = behind \cup {p}
  BY <1>1, <1>2 DEF DrawInBuffer
<1>4. PICK c : c = <<code, a>>
  OBVIOUS
<1>5. c \in Cells
  BY <1>4, VideoAssumption DEF Cells, Byte
<1>6. m \in Screens /\ Page(m) \in Pictures
  BY <1>1, Parts, ScreenParts
<1>7. PICK B : B = Written(Page(m), p, c)
  OBVIOUS
<1>8. B \in Pictures /\ \A q \in Places : B[q] = IF q = p THEN c ELSE Page(m)[q]
  BY <1>5, <1>6, <1>7, WrittenType
<1>9. n = [m EXCEPT !.buf[m.page] = B]
  BY <1>3, <1>4, <1>7 DEF Written, Page
<1>10. Became(m, n, B, m.fb)
  BY <1>6, <1>8, <1>9, BufferSet
<1>11. asks' = asks
  BY DEF DrawInBuffer, Given
<1>12. behind' \subseteq Places
  BY <1>3 DEF VideoInv
<1>13. \A q \in Places \ behind' : m.fb[q] = B[q]
  BY <1>1, <1>3, <1>8, Parts
<1>14. VideoInv'
  BY <1>1, <1>2, <1>10, <1>11, <1>12, <1>13, PaintKeeps
<1>15. n.page = m.page /\ n.pos = m.pos /\ n.buf = [m.buf EXCEPT ![m.page] = B] /\ n.fb = m.fb
  BY <1>10 DEF Became, Kept
<1> QED
  BY <1>1, <1>2, <1>4, <1>7, <1>14, <1>15

\* AH = FFh: cells of the buffer are shown.
LEMMA CopyEffect ==
  ASSUME VideoInv, int10_handler_ahff
  PROVE  /\ VideoInv'
         /\ screen'.page = screen.page /\ screen'.pos = screen.pos /\ screen'.buf = screen.buf
         /\ \E p \in Places, k \in 0 .. MAX_X * MAX_Y :
              screen'.fb = Copied(screen.fb, p .. p + k - 1, Page(screen))
<1>1. PICK m : m = screen
  OBVIOUS
<1>2. PICK n : n = screen'
  OBVIOUS
<1>3. PICK p \in Places : \E k \in 0 .. (MAX_X * MAX_Y) - p :
        n = CopyBuffer(m, p, k) /\ behind' = behind \ (p .. p + k - 1)
  BY <1>1, <1>2 DEF int10_handler_ahff
<1>4. PICK k \in 0 .. (MAX_X * MAX_Y) - p :
        n = CopyBuffer(m, p, k) /\ behind' = behind \ (p .. p + k - 1)
  BY <1>3
<1>5. m \in Screens /\ Page(m) \in Pictures /\ m.fb \in Pictures /\ p \in Nat
  BY <1>1, Parts, ScreenParts, PlaceOf
<1>6. PICK size : size = MAX_X * MAX_Y
  OBVIOUS
<1>7. size \in Nat /\ Places = 0 .. size - 1 /\ k \in 0 .. size - p
  <2>1. \A i, j \in Nat : i * j \in Nat
    OBVIOUS
  <2> QED BY <1>4, <1>6, <2>1, RoomIs DEF Places
<1>8. PICK p2 : p2 = p + k - 1
  OBVIOUS
<1>9. p2 \in Int /\ p .. p2 \subseteq Places
  BY <1>5, <1>7, <1>8
<1> DEFINE F == Copied(m.fb, p .. p2, Page(m))
<1>10. Became(m, n, Page(m), F)
  BY <1>4, <1>5, <1>8, <1>9, BufferCopied
<1>11. asks' = asks
  BY DEF int10_handler_ahff, Given
<1>12. behind' \subseteq Places
  BY <1>4 DEF VideoInv
<1>13. ASSUME NEW q \in Places, q \notin behind' PROVE F[q] = Page(m)[q]
  <2>1. F[q] = IF q \in p .. p2 THEN Page(m)[q] ELSE m.fb[q]
    <3>1. PICK W : W = p .. p2
      OBVIOUS
    <3>2. Copied(m.fb, W, Page(m))[q] = IF q \in W THEN Page(m)[q] ELSE m.fb[q]
      BY <1>5, CopiedType
    <3> QED BY <3>1, <3>2
  <2>2. q \in behind => q \in p .. p2
    BY <1>4, <1>8, <1>13
  <2>3. q \notin behind => m.fb[q] = Page(m)[q]
    BY <1>1, Parts
  <2> QED BY <2>1, <2>2, <2>3
<1> HIDE DEF F
<1>14. \A q \in Places \ behind' : F[q] = Page(m)[q]
  BY <1>13
<1>15. VideoInv'
  BY <1>1, <1>2, <1>10, <1>11, <1>12, <1>14, PaintKeeps
<1>16. n.page = m.page /\ n.pos = m.pos /\ n.buf = m.buf /\ n.fb = F
  BY <1>5, <1>10, ScreenParts DEF Became, Kept, Page
<1>17. k \in 0 .. MAX_X * MAX_Y
  <2>1. k \in 0 .. size
    BY <1>5, <1>7
  <2> QED BY <1>6, <2>1
<1> QED
  BY <1>1, <1>2, <1>8, <1>15, <1>16, <1>17 DEF F

\* A store of the guest's leaves the BIOS's own state alone.
LEMMA StoreKeeps ==
  ASSUME VideoInv, asks' = asks, behind' = Places, NEW n, screen' = n, n \in Screens,
         n.page = screen.page, n.pos = screen.pos, n.bda = screen.bda, n.buf = screen.buf,
         n.at \in {screen.at, screen.bda[0]},
         "wide" \in asks \/ (Clean(screen) => Clean(n))
  PROVE  VideoInv'
<1>1. PICK m : m = screen
  OBVIOUS
<1>2. /\ m \in Screens /\ 0 \in PageSet
      /\ \A g \in PageSet : m.pos[g] \in Room /\ m.bda[g] = m.pos[g]
      /\ "wide" \in asks \/ Clean(m)
      /\ "page" \in asks \/ (m.page = 0 /\ m.at = m.pos[0])
  BY <1>1, Parts
<1>3. \A g \in PageSet : n.pos[g] \in Room /\ n.bda[g] = n.pos[g]
  BY <1>1, <1>2
<1>4. "page" \in asks \/ (n.page = 0 /\ n.at = n.pos[0])
  BY <1>1, <1>2
<1>5. "wide" \in asks \/ Clean(n)
  BY <1>1, <1>2
<1>6. behind' \subseteq Places /\ \A p \in Places \ behind' : n.fb[p] = Page(n)[p]
  OBVIOUS
<1> QED
  BY <1>3, <1>4, <1>5, <1>6, PartsKept

\* A store is into the cell at its address and the next.
LEMMA StoreFar ==
  ASSUME NEW m \in Screens, NEW s \in Nat, NEW p \in Places, p = s \div 2, NEW b \in Seq(Byte),
         Len(b) <= 4 - ((s % 2) * 2), NEW n, n = writeDataMem(m, s, b)
  PROVE  \A q \in Places \ {p, p + 1} : n.fb[q] = m.fb[q]
<1>1. PICK l : l = PutBytes(m, s, b)
  OBVIOUS
<1>2. HasPut(m, l, s, b)
  BY <1>1, PutType
<1>3. n.fb = Put(m.fb, s, b)
  BY <1>1, <1>2, StoreEffect DEF HasPut
<1>4. ASSUME NEW q \in Places, q \notin {p, p + 1}
      PROVE  n.fb[q] = m.fb[q]
  <2>1. q \in Nat /\ p \in Nat
    BY PlaceOf
  <2>2. \A i \in 1 .. 2 : (2 * q) + i - s \notin DOMAIN b
    <3>1. DOMAIN b = 1 .. Len(b) /\ Len(b) \in Nat
      OBVIOUS
    <3>2. \A i \in 1 .. 2 : (2 * q) + i - s \notin 1 .. Len(b)
      <4>1. PICK h \in 0 .. 1 : h = s % 2 /\ s = (2 * p) + h
        BY <2>1
      <4>2. Len(b) <= 4 - (h * 2)
        BY <4>1
      <4> QED BY <1>4, <2>1, <3>1, <4>1, <4>2
    <3> QED BY <3>1, <3>2
  <2>3. n.fb[q] = [i \in 1 .. 2 |-> m.fb[q][i]]
    <3>1. n.fb[q] = [i \in 1 .. 2 |-> IF (2 * q) + i - s \in DOMAIN b THEN b[(2 * q) + i - s] ELSE m.fb[q][i]]
      BY <1>3 DEF Put
    <3> QED BY <2>2, <3>1
  <2>4. m.fb[q] \in Cells
    BY ScreenParts
  <2>5. m.fb[q] = [i \in 1 .. 2 |-> m.fb[q][i]]
    BY <2>4, CellBytes
  <2> QED BY <2>3, <2>5
<1> QED
  BY <1>4

\* A store of the guest's own, into the display alone.
LEMMA GuestStoreEffect ==
  ASSUME VideoInv, StoreToDisplay
  PROVE  /\ VideoInv'
         /\ screen'.page = screen.page /\ screen'.pos = screen.pos /\ screen'.buf = screen.buf
         /\ \E p \in Places : \A q \in Places \ {p, p + 1} : screen'.fb[q] = screen.fb[q]
<1>1. PICK m : m = screen
  OBVIOUS
<1>2. PICK n : n = screen'
  OBVIOUS
<1>3. PICK p \in StorePlaces, i \in 0 .. 1, c \in Letters, d \in Letters, a \in Attributes :
        \/ n = writeDataMem(m, (2 * p) + i, <<IF i = 0 THEN c ELSE a>>)
        \/ i = 0 /\ n = writeDataMem(m, 2 * p, <<c, a>>)
        \/ i = 0 /\ "wide" \in asks /\ n = writeDataMem(m, 2 * p, <<c, a, d, a>>)
        \/ i = 1 /\ "wide" \in asks /\ n = writeDataMem(m, (2 * p) + 1, <<a, c>>)
  BY <1>1, <1>2 DEF StoreToDisplay
<1>4. m \in Screens
  BY <1>1, Parts
<1>5. p \in Places /\ c \in Byte /\ d \in Byte /\ a \in Byte
  BY VideoAssumption DEF Byte
<1>6. p \in Nat
  BY <1>5, PlaceOf
<1>7. asks' = asks /\ behind' = Places
  BY DEF StoreToDisplay, Given
<1> DEFINE Fine == /\ n \in Screens /\ n.page = m.page /\ n.pos = m.pos /\ n.bda = m.bda
                   /\ n.buf = m.buf /\ n.at \in {m.at, m.bda[0]}
                   /\ "wide" \in asks \/ (Clean(m) => Clean(n))
                   /\ \A q \in Places \ {p, p + 1} : n.fb[q] = m.fb[q]
<1>8. ASSUME n = writeDataMem(m, (2 * p) + i, <<IF i = 0 THEN c ELSE a>>) PROVE Fine
  <2>1. PICK b \in Byte : b = IF i = 0 THEN c ELSE a
    BY <1>5
  <2>2. n = writeDataMem(m, (2 * p) + i, <<b>>)
    BY <1>8, <2>1
  <2>3. HasHalf(m, n, p, i, b)
    BY <1>4, <1>5, <2>2, HalfStored
  <2>5. \A q \in Places \ {p, p + 1} : n.fb[q] = m.fb[q]
    BY <1>4, <2>3, ScreenParts DEF HasHalf
  <2>4. Fine
    BY <2>3, <2>5 DEF HasHalf, Kept
  <2> QED BY <2>4
<1>9. ASSUME n = writeDataMem(m, 2 * p, <<c, a>>) PROVE Fine
  <2>1. PICK b : b = <<c, a>>
    OBVIOUS
  <2>2. b \in Cells
    BY <1>5, <2>1 DEF Cells
  <2>5. n = writeDataMem(m, 2 * p, b)
    BY <1>9, <2>1
  <2>3. Kept(m, n) /\ n.buf = m.buf /\ n.fb = Written(m.fb, p, b)
    BY <1>4, <1>5, <2>2, <2>5, CellStored
  <2>6. \A q \in Places \ {p, p + 1} : n.fb[q] = m.fb[q]
    BY <1>4, <2>3, ScreenParts DEF Written
  <2>4. Fine
    BY <2>3, <2>6 DEF Kept
  <2> QED BY <2>4
<1>10. ASSUME NEW s \in Nat, NEW b \in Seq(Byte), p = s \div 2, Len(b) <= 4 - ((s % 2) * 2), "wide" \in asks,
              n = writeDataMem(m, s, b)
       PROVE  Fine
  <2>1. /\ n \in Screens /\ n.page = m.page /\ n.pos = m.pos /\ n.bda = m.bda
        /\ n.at \in {m.at, m.bda[0]} /\ n.buf = m.buf
    BY <1>4, <1>5, <1>10, StoreEffect
  <2>2. \A q \in Places \ {p, p + 1} : n.fb[q] = m.fb[q]
    BY <1>4, <1>5, <1>10, StoreFar
  <2> QED BY <1>10, <2>1, <2>2
<1>11. ASSUME "wide" \in asks, n = writeDataMem(m, 2 * p, <<c, a, d, a>>) PROVE Fine
  <2>1. PICK s \in Nat : s = 2 * p
    BY <1>6
  <2>2. p = s \div 2
    BY <1>6, <2>1
  <2>3. <<c, a, d, a>> \in Seq(Byte)
    BY <1>5
  <2>4. PICK b \in Seq(Byte) : b = <<c, a, d, a>>
    BY <2>3
  <2>5. n = writeDataMem(m, s, b) /\ Len(b) <= 4 - ((s % 2) * 2)
    BY <1>6, <1>11, <2>1, <2>4
  <2> HIDE DEF Fine
  <2> QED BY <1>10, <1>11, <2>2, <2>5
<1>12. ASSUME "wide" \in asks, n = writeDataMem(m, (2 * p) + 1, <<a, c>>) PROVE Fine
  <2>1. PICK s \in Nat : s = (2 * p) + 1
    BY <1>6
  <2>2. p = s \div 2
    BY <1>6, <2>1
  <2>3. <<a, c>> \in Seq(Byte)
    BY <1>5
  <2>4. PICK b \in Seq(Byte) : b = <<a, c>>
    BY <2>3
  <2>5. n = writeDataMem(m, s, b) /\ Len(b) <= 4 - ((s % 2) * 2)
    BY <1>6, <1>12, <2>1, <2>4
  <2> HIDE DEF Fine
  <2> QED BY <1>10, <1>12, <2>2, <2>5
<1>13. Fine
  <2> HIDE DEF Fine
  <2> QED BY <1>3, <1>8, <1>9, <1>11, <1>12
<1>14. VideoInv'
  BY <1>1, <1>2, <1>7, <1>13, StoreKeeps
<1>15. \A q \in Places \ {p, p + 1} : n.fb[q] = m.fb[q]
  BY <1>13
<1>16. n.page = m.page /\ n.pos = m.pos /\ n.buf = m.buf
  BY <1>13
<1> HIDE DEF Fine
<1> QED
  BY <1>1, <1>2, <1>5, <1>14, <1>15, <1>16

\* Every call and every store keeps the terminal in step.
LEMMA VideoStepInv ==
  ASSUME VideoInv, [VideoNext]_video
  PROVE  VideoInv'
<1>1. CASE UNCHANGED video
  BY <1>1 DEF video, VideoInv, TerminalInStep, CursorInStep, Screens
<1>2. CASE int10_handler_ah08
  <2>1. UNCHANGED <<asks, screen, behind>>
    BY <1>2 DEF int10_handler_ah08
  <2> QED BY <2>1 DEF VideoInv, TerminalInStep, CursorInStep, Screens
<1> QED
  BY <1>1, <1>2, ModeEffect, PlaceEffect, PageEffect, ScrollUpEffect, ScrollDownEffect, FillEffect,
     TypeEffect, TakeEffect, DrawEffect, CopyEffect, GuestStoreEffect DEF VideoNext

\* A step of the BIOS is one of the video functions, or leaves the screen.
LEMMA VideoStep == ASSUME [BiosNext]_allVars PROVE [VideoNext]_video
BY DEF BiosNext, allVars, Video10

\* VideoInv holds throughout.
LEMMA VideoInvariant == BiosSpec => []VideoInv
<1>1. BiosInit => VideoInv
  BY VideoInitInv DEF BiosInit
<1>2. VideoInv /\ [BiosNext]_allVars => VideoInv'
  BY VideoStep, VideoStepInv
<1> QED
  BY <1>1, <1>2, PTL DEF BiosSpec

\* What the user sees is what the guest has written, for displays and windows of
\* every size, and after any sequence of calls and stores.
THEOREM TerminalInStepHolds == BiosSpec => []TerminalInStep
<1>1. VideoInv => TerminalInStep
  BY DEF VideoInv
<1> QED
  BY <1>1, VideoInvariant, PTL

-----------------------------------------------------------------------------
(***************************************************************************)
(* The display that INT 10h promises.                                      *)
(***************************************************************************)
\* A page by columns and rows, and all of them.
Sheet(B) == [xy \in Grid |-> B[Place(xy[1], xy[2])]]
Sheets(buf) == [g \in PageSet |-> [xy \in Grid |-> buf[g][Place(xy[1], xy[2])]]]

\* Grid and places are the same, by columns and rows.
LEMMA GridIs ==
  /\ Grid = Room /\ Promised!Grid = Grid
  /\ \A xy \in Grid : /\ Place(xy[1], xy[2]) \in Places /\ Column(Place(xy[1], xy[2])) = xy[1]
                      /\ RowOf(Place(xy[1], xy[2])) = xy[2]
                      /\ xy[1] \in 0 .. MAX_X - 1 /\ xy[2] \in 0 .. MAX_Y - 1 /\ xy = <<xy[1], xy[2]>>
<1>1. ASSUME NEW xy \in Grid
      PROVE  /\ Place(xy[1], xy[2]) \in Places /\ Column(Place(xy[1], xy[2])) = xy[1]
             /\ RowOf(Place(xy[1], xy[2])) = xy[2]
             /\ xy[1] \in 0 .. MAX_X - 1 /\ xy[2] \in 0 .. MAX_Y - 1 /\ xy = <<xy[1], xy[2]>>
  <2>1. xy[1] \in 0 .. MAX_X - 1 /\ xy[2] \in 0 .. MAX_Y - 1 /\ xy = <<xy[1], xy[2]>>
    BY DEF Grid
  <2> QED BY <2>1, PlaceIs
<1>2. Grid = Room /\ Promised!Grid = Grid
  BY DEF Grid, Room, Promised!Grid
<1> QED
  BY <1>1, <1>2

\* A sheet has the cells of its page.
LEMMA SheetIs ==
  ASSUME NEW B
  PROVE  /\ DOMAIN Sheet(B) = Grid /\ Sheet(B) = [xy \in Grid |-> Sheet(B)[xy]]
         /\ \A xy \in Grid : Sheet(B)[xy] = B[Place(xy[1], xy[2])]
BY DEF Sheet

\* A page that becomes another is a sheet that does.
LEMMA SheetsIs ==
  ASSUME NEW m \in Screens, NEW B, NEW buf, buf = [m.buf EXCEPT ![m.page] = B]
  PROVE  /\ Sheets(buf) = [Sheets(m.buf) EXCEPT ![m.page] = Sheet(B)]
         /\ Sheets(m.buf)[m.page] = Sheet(Page(m))
<1>1. m.page \in PageSet /\ m.buf \in [PageSet -> Pictures]
  BY ScreenParts
<1>2. ASSUME NEW g \in PageSet
      PROVE  Sheets(buf)[g] = IF g = m.page THEN Sheet(B) ELSE Sheets(m.buf)[g]
  <2>1. buf[g] = IF g = m.page THEN B ELSE m.buf[g]
    BY <1>1
  <2>2. Sheets(buf)[g] = Sheet(buf[g]) /\ Sheets(m.buf)[g] = Sheet(m.buf[g])
    BY DEF Sheets, Sheet
  <2> QED BY <2>1, <2>2
<1>3. /\ Sheets(buf) = [g \in PageSet |-> Sheets(buf)[g]]
      /\ Sheets(m.buf) = [g \in PageSet |-> Sheets(m.buf)[g]]
  BY DEF Sheets
<1>4. Sheets(buf) = [Sheets(m.buf) EXCEPT ![m.page] = Sheet(B)]
  BY <1>2, <1>3
<1>5. Sheets(m.buf)[m.page] = Sheet(Page(m))
  BY <1>1 DEF Sheets, Sheet, Page
<1> QED
  BY <1>4, <1>5

\* Becomes of the abstract display, of two screens.
Inscribed(S, xy, c) == [S EXCEPT ![xy] = c]
Turned(m, n, S, T, xy) ==
    /\ Sheets(n.buf) = [Sheets(m.buf) EXCEPT ![m.page] = S] /\ Sheet(n.fb) = T
    /\ n.pos = [m.pos EXCEPT ![m.page] = xy] /\ n.page = m.page

\* A page and the memory written and the cursor moved are Becomes of the display.
LEMMA BecomesIs ==
  ASSUME VideoInv, NEW B, NEW xy, screen'.page = screen.page,
         screen'.buf = [screen.buf EXCEPT ![screen.page] = B],
         screen'.pos = [screen.pos EXCEPT ![screen.page] = xy], looked' = looked,
         NEW c, c = Sheet(B), NEW d, d = Sheet(screen'.fb)
  PROVE  Promised!Becomes(c, d, xy) /\ Turned(screen, screen', c, d, xy)
<1>1. screen \in Screens
  BY Parts
<1>2. Sheets(screen'.buf) = [Sheets(screen.buf) EXCEPT ![screen.page] = Sheet(B)]
  BY <1>1, SheetsIs
<1> QED
  BY <1>2 DEF Promised!Becomes, Turned, Sheets, Sheet

\* The cursor has not moved.
LEMMA BecomesHere ==
  ASSUME VideoInv, NEW B, screen'.page = screen.page,
         screen'.buf = [screen.buf EXCEPT ![screen.page] = B],
         screen'.pos = screen.pos, looked' = looked, NEW c, c = Sheet(B), NEW d, d = Sheet(screen'.fb)
  PROVE  /\ Promised!Becomes(c, d, screen.pos[screen.page])
         /\ Turned(screen, screen', c, d, screen.pos[screen.page])
<1>1. screen.pos \in [PageSet -> Spots] /\ screen.page \in PageSet
  BY Parts
<1>2. screen'.pos = [screen.pos EXCEPT ![screen.page] = screen.pos[screen.page]]
  BY <1>1
<1> QED
  BY <1>2, BecomesIs

\* Nothing of what the display promises has changed.
LEMMA NothingBecomes ==
  ASSUME screen'.page = screen.page, screen'.buf = screen.buf, screen'.pos = screen.pos,
         screen'.fb = screen.fb, looked' = looked
  PROVE  UNCHANGED Promised!vars
BY DEF Promised!vars

\* The functions one by one: setting the mode clears the page, ...
LEMMA ClearMaps ==
  ASSUME VideoInv, int10_handler_ah00
  PROVE  Promised!Clear
<1>1. PICK B : B = [p \in Places |-> <<32, 7>>]
  OBVIOUS
<1>2. looked' = looked
  BY DEF int10_handler_ah00, Given
<1>3. \A xy \in Grid : Sheet(B)[xy] = <<32, 7>>
  BY <1>1, SheetIs, GridIs
<1>4. Promised!Filled(Promised!Blank) = Sheet(B)
  BY <1>3, SheetIs, GridIs DEF Promised!Filled, Promised!Blank, Promised!Space
<1>6. PICK c : c = Promised!Filled(Promised!Blank)
  OBVIOUS
<1>7. c = Sheet(B) /\ c = Sheet(screen'.fb)
  BY <1>1, <1>4, <1>6, ModeEffect
<1>5. Promised!Becomes(c, c, <<0, 0>>)
  BY <1>1, <1>2, <1>7, ModeEffect, BecomesIs
<1> QED
  BY <1>5, <1>6 DEF Promised!Clear

\* ... a cursor is placed, ...
LEMMA PlaceMaps ==
  ASSUME VideoInv, int10_handler_ah02
  PROVE  Promised!PlaceCursor
<1>1. looked' = looked
  BY DEF int10_handler_ah02, Given
<1>2. PICK g \in PageSet, xy \in Room : screen'.pos = [screen.pos EXCEPT ![g] = xy]
  BY PlaceEffect
<1>3. screen'.page = screen.page /\ screen'.buf = screen.buf /\ screen'.fb = screen.fb
  BY PlaceEffect
<1>4. xy \in Promised!Grid
  BY GridIs
<1> QED
  BY <1>1, <1>2, <1>3, <1>4 DEF Promised!PlaceCursor

\* ... a page is displayed, ...
LEMMA SelectMaps ==
  ASSUME VideoInv, int10_handler_ah05
  PROVE  Promised!Select
<1>1. looked' = looked
  BY DEF int10_handler_ah05, Given
<1> QED
  BY <1>1, PageEffect DEF Promised!Select

\* ... the buffer is erased, ...
LEMMA TakeMaps ==
  ASSUME VideoInv, int10_handler_ahfe
  PROVE  Promised!TakeBuffer
<1>1. PICK B : B = [p \in Places |-> <<32, 0>>]
  OBVIOUS
<1>2. looked' = looked
  BY DEF int10_handler_ahfe, Given
<1>3. \A xy \in Grid : Sheet(B)[xy] = <<32, 0>>
  BY <1>1, SheetIs, GridIs
<1>4. PICK c, d : c = Promised!Filled(Promised!Space(0)) /\ d = Sheet(screen.fb)
  OBVIOUS
<1>6. c = Sheet(B)
  BY <1>3, <1>4, SheetIs, GridIs DEF Promised!Filled, Promised!Space
<1>7. d = Sheet(screen'.fb)
  BY <1>4, TakeEffect
<1>5. Turned(screen, screen', c, d, screen.pos[screen.page])
  BY <1>1, <1>2, <1>6, <1>7, TakeEffect, BecomesHere
<1>8. Turned(screen, screen', Promised!Filled(Promised!Space(0)), Sheet(screen.fb), screen.pos[screen.page])
  BY <1>4, <1>5
<1> QED
  BY <1>2, <1>8, Zenon DEF Promised!TakeBuffer, Promised!Becomes, Turned, Sheets, Sheet

\* A cell written is a cell of the sheet.
LEMMA SheetWritten ==
  ASSUME NEW B \in Pictures, NEW x \in 0 .. MAX_X - 1, NEW y \in 0 .. MAX_Y - 1, NEW c, c \in Cells
  PROVE  Sheet(Written(B, Place(x, y), c)) = [Sheet(B) EXCEPT ![<<x, y>>] = c]
<1> DEFINE p == Place(x, y)
           L == Written(B, p, c)
<1>1. p \in Places /\ Column(p) = x /\ RowOf(p) = y
  BY PlaceIs
<1>2. \A q \in Places : L[q] = IF q = p THEN c ELSE B[q]
  BY <1>1, WrittenType
<1>3. ASSUME NEW xy \in Grid PROVE Sheet(L)[xy] = IF xy = <<x, y>> THEN c ELSE Sheet(B)[xy]
  <2> DEFINE q == Place(xy[1], xy[2])
  <2>1. q \in Places /\ Column(q) = xy[1] /\ RowOf(q) = xy[2] /\ xy = <<xy[1], xy[2]>>
    BY GridIs
  <2>2. q = p <=> xy = <<x, y>>
    BY <1>1, <2>1
  <2>3. Sheet(L)[xy] = L[q] /\ Sheet(B)[xy] = B[q]
    BY SheetIs
  <2> HIDE DEF L, q
  <2> QED BY <1>2, <2>1, <2>2, <2>3
<1> HIDE DEF L
<1>4. Sheet(L) = [Sheet(B) EXCEPT ![<<x, y>>] = c]
  BY <1>3, SheetIs
<1> QED
  BY <1>4 DEF L

\* The guest's cell is a cell of the sheet.
LEMMA DrawMaps ==
  ASSUME VideoInv, DrawInBuffer
  PROVE  Promised!Draw
<1>1. looked' = looked
  BY DEF DrawInBuffer, Given
<1>2. PICK p \in Places, code \in Letters, a \in Attributes :
        screen'.buf = [screen.buf EXCEPT ![screen.page] = Written(Page(screen), p, <<code, a>>)]
  BY DrawEffect
<1>3. screen'.page = screen.page /\ screen'.pos = screen.pos /\ screen'.fb = screen.fb
  BY DrawEffect
<1>4. PICK x \in 0 .. MAX_X - 1, y \in 0 .. MAX_Y - 1 : p = Place(x, y)
  BY PlaceOf
<1>5. screen \in Screens /\ Page(screen) \in Pictures /\ <<code, a>> \in Cells
  BY Parts, ScreenParts, VideoAssumption DEF Cells, Byte
<1>6. Sheet(Written(Page(screen), p, <<code, a>>)) = [Sheet(Page(screen)) EXCEPT ![<<x, y>>] = <<code, a>>]
  BY <1>4, <1>5, SheetWritten
<1>7. Sheets(screen.buf)[screen.page] = Sheet(Page(screen))
  BY <1>2, <1>5, SheetsIs
<1>8. PICK B, C : /\ B = Written(Page(screen), p, <<code, a>>)
                  /\ C = Inscribed(Sheets(screen.buf)[screen.page], <<x, y>>, <<code, a>>)
  OBVIOUS
<1>9. C = Sheet(B)
  BY <1>6, <1>7, <1>8 DEF Inscribed
<1>10. screen'.buf = [screen.buf EXCEPT ![screen.page] = B]
  BY <1>2, <1>8
<1>15. Sheet(screen.fb) = Sheet(screen'.fb)
  BY <1>3
<1>11. Turned(screen, screen', C, Sheet(screen.fb), screen.pos[screen.page])
  BY <1>1, <1>3, <1>9, <1>10, <1>15, BecomesHere
<1>12. <<x, y>> \in Promised!Grid /\ code \in Codes \cup Letters /\ a \in Attributes
  BY GridIs DEF Grid
<1>13. \E xy \in Promised!Grid, char \in Codes \cup Letters, attribute \in Attributes :
         Turned(screen, screen', Inscribed(Sheets(screen.buf)[screen.page], xy, <<char, attribute>>),
                Sheet(screen.fb), screen.pos[screen.page])
  BY <1>8, <1>11, <1>12
<1>14. \E xy \in Promised!Grid, char \in Codes \cup Letters, attribute \in Attributes :
         /\ Sheets(screen'.buf) = [Sheets(screen.buf) EXCEPT ![screen.page] =
               [Sheets(screen.buf)[screen.page] EXCEPT ![xy] = <<char, attribute>>]]
         /\ Sheet(screen'.fb) = Sheet(screen.fb)
         /\ screen'.pos = [screen.pos EXCEPT ![screen.page] = screen.pos[screen.page]]
         /\ UNCHANGED <<screen.page, looked>>
  BY <1>1, <1>13 DEF Turned, Inscribed
<1> QED
  BY <1>14, Zenon DEF Promised!Draw, Promised!Becomes, Sheets, Sheet

\* AH = 08h reads the display's memory at the cursor of a page.
LEMMA ReadMaps ==
  ASSUME VideoInv, int10_handler_ah08
  PROVE  Promised!Read
<1>6. PICK i \in 0 .. PAGES : LET xy == screen.pos[IF i >= PAGES THEN 0 ELSE i]
                              IN looked' = screen.fb[Place(xy[1], xy[2])]
  BY DEF int10_handler_ah08
<1>1. PICK g : /\ g = IF i >= PAGES THEN 0 ELSE i
               /\ looked' = screen.fb[Place(screen.pos[g][1], screen.pos[g][2])]
  BY <1>6
<1>2. screen' = screen
  BY DEF int10_handler_ah08
<1>3. g \in PageSet
  BY <1>1, RoomIs DEF PageSet
<1>4. screen.pos[g] \in Grid
  BY <1>3, Parts, GridIs
<1>5. looked' = Sheet(screen.fb)[screen.pos[g]]
  BY <1>1, <1>4, SheetIs
<1> QED
  BY <1>2, <1>3, <1>5 DEF Promised!Read, Sheet

\* Cells of the buffer are shown.
LEMMA ShowMaps ==
  ASSUME VideoInv, int10_handler_ahff
  PROVE  Promised!Show
<1>1. looked' = looked /\ screen'.page = screen.page /\ screen'.pos = screen.pos /\ screen'.buf = screen.buf
  BY CopyEffect DEF int10_handler_ahff, Given
<1>2. PICK p \in Places, k \in 0 .. MAX_X * MAX_Y :
        screen'.fb = Copied(screen.fb, p .. p + k - 1, Page(screen))
  BY CopyEffect
<1>3. screen.page \in PageSet /\ screen.fb \in Pictures /\ Page(screen) \in Pictures
  BY Parts, ScreenParts
<1>4. PICK W : W = p .. p + k - 1
  OBVIOUS
<1>10. screen'.fb = Copied(screen.fb, W, Page(screen))
  BY <1>2, <1>4
<1>5. ASSUME NEW xy \in Grid
      PROVE  Sheet(screen'.fb)[xy] = IF Promised!Rank(xy) \in W THEN Sheets(screen.buf)[screen.page][xy]
                                                              ELSE Sheet(screen.fb)[xy]
  <2>1. PICK q \in Places : q = Place(xy[1], xy[2])
    BY GridIs
  <2>2. Promised!Rank(xy) = q
    BY <2>1 DEF Promised!Rank, Place
  <2>3. screen'.fb[q] = IF q \in W THEN Page(screen)[q] ELSE screen.fb[q]
    BY <1>3, <1>10, CopiedType
  <2>4. Sheet(screen'.fb)[xy] = screen'.fb[q] /\ Sheet(screen.fb)[xy] = screen.fb[q]
    BY <2>1, SheetIs
  <2>5. Sheets(screen.buf)[screen.page][xy] = Page(screen)[q]
    BY <1>3, <2>1 DEF Sheets, Page
  <2> QED BY <2>2, <2>3, <2>4, <2>5
<1>6. Sheet(screen'.fb) = [xy \in Promised!Grid |->
         IF Promised!Rank(xy) \in W THEN Sheets(screen.buf)[screen.page][xy] ELSE Sheet(screen.fb)[xy]]
  BY <1>5, SheetIs, GridIs
<1>7. Promised!Shows(p, k)
  BY <1>4, <1>6 DEF Promised!Shows, Sheet, Sheets
<1>8. p \in 0 .. MAX_X * MAX_Y
  <2>1. PICK size : size = MAX_X * MAX_Y
    OBVIOUS
  <2>2. size \in Nat /\ p \in 0 .. size - 1
    <3>1. \A i, j \in Nat : i * j \in Nat
      OBVIOUS
    <3> QED BY <2>1, <3>1, RoomIs DEF Places
  <2> QED BY <2>1, <2>2
<1>9. UNCHANGED <<screen.page, Sheets(screen.buf), screen.pos, looked>>
  BY <1>1
<1> QED
  BY <1>7, <1>8, <1>9 DEF Promised!Show, Sheets

\* A guest's store is one into the display's memory.
LEMMA StoreMaps ==
  ASSUME VideoInv, StoreToDisplay
  PROVE  Promised!Store
<1>1. looked' = looked /\ screen'.page = screen.page /\ screen'.pos = screen.pos /\ screen'.buf = screen.buf
  BY GuestStoreEffect DEF StoreToDisplay, Given
<1>2. PICK p \in Places : \A q \in Places \ {p, p + 1} : screen'.fb[q] = screen.fb[q]
  BY GuestStoreEffect
<1>3. PICK x \in 0 .. MAX_X - 1, y \in 0 .. MAX_Y - 1 : p = Place(x, y)
  BY PlaceOf
<1>4. PICK first \in Promised!Grid : first = <<x, y>>
  BY GridIs DEF Grid
<1>5. Promised!Rank(first) = p
  BY <1>3, <1>4 DEF Promised!Rank, Place
<1>6. ASSUME NEW xy \in Promised!Grid, Promised!Rank(xy) \notin {Promised!Rank(first), Promised!Rank(first) + 1}
      PROVE  Sheet(screen'.fb)[xy] = Sheet(screen.fb)[xy]
  <2>1. PICK q \in Places : q = Place(xy[1], xy[2])
    BY GridIs
  <2>2. Promised!Rank(xy) = q
    BY <2>1 DEF Promised!Rank, Place
  <2> QED BY <1>2, <1>5, <1>6, <2>1, <2>2, SheetIs, GridIs
<1>7. DOMAIN Sheet(screen'.fb) = Promised!Grid
  BY SheetIs, GridIs
<1>8. UNCHANGED <<screen.page, Sheets(screen.buf), screen.pos, looked>>
  BY <1>1
<1> QED
  BY <1>6, <1>7, <1>8 DEF Promised!Store, Sheet, Sheets

\* The page is rolled up by a line.
LEMMA SheetRolled ==
  ASSUME NEW B \in Pictures, NEW c, c = Sheet(B)
  PROVE  Sheet(RolledUp(B)) = Promised!Rolled(c)
<1> DEFINE W == Window(0, 0, MAX_X - 1, MAX_Y - 1 - 1)
           M == Moved(B, W, 1)
           V == Window(0, TopFilled(1, 0, MAX_Y - 1), MAX_X - 1, MAX_Y - 1)
           R == RolledUp(B)
<1>1. /\ MAX_X \in Nat \ {0} /\ MAX_Y \in Nat \ {0} /\ TopFilled(1, 0, MAX_Y - 1) = MAX_Y - 1
  BY RoomIs DEF TopFilled
<1>2. ASSUME NEW xy \in Grid
      PROVE  Sheet(R)[xy] = IF xy[2] = MAX_Y - 1 THEN <<32, 7>> ELSE c[<<xy[1], xy[2] + 1>>]
  <2>1. PICK q : q = Place(xy[1], xy[2])
    OBVIOUS
  <2>2. /\ q \in Places /\ Column(q) = xy[1] /\ RowOf(q) = xy[2]
        /\ xy[1] \in 0 .. MAX_X - 1 /\ xy[2] \in 0 .. MAX_Y - 1
    BY <2>1, GridIs
  <2>3. q \in V <=> xy[2] = MAX_Y - 1
    BY <1>1, <2>2 DEF Window
  <2>4. q \in W <=> xy[2] # MAX_Y - 1
    BY <1>1, <2>2 DEF Window
  <2>5. R[q] = IF q \in V THEN <<32, 7>> ELSE M[q]
    BY <2>2 DEF RolledUp, Filled
  <2>6. q \in W => M[q] = B[Place(xy[1], xy[2] + 1)]
    BY <2>2 DEF Moved
  <2>7. Sheet(R)[xy] = R[q]
    BY <2>1, SheetIs
  <2>8. xy[2] # MAX_Y - 1 => c[<<xy[1], xy[2] + 1>>] = B[Place(xy[1], xy[2] + 1)]
    <3>1. SUFFICES ASSUME xy[2] # MAX_Y - 1
                   PROVE  c[<<xy[1], xy[2] + 1>>] = B[Place(xy[1], xy[2] + 1)]
      OBVIOUS
    <3>2. <<xy[1], xy[2] + 1>> \in Grid
      BY <1>1, <2>2, <3>1 DEF Grid
    <3> QED BY <3>2, SheetIs
  <2> HIDE DEF W, V, M, R
  <2> QED BY <2>3, <2>4, <2>5, <2>6, <2>7, <2>8
<1> HIDE DEF R
<1>3. Sheet(R) = [xy \in Grid |-> IF xy[2] = MAX_Y - 1 THEN <<32, 7>> ELSE c[<<xy[1], xy[2] + 1>>]]
  BY <1>2, SheetIs
<1> QED
  BY <1>3, GridIs DEF Promised!Rolled, Promised!Blank, Promised!Space, R

\* PenAt of the abstract display, of two screens.
PenTo(m, n, c, d, x, y) ==
    IF y = MAX_Y THEN Turned(m, n, Promised!Rolled(c), Promised!Rolled(d), <<x, MAX_Y - 1>>)
                 ELSE Turned(m, n, c, d, <<x, y>>)

\* The pen comes to rest.
LEMMA PenMaps ==
  ASSUME VideoInv, looked' = looked, screen'.page = screen.page,
         NEW B \in Pictures, NEW c, c = Sheet(B), NEW x, NEW y \in 0 .. MAX_Y, NEW xy, xy = <<x, y>>,
         NEW F \in Pictures, NEW d, d = Sheet(F),
         screen'.buf = [screen.buf EXCEPT ![screen.page] = Risen(B, xy)],
         screen'.fb = Risen(F, xy),
         screen'.pos = [screen.pos EXCEPT ![screen.page] = Rest(xy)]
  PROVE  PenTo(screen, screen', c, d, x, y)
<1>1. MAX_Y \in Nat \ {0} /\ xy[1] = x /\ xy[2] = y
  BY RoomIs
<1>2. CASE y = MAX_Y
  <2>1. Risen(B, xy) = RolledUp(B) /\ Risen(F, xy) = RolledUp(F) /\ Rest(xy) = <<x, MAX_Y - 1>>
    BY <1>1, <1>2 DEF Risen, Rest
  <2>2. PICK S, T, U, V : /\ S = Promised!Rolled(c) /\ U = RolledUp(B)
                          /\ T = Promised!Rolled(d) /\ V = RolledUp(F)
    OBVIOUS
  <2>3. S = Sheet(U) /\ T = Sheet(V)
    BY <2>2, SheetRolled
  <2>4. Turned(screen, screen', S, T, <<x, MAX_Y - 1>>)
    BY <2>1, <2>2, <2>3, BecomesIs
  <2> QED BY <1>2, <2>2, <2>4 DEF PenTo
<1>3. CASE y # MAX_Y
  <2>1. Risen(B, xy) = B /\ Risen(F, xy) = F /\ Rest(xy) = <<x, y>>
    BY <1>1, <1>3 DEF Risen, Rest
  <2>2. Turned(screen, screen', c, d, <<x, y>>)
    BY <2>1, BecomesIs
  <2> QED BY <1>3, <2>2 DEF PenTo
<1> QED
  BY <1>2, <1>3

\* The pen takes its step from a page on which the character is inked.
TypeStep(m, n, c, d, x, y, code, attribute) ==
    LET Inking(s) == [s EXCEPT ![<<x, y>>] = <<code, attribute>>]
    IN \/ code = 8 /\ PenTo(m, n, c, d, IF x = 0 THEN 0 ELSE x - 1, y)
       \/ code = 10 /\ PenTo(m, n, c, d, x, y + 1)
       \/ code = 13 /\ PenTo(m, n, c, d, 0, y)
       \/ code \notin {7, 8, 10, 13} /\ x < MAX_X - 1 /\ PenTo(m, n, Inking(c), Inking(d), x + 1, y)
       \/ code \notin {7, 8, 10, 13} /\ x = MAX_X - 1 /\ PenTo(m, n, Inking(c), Inking(d), 0, y + 1)

\* A character typed, at each place the pen can stand.
LEMMA TypeMaps ==
  ASSUME VideoInv, int10_handler_ah0e
  PROVE  Promised!Type \/ UNCHANGED Promised!vars
<1>1. looked' = looked /\ screen'.page = screen.page
  BY TypeEffect DEF int10_handler_ah0e, Given
<1>2. CASE screen'.buf = screen.buf /\ screen'.pos = screen.pos /\ screen'.fb = screen.fb
  BY <1>1, <1>2, NothingBecomes
<1>3. CASE ~(screen'.buf = screen.buf /\ screen'.pos = screen.pos /\ screen'.fb = screen.fb)
  <2>1. PICK code \in Codes, a \in Attributes, x \in 0 .. MAX_X - 1, y \in 0 .. MAX_Y - 1 :
          \E xy :
             /\ screen.pos[screen.page] = <<x, y>> /\ xy = WrappedTo(SteppedTo(x, y, code))
             /\ screen'.buf = [screen.buf EXCEPT ![screen.page] =
                                 Risen(Inked(Page(screen), Place(x, y), code, a), xy)]
             /\ screen'.fb = Risen(Inked(screen.fb, Place(x, y), code, a), xy)
             /\ screen'.pos = [screen.pos EXCEPT ![screen.page] = Rest(xy)]
    BY <1>3, TypeEffect
  <2>2. PICK xy :
             /\ screen.pos[screen.page] = <<x, y>> /\ xy = WrappedTo(SteppedTo(x, y, code))
             /\ screen'.buf = [screen.buf EXCEPT ![screen.page] =
                                 Risen(Inked(Page(screen), Place(x, y), code, a), xy)]
             /\ screen'.fb = Risen(Inked(screen.fb, Place(x, y), code, a), xy)
             /\ screen'.pos = [screen.pos EXCEPT ![screen.page] = Rest(xy)]
    BY <2>1
  <2>3. /\ MAX_X \in Nat \ {0} /\ MAX_Y \in Nat \ {0} /\ x \in Nat /\ y \in 0 .. MAX_Y /\ y + 1 \in 0 .. MAX_Y
        /\ x < MAX_X /\ (x < MAX_X - 1 \/ x = MAX_X - 1) /\ code \in Byte /\ a \in Byte
        /\ screen \in Screens /\ Page(screen) \in Pictures /\ screen.fb \in Pictures /\ <<code, a>> \in Cells
    <3>1. code \in Byte /\ a \in Byte
      BY VideoAssumption DEF Byte
    <3> QED BY <3>1, RoomIs, Parts, ScreenParts DEF Cells
  <2>4. PICK B, F, c, d, inked, dyed :
          /\ B = Inked(Page(screen), Place(x, y), code, a)
          /\ F = Inked(screen.fb, Place(x, y), code, a)
          /\ c = Sheet(Page(screen)) /\ d = Sheet(screen.fb)
          /\ inked = [c EXCEPT ![<<x, y>>] = <<code, a>>]
          /\ dyed = [d EXCEPT ![<<x, y>>] = <<code, a>>]
    OBVIOUS
  <2>5. Place(x, y) \in Places
    BY PlaceIs
  <2>6. code \in {7, 8, 10, 13} => B = Page(screen) /\ F = screen.fb
    BY <2>4 DEF Inked
  <2>7. code \notin {7, 8, 10, 13} => /\ B = Written(Page(screen), Place(x, y), <<code, a>>)
                                    /\ F = Written(screen.fb, Place(x, y), <<code, a>>)
    BY <2>4 DEF Inked
  <2>8. B \in Pictures /\ F \in Pictures
    BY <2>3, <2>5, <2>6, <2>7, WrittenType
  <2>9. code \in {7, 8, 10, 13} => c = Sheet(B) /\ d = Sheet(F)
    BY <2>4, <2>6
  <2>10. code \notin {7, 8, 10, 13} => inked = Sheet(B) /\ dyed = Sheet(F)
    BY <2>3, <2>4, <2>7, SheetWritten
  <2>11. screen'.buf = [screen.buf EXCEPT ![screen.page] = Risen(B, xy)] /\ screen'.fb = Risen(F, xy)
    BY <2>2, <2>4
  <2>12. xy = CASE code = 7 -> <<x, y>>
                [] code = 8 -> <<IF x = 0 THEN 0 ELSE x - 1, y>>
                [] code = 10 -> <<x, y + 1>>
                [] code = 13 -> <<0, y>>
                [] code \notin {7, 8, 10, 13} /\ x < MAX_X - 1 -> <<x + 1, y>>
                [] code \notin {7, 8, 10, 13} /\ x = MAX_X - 1 -> <<0, y + 1>>
    BY <2>2, <2>3, RestInRoom
  <2>13. ASSUME NEW e, e = Sheet(B), NEW h, h = Sheet(F), NEW u, NEW v \in 0 .. MAX_Y, xy = <<u, v>>
         PROVE  PenTo(screen, screen', e, h, u, v)
    BY <1>1, <2>2, <2>8, <2>11, <2>13, PenMaps
  <2>14. code = 7 => UNCHANGED Promised!vars
    <3>1. SUFFICES ASSUME code = 7 PROVE UNCHANGED Promised!vars
      OBVIOUS
    <3>2. xy = <<x, y>>
      BY <2>12, <3>1
    <3>3. Risen(B, xy) = Page(screen) /\ Risen(F, xy) = screen.fb /\ Rest(xy) = screen.pos[screen.page]
      BY <2>2, <2>3, <2>6, <3>1, <3>2 DEF Risen, Rest
    <3>4. screen.buf \in [PageSet -> Pictures] /\ screen.pos \in [PageSet -> Spots] /\ screen.page \in PageSet
      BY Parts, ScreenParts
    <3>5. screen'.buf = screen.buf /\ screen'.pos = screen.pos /\ screen'.fb = screen.fb
      BY <2>2, <2>11, <3>3, <3>4 DEF Page
    <3> QED BY <1>1, <3>5, NothingBecomes
  <2>15. code = 8 => PenTo(screen, screen', c, d, IF x = 0 THEN 0 ELSE x - 1, y)
    <3>1. SUFFICES ASSUME code = 8 PROVE PenTo(screen, screen', c, d, IF x = 0 THEN 0 ELSE x - 1, y)
      OBVIOUS
    <3>2. xy = <<IF x = 0 THEN 0 ELSE x - 1, y>>
      BY <2>12, <3>1
    <3> QED BY <2>3, <2>9, <2>13, <3>1, <3>2
  <2>16. code = 10 => PenTo(screen, screen', c, d, x, y + 1)
    <3>1. SUFFICES ASSUME code = 10 PROVE PenTo(screen, screen', c, d, x, y + 1)
      OBVIOUS
    <3>2. xy = <<x, y + 1>>
      BY <2>12, <3>1
    <3> QED BY <2>3, <2>9, <2>13, <3>1, <3>2
  <2>17. code = 13 => PenTo(screen, screen', c, d, 0, y)
    <3>1. SUFFICES ASSUME code = 13 PROVE PenTo(screen, screen', c, d, 0, y)
      OBVIOUS
    <3>2. xy = <<0, y>>
      BY <2>12, <3>1
    <3> QED BY <2>3, <2>9, <2>13, <3>1, <3>2
  <2>18. code \notin {7, 8, 10, 13} /\ x < MAX_X - 1 => PenTo(screen, screen', inked, dyed, x + 1, y)
    <3>1. SUFFICES ASSUME code \notin {7, 8, 10, 13}, x < MAX_X - 1
                   PROVE  PenTo(screen, screen', inked, dyed, x + 1, y)
      OBVIOUS
    <3>2. xy = <<x + 1, y>>
      BY <2>3, <2>12, <3>1
    <3> QED BY <2>3, <2>10, <2>13, <3>1, <3>2
  <2>19. code \notin {7, 8, 10, 13} /\ x = MAX_X - 1 => PenTo(screen, screen', inked, dyed, 0, y + 1)
    <3>1. SUFFICES ASSUME code \notin {7, 8, 10, 13}, x = MAX_X - 1
                   PROVE  PenTo(screen, screen', inked, dyed, 0, y + 1)
      OBVIOUS
    <3>2. xy = <<0, y + 1>>
      BY <2>3, <2>12, <3>1
    <3> QED BY <2>3, <2>10, <2>13, <3>1, <3>2
  <2>20. CASE code = 7
    BY <2>14, <2>20
  <2>21. CASE code # 7
    <3>1. TypeStep(screen, screen', c, d, x, y, code, a)
      <4>1. \/ code = 8 \/ code = 10 \/ code = 13 \/ (code \notin {7, 8, 10, 13} /\ x < MAX_X - 1)
            \/ (code \notin {7, 8, 10, 13} /\ x = MAX_X - 1)
        BY <2>3, <2>21
      <4> QED BY <2>4, <2>15, <2>16, <2>17, <2>18, <2>19, <4>1, Zenon DEF TypeStep
    <3>2. c = Sheets(screen.buf)[screen.page] /\ d = Sheet(screen.fb)
      BY <2>3, <2>4, <2>11, SheetsIs
    <3>3. screen.pos[screen.page][1] = x /\ screen.pos[screen.page][2] = y
      BY <2>2
    <3>5. TypeStep(screen, screen', Sheets(screen.buf)[screen.page], Sheet(screen.fb), screen.pos[screen.page][1],
                   screen.pos[screen.page][2], code, a)
      BY <3>1, <3>2, <3>3
    <3>6. \E char \in Codes \cup Letters, attribute \in Attributes :
            TypeStep(screen, screen', Sheets(screen.buf)[screen.page], Sheet(screen.fb), screen.pos[screen.page][1],
                     screen.pos[screen.page][2], char, attribute)
      BY <3>5
    <3>7. <<screen.pos[screen.page][1], screen.pos[screen.page][2]>> = screen.pos[screen.page]
      BY <2>2
    <3> QED BY <1>1, <3>6, <3>7, Zenon
              DEF Promised!Type, Promised!PenAt, Promised!Becomes, TypeStep, PenTo, Turned, Sheets, Sheet
  <2> QED BY <2>20, <2>21
<1> QED
  BY <1>2, <1>3

\* The places from one on are those that are so little ahead of it.
LEMMA AheadOf ==
  ASSUME NEW s \in Nat \ {0}, NEW p \in 0 .. s - 1, NEW q \in 0 .. s - 1, NEW k \in 0 .. s
  PROVE  (\E i \in 0 .. k - 1 : q = (p + i) % s) <=> (q - p) % s < k
<1>1. ASSUME NEW i \in 0 .. s - 1
      PROVE  (p + i) % s = IF p + i < s THEN p + i ELSE p + i - s
  <2>1. p + i < s => (p + i) % s = p + i
    OBVIOUS
  <2>2. s <= p + i => (p + i) % s = p + i - s
    <3>1. PICK x \in Int : x = p + i
      OBVIOUS
    <3>2. x < 2 * s /\ s \in Nat \ {0}
      BY <3>1
    <3>3. s <= x /\ x < 2 * s => x % s = x - s
      BY Remainder
    <3> QED BY <3>1, <3>2, <3>3
  <2> QED BY <2>1, <2>2
<1>2. (q - p) % s = IF p <= q THEN q - p ELSE q - p + s
  <2>1. p <= q => (q - p) % s = q - p
    OBVIOUS
  <2>2. q < p => (q - p) % s = q - p + s
    <3>1. PICK x \in Int : x = q - p
      OBVIOUS
    <3>2. -s <= x /\ s \in Nat \ {0}
      BY <3>1
    <3>3. -s <= x /\ x < 0 => x % s = x + s
      BY Remainder
    <3> QED BY <3>1, <3>2, <3>3
  <2> QED BY <2>1, <2>2
<1>3. ASSUME NEW i \in 0 .. k - 1, q = (p + i) % s
      PROVE  (q - p) % s < k
  <2>1. i \in 0 .. s - 1
    OBVIOUS
  <2>2. q = IF p + i < s THEN p + i ELSE p + i - s
    BY <1>1, <1>3, <2>1
  <2> QED BY <1>2, <2>1, <2>2
<1>4. ASSUME (q - p) % s < k
      PROVE  \E i \in 0 .. k - 1 : q = (p + i) % s
  <2>1. PICK i : i = IF p <= q THEN q - p ELSE q - p + s
    OBVIOUS
  <2>2. i \in 0 .. k - 1 /\ i \in 0 .. s - 1
    BY <1>2, <1>4, <2>1
  <2>3. q = (p + i) % s
    BY <1>1, <2>1, <2>2
  <2> QED BY <2>2, <2>3
<1> QED
  BY <1>3, <1>4

\* The cells filled by their places are those ahead of the cursor.
LEMMA SheetFilled ==
  ASSUME NEW B \in Pictures, NEW xy \in Grid, NEW k \in 0 .. MAX_X * MAX_Y, NEW c,
         NEW start, start = Place(xy[1], xy[2])
  PROVE  Sheet(Filled(B, From(start, k - 1), c)) = Promised!FilledFrom(Sheet(B), xy, k, c)
<1> DEFINE W == From(start, k - 1)
           L == Filled(B, W, c)
           s == MAX_X * MAX_Y
<1>1. s \in Nat \ {0} /\ start \in 0 .. s - 1 /\ k \in 0 .. s
  <2>1. start \in Places
    BY GridIs
  <2>2. \A i, j \in Nat : i * j \in Nat
    OBVIOUS
  <2>3. s \in Nat
    BY <2>2, RoomIs
  <2> HIDE DEF s
  <2>4. start \in 0 .. s - 1
    BY <2>1 DEF Places, s
  <2>5. k \in 0 .. s
    BY DEF s
  <2> QED BY <2>3, <2>4, <2>5
<1>2. ASSUME NEW ab \in Grid
      PROVE  Sheet(L)[ab] = IF (((ab[2] * MAX_X) + ab[1]) - ((xy[2] * MAX_X) + xy[1])) % s < k THEN c
                                                                                             ELSE Sheet(B)[ab]
  <2>1. PICK q : q = Place(ab[1], ab[2])
    OBVIOUS
  <2>2. q \in Places /\ q \in 0 .. s - 1
    BY <2>1, GridIs DEF Places
  <2>3. q \in W <=> \E i \in 0 .. k - 1 : q = (start + i) % s
    BY <2>2 DEF From
  <2>4. q \in W <=> (q - start) % s < k
    <3> HIDE DEF W, s
    <3> QED BY <1>1, <2>2, <2>3, AheadOf
  <2>5. L[q] = IF q \in W THEN c ELSE B[q]
    BY <2>2 DEF Filled
  <2>6. Sheet(L)[ab] = L[q] /\ Sheet(B)[ab] = B[q]
    BY <2>1, SheetIs
  <2>7. q - start = ((ab[2] * MAX_X) + ab[1]) - ((xy[2] * MAX_X) + xy[1])
    BY <2>1 DEF Place
  <2> HIDE DEF W, s, L
  <2> QED BY <2>4, <2>5, <2>6, <2>7
<1> HIDE DEF L
<1>3. Sheet(L) = Promised!FilledFrom(Sheet(B), xy, k, c)
  BY <1>2, SheetIs, GridIs DEF Promised!FilledFrom, Promised!Rank
<1> QED
  BY <1>3 DEF L

\* Cells are filled.
LEMMA FillMaps ==
  ASSUME VideoInv, int10_handler_ah09
  PROVE  Promised!Fill \/ UNCHANGED Promised!vars
<1>1. looked' = looked /\ screen'.page = screen.page /\ screen'.pos = screen.pos
  BY FillEffect DEF int10_handler_ah09, Given
<1>2. CASE screen'.buf = screen.buf /\ screen'.fb = screen.fb
  BY <1>1, <1>2, NothingBecomes
<1>3. CASE ~(screen'.buf = screen.buf /\ screen'.fb = screen.fb)
  <2>1. PICK code \in Letters, a \in Attributes, k \in 0 .. MAX_X * MAX_Y, start \in Nat :
          /\ start = Place(screen.pos[screen.page][1], screen.pos[screen.page][2])
          /\ screen'.buf = [screen.buf EXCEPT ![screen.page] =
                              Filled(Page(screen), From(start, k - 1), <<code, a>>)]
          /\ screen'.fb = Filled(screen.fb, From(start, k - 1), <<code, a>>)
    BY <1>3, FillEffect
  <2>2. PICK xy : xy = screen.pos[screen.page]
    OBVIOUS
  <2>3. xy \in Grid /\ screen \in Screens /\ Page(screen) \in Pictures /\ screen.fb \in Pictures
    BY <2>2, Parts, ScreenParts, GridIs
  <2>4. PICK B, F, c, d : /\ B = Filled(Page(screen), From(start, k - 1), <<code, a>>)
                          /\ F = Filled(screen.fb, From(start, k - 1), <<code, a>>)
                          /\ c = Promised!FilledFrom(Sheets(screen.buf)[screen.page], xy, k, <<code, a>>)
                          /\ d = Promised!FilledFrom(Sheet(screen.fb), xy, k, <<code, a>>)
    OBVIOUS
  <2>5. screen'.buf = [screen.buf EXCEPT ![screen.page] = B] /\ screen'.fb = F
    BY <2>1, <2>4
  <2>6. Sheets(screen.buf)[screen.page] = Sheet(Page(screen))
    BY <2>3, <2>5, SheetsIs
  <2>7. c = Sheet(B) /\ d = Sheet(F)
    BY <2>1, <2>2, <2>3, <2>4, <2>6, SheetFilled
  <2>8. Turned(screen, screen', c, d, xy)
    BY <1>1, <2>2, <2>5, <2>7, BecomesHere
  <2>9. \E char \in Codes \cup Letters, attribute \in Attributes, n \in 0 .. MAX_X * MAX_Y :
          Turned(screen, screen',
                 Promised!FilledFrom(Sheets(screen.buf)[screen.page], screen.pos[screen.page], n,
                                     <<char, attribute>>),
                 Promised!FilledFrom(Sheet(screen.fb), screen.pos[screen.page], n, <<char, attribute>>),
                 screen.pos[screen.page])
    BY <2>2, <2>4, <2>8
  <2>10. Promised!Grid = Grid
    BY GridIs
  <2> QED BY <1>1, <2>9, <2>10, Zenon DEF Promised!Fill, Promised!Becomes, Turned, Sheets, Sheet
<1> QED
  BY <1>2, <1>3

\* More lines than the screen has are all of them.
Least(k) == IF k > MAX_Y THEN MAX_Y ELSE k

\* Rows moved up in the window that is clipped are those of the window as it is given, ...
LEMMA SheetRaised ==
  ASSUME NEW B \in Pictures, NEW w \in Windows, NEW k \in Nat \ {0}, NEW c,
         w.left <= Clip(w.right, MAX_X), w.top <= Clip(w.bottom, MAX_Y),
         NEW d, d = Least(k)
  PROVE  Sheet(Raised(B, w, k, c)) = Promised!Shifted(Sheet(B), w, d, c)
<1>1. PICK x1, y1, x2, y2 : /\ x1 = w.left /\ y1 = w.top
                            /\ x2 = Clip(w.right, MAX_X) /\ y2 = Clip(w.bottom, MAX_Y)
  OBVIOUS
<1>2. w.left \in Nat /\ w.top \in Nat /\ w.right \in Nat /\ w.bottom \in Nat
  BY VideoAssumption
<1>3. /\ MAX_X \in Nat \ {0} /\ MAX_Y \in Nat \ {0} /\ x1 \in Nat /\ y1 \in Nat
      /\ x2 \in 0 .. MAX_X - 1 /\ y2 \in 0 .. MAX_Y - 1 /\ x1 <= x2 /\ y1 <= y2
  BY <1>1, <1>2, RoomIs, ClipIs
<1>4. ASSUME NEW x \in 0 .. MAX_X - 1, NEW y \in Int
      PROVE  Promised!Framed(w, x, y) <=> x1 <= x /\ x <= x2 /\ y1 <= y /\ y <= y2
  <2>1. x <= w.right <=> x <= x2
    BY <1>1, <1>2, <1>3 DEF Clip
  <2>2. y <= w.bottom /\ y <= MAX_Y - 1 <=> y <= y2
    BY <1>1, <1>2, <1>3 DEF Clip
  <2>3. Promised!Framed(w, x, y) <=> /\ x1 <= x /\ x <= w.right /\ y1 <= y /\ y <= w.bottom
                            /\ 0 <= y /\ y <= MAX_Y - 1
    BY <1>1, <1>2, <1>3, GridIs DEF Promised!Framed, Grid
  <2> QED BY <1>3, <2>1, <2>2, <2>3
<1> DEFINE W == Window(x1, y1, x2, y2 - k)
           M == Moved(B, W, k)
           t == TopFilled(k, y1, y2)
           V == Window(x1, t, x2, y2)
           L == Filled(M, V, c)
<1>5. L = Raised(B, w, k, c)
  BY <1>1 DEF Raised
<1>6. ASSUME NEW xy \in Grid
      PROVE  Sheet(L)[xy] =
               IF Promised!Framed(w, xy[1], xy[2])
                 THEN IF Promised!Framed(w, xy[1], xy[2] + d) THEN Sheet(B)[<<xy[1], xy[2] + d>>] ELSE c
                 ELSE Sheet(B)[xy]
  <2>1. PICK q, x, y : q = Place(xy[1], xy[2]) /\ x = xy[1] /\ y = xy[2]
    OBVIOUS
  <2>2. /\ q \in Places /\ Column(q) = x /\ RowOf(q) = y
        /\ x \in 0 .. MAX_X - 1 /\ y \in 0 .. MAX_Y - 1
    BY <2>1, GridIs
  <2>3. t \in Int /\ (y \in t .. y2 <=> y1 <= y /\ y <= y2 /\ y2 < y + k)
    BY <1>3, <2>2 DEF TopFilled
  <2>4. q \in V <=> x1 <= x /\ x <= x2 /\ y1 <= y /\ y <= y2 /\ y2 < y + k
    <3> HIDE DEF t
    <3> QED BY <1>3, <2>2, <2>3 DEF Window
  <2>5. q \in W <=> x1 <= x /\ x <= x2 /\ y1 <= y /\ y <= y2 /\ y + k <= y2
    BY <1>3, <2>2 DEF Window
  <2>6. /\ L[q] = IF q \in V THEN c ELSE M[q]
        /\ M[q] = IF q \in W THEN B[Place(x, y + (k))] ELSE B[q]
    BY <2>2 DEF Filled, Moved
  <2>7. Sheet(L)[xy] = L[q] /\ Sheet(B)[xy] = B[q]
    BY <2>1, SheetIs
  <2>8. Promised!Framed(w, x, y) <=> x1 <= x /\ x <= x2 /\ y1 <= y /\ y <= y2
    BY <1>4, <2>2
  <2>9. d \in Int /\ y + d \in Int
    BY <1>3, <2>2 DEF Least
  <2>10. Promised!Framed(w, x, y + d) <=> x1 <= x /\ x <= x2 /\ y1 <= y + d /\ y + d <= y2
    BY <1>4, <2>2, <2>9
  <2>11. q \in W => Promised!Framed(w, x, y + d) /\ d = k
    BY <1>3, <2>2, <2>5, <2>10 DEF Least
  <2>12. q \in V => ~Promised!Framed(w, x, y + d)
    BY <1>3, <2>2, <2>4, <2>10 DEF Least
  <2>13. Promised!Framed(w, x, y + d) => Sheet(B)[<<x, y + d>>] = B[Place(x, y + d)]
    <3>1. SUFFICES ASSUME Promised!Framed(w, x, y + d) PROVE Sheet(B)[<<x, y + d>>] = B[Place(x, y + d)]
      OBVIOUS
    <3>2. <<x, y + d>> \in Grid
      BY <3>1, GridIs DEF Promised!Framed
    <3> QED BY <3>2, SheetIs
  <2>14. /\ q \in W \/ q \in V <=> Promised!Framed(w, x, y)
         /\ ~(q \in W /\ q \in V)
    BY <1>3, <2>2, <2>4, <2>5, <2>8
  <2> HIDE DEF W, V, M, L
  <2>15. CASE q \in W
    BY <2>1, <2>6, <2>7, <2>11, <2>13, <2>14, <2>15
  <2>16. CASE q \in V
    BY <2>1, <2>6, <2>7, <2>12, <2>14, <2>16
  <2>17. CASE q \notin W /\ q \notin V
    BY <2>1, <2>6, <2>7, <2>14, <2>17
  <2> QED BY <2>15, <2>16, <2>17
<1> HIDE DEF L
<1>7. Sheet(L) = Promised!Shifted(Sheet(B), w, d, c)
  BY <1>6, SheetIs, GridIs DEF Promised!Shifted
<1> QED
  BY <1>5, <1>7

\* ... and so are rows moved down.
LEMMA SheetLowered ==
  ASSUME NEW B \in Pictures, NEW w \in Windows, NEW k \in Nat \ {0}, NEW c,
         w.left <= Clip(w.right, MAX_X), w.top <= Clip(w.bottom, MAX_Y),
         NEW d, d = 0 - Least(k)
  PROVE  Sheet(Lowered(B, w, k, c)) = Promised!Shifted(Sheet(B), w, d, c)
<1>1. PICK x1, y1, x2, y2 : /\ x1 = w.left /\ y1 = w.top
                            /\ x2 = Clip(w.right, MAX_X) /\ y2 = Clip(w.bottom, MAX_Y)
  OBVIOUS
<1>2. w.left \in Nat /\ w.top \in Nat /\ w.right \in Nat /\ w.bottom \in Nat
  BY VideoAssumption
<1>3. /\ MAX_X \in Nat \ {0} /\ MAX_Y \in Nat \ {0} /\ x1 \in Nat /\ y1 \in Nat
      /\ x2 \in 0 .. MAX_X - 1 /\ y2 \in 0 .. MAX_Y - 1 /\ x1 <= x2 /\ y1 <= y2
  BY <1>1, <1>2, RoomIs, ClipIs
<1>4. ASSUME NEW x \in 0 .. MAX_X - 1, NEW y \in Int
      PROVE  Promised!Framed(w, x, y) <=> x1 <= x /\ x <= x2 /\ y1 <= y /\ y <= y2
  <2>1. x <= w.right <=> x <= x2
    BY <1>1, <1>2, <1>3 DEF Clip
  <2>2. y <= w.bottom /\ y <= MAX_Y - 1 <=> y <= y2
    BY <1>1, <1>2, <1>3 DEF Clip
  <2>3. Promised!Framed(w, x, y) <=> /\ x1 <= x /\ x <= w.right /\ y1 <= y /\ y <= w.bottom
                            /\ 0 <= y /\ y <= MAX_Y - 1
    BY <1>1, <1>2, <1>3, GridIs DEF Promised!Framed, Grid
  <2> QED BY <1>3, <2>1, <2>2, <2>3
<1> DEFINE W == Window(x1, y1 + k, x2, y2)
           M == Moved(B, W, 0 - k)
           t == LastFilled(k, y1, y2)
           V == Window(x1, y1, x2, t)
           L == Filled(M, V, c)
<1>5. L = Lowered(B, w, k, c)
  BY <1>1 DEF Lowered
<1>6. ASSUME NEW xy \in Grid
      PROVE  Sheet(L)[xy] =
               IF Promised!Framed(w, xy[1], xy[2])
                 THEN IF Promised!Framed(w, xy[1], xy[2] + d) THEN Sheet(B)[<<xy[1], xy[2] + d>>] ELSE c
                 ELSE Sheet(B)[xy]
  <2>1. PICK q, x, y : q = Place(xy[1], xy[2]) /\ x = xy[1] /\ y = xy[2]
    OBVIOUS
  <2>2. /\ q \in Places /\ Column(q) = x /\ RowOf(q) = y
        /\ x \in 0 .. MAX_X - 1 /\ y \in 0 .. MAX_Y - 1
    BY <2>1, GridIs
  <2>3. t \in Int /\ (y \in y1 .. t <=> y1 <= y /\ y <= y2 /\ y < y1 + k)
    BY <1>3, <2>2 DEF LastFilled
  <2>4. q \in V <=> x1 <= x /\ x <= x2 /\ y1 <= y /\ y <= y2 /\ y < y1 + k
    <3> HIDE DEF t
    <3> QED BY <1>3, <2>2, <2>3 DEF Window
  <2>5. q \in W <=> x1 <= x /\ x <= x2 /\ y1 <= y /\ y <= y2 /\ y1 + k <= y
    BY <1>3, <2>2 DEF Window
  <2>6. /\ L[q] = IF q \in V THEN c ELSE M[q]
        /\ M[q] = IF q \in W THEN B[Place(x, y + (0 - k))] ELSE B[q]
    BY <2>2 DEF Filled, Moved
  <2>7. Sheet(L)[xy] = L[q] /\ Sheet(B)[xy] = B[q]
    BY <2>1, SheetIs
  <2>8. Promised!Framed(w, x, y) <=> x1 <= x /\ x <= x2 /\ y1 <= y /\ y <= y2
    BY <1>4, <2>2
  <2>9. d \in Int /\ y + d \in Int
    BY <1>3, <2>2 DEF Least
  <2>10. Promised!Framed(w, x, y + d) <=> x1 <= x /\ x <= x2 /\ y1 <= y + d /\ y + d <= y2
    BY <1>4, <2>2, <2>9
  <2>11. q \in W => Promised!Framed(w, x, y + d) /\ d = 0 - k
    BY <1>3, <2>2, <2>5, <2>10 DEF Least
  <2>12. q \in V => ~Promised!Framed(w, x, y + d)
    BY <1>3, <2>2, <2>4, <2>10 DEF Least
  <2>13. Promised!Framed(w, x, y + d) => Sheet(B)[<<x, y + d>>] = B[Place(x, y + d)]
    <3>1. SUFFICES ASSUME Promised!Framed(w, x, y + d) PROVE Sheet(B)[<<x, y + d>>] = B[Place(x, y + d)]
      OBVIOUS
    <3>2. <<x, y + d>> \in Grid
      BY <3>1, GridIs DEF Promised!Framed
    <3> QED BY <3>2, SheetIs
  <2>14. /\ q \in W \/ q \in V <=> Promised!Framed(w, x, y)
         /\ ~(q \in W /\ q \in V)
    BY <1>3, <2>2, <2>4, <2>5, <2>8
  <2> HIDE DEF W, V, M, L
  <2>15. CASE q \in W
    BY <2>1, <2>6, <2>7, <2>11, <2>13, <2>14, <2>15
  <2>16. CASE q \in V
    BY <2>1, <2>6, <2>7, <2>12, <2>14, <2>16
  <2>17. CASE q \notin W /\ q \notin V
    BY <2>1, <2>6, <2>7, <2>14, <2>17
  <2> QED BY <2>15, <2>16, <2>17
<1> HIDE DEF L
<1>7. Sheet(L) = Promised!Shifted(Sheet(B), w, d, c)
  BY <1>6, SheetIs, GridIs DEF Promised!Shifted
<1> QED
  BY <1>5, <1>7

\* A page and the memory with a window shifted are Scroll of the display.
LEMMA ScrollTurned ==
  ASSUME looked' = looked, NEW w \in Windows, NEW n \in (-MAX_Y .. MAX_Y) \ {0},
         NEW a \in Attributes, NEW blank, blank = <<32, a>>,
         NEW c, c = Promised!Shifted(Sheets(screen.buf)[screen.page], w, n, blank),
         NEW d, d = Promised!Shifted(Sheet(screen.fb), w, n, blank),
         Turned(screen, screen', c, d, screen.pos[screen.page])
  PROVE  Promised!Scroll
<1>1. Promised!Space(a) = blank
  BY DEF Promised!Space
<1>2. Turned(screen, screen', Promised!Shifted(Sheets(screen.buf)[screen.page], w, n, Promised!Space(a)),
             Promised!Shifted(Sheet(screen.fb), w, n, Promised!Space(a)), screen.pos[screen.page])
  BY <1>1
<1>3. \E v \in Windows, m \in (-MAX_Y .. MAX_Y) \ {0}, attribute \in Attributes :
        Turned(screen, screen',
               Promised!Shifted(Sheets(screen.buf)[screen.page], v, m, Promised!Space(attribute)),
               Promised!Shifted(Sheet(screen.fb), v, m, Promised!Space(attribute)),
               screen.pos[screen.page])
  BY <1>2
<1>4. UNCHANGED <<screen.page, looked>>
  BY DEF Turned
<1>5. \E v \in Windows, m \in (-MAX_Y .. MAX_Y) \ {0}, attribute \in Attributes :
        /\ Sheets(screen'.buf) = [Sheets(screen.buf) EXCEPT ![screen.page] =
              Promised!Shifted(Sheets(screen.buf)[screen.page], v, m, Promised!Space(attribute))]
        /\ Sheet(screen'.fb) = Promised!Shifted(Sheet(screen.fb), v, m, Promised!Space(attribute))
        /\ screen'.pos = [screen.pos EXCEPT ![screen.page] = screen.pos[screen.page]]
        /\ UNCHANGED <<screen.page, looked>>
  BY <1>3, <1>4 DEF Turned
<1> QED
  BY <1>5, Zenon DEF Promised!Scroll, Promised!Becomes, Sheets, Sheet

\* AH = 06h scrolls, ...
LEMMA RaiseMaps ==
  ASSUME VideoInv, int10_handler_ah06
  PROVE  Promised!Scroll \/ UNCHANGED Promised!vars
<1>1. looked' = looked /\ screen'.page = screen.page /\ screen'.pos = screen.pos
  BY ScrollUpEffect DEF int10_handler_ah06, Given
<1>2. CASE screen'.buf = screen.buf /\ screen'.fb = screen.fb
  BY <1>1, <1>2, NothingBecomes
<1>3. CASE ~(screen'.buf = screen.buf /\ screen'.fb = screen.fb)
  <2>1. PICK w \in Windows, k \in Nat \ {0}, a \in Attributes :
          /\ w.left <= Clip(w.right, MAX_X) /\ w.top <= Clip(w.bottom, MAX_Y)
          /\ screen'.buf = [screen.buf EXCEPT ![screen.page] = Raised(Page(screen), w, k, <<32, a>>)]
          /\ screen'.fb = Raised(screen.fb, w, k, <<32, a>>)
    BY <1>3, ScrollUpEffect
  <2>2. screen \in Screens /\ Page(screen) \in Pictures /\ screen.fb \in Pictures
    BY Parts, ScreenParts
  <2>3. PICK n, blank, B, F, c, d :
          /\ n = Least(k) /\ blank = <<32, a>>
          /\ B = Raised(Page(screen), w, k, blank) /\ F = Raised(screen.fb, w, k, blank)
          /\ c = Promised!Shifted(Sheets(screen.buf)[screen.page], w, n, blank)
          /\ d = Promised!Shifted(Sheet(screen.fb), w, n, blank)
    OBVIOUS
  <2>4. screen'.buf = [screen.buf EXCEPT ![screen.page] = B] /\ screen'.fb = F
    BY <2>1, <2>3
  <2>5. Sheets(screen.buf)[screen.page] = Sheet(Page(screen))
    BY <2>2, <2>4, SheetsIs
  <2>6. c = Sheet(B) /\ d = Sheet(F)
    BY <2>1, <2>2, <2>3, <2>5, SheetRaised
  <2>7. Turned(screen, screen', c, d, screen.pos[screen.page])
    BY <1>1, <2>4, <2>6, BecomesHere
  <2>8. n \in (-MAX_Y .. MAX_Y) \ {0}
    BY <2>3, RoomIs DEF Least
  <2> QED BY <1>1, <2>3, <2>7, <2>8, ScrollTurned
<1> QED
  BY <1>2, <1>3

\* ... and so does AH = 07h.
LEMMA LowerMaps ==
  ASSUME VideoInv, int10_handler_ah07
  PROVE  Promised!Scroll \/ UNCHANGED Promised!vars
<1>1. looked' = looked /\ screen'.page = screen.page /\ screen'.pos = screen.pos
  BY ScrollDownEffect DEF int10_handler_ah07, Given
<1>2. CASE screen'.buf = screen.buf /\ screen'.fb = screen.fb
  BY <1>1, <1>2, NothingBecomes
<1>3. CASE ~(screen'.buf = screen.buf /\ screen'.fb = screen.fb)
  <2>1. PICK w \in Windows, k \in Nat \ {0}, a \in Attributes :
          /\ w.left <= Clip(w.right, MAX_X) /\ w.top <= Clip(w.bottom, MAX_Y)
          /\ screen'.buf = [screen.buf EXCEPT ![screen.page] = Lowered(Page(screen), w, k, <<32, a>>)]
          /\ screen'.fb = Lowered(screen.fb, w, k, <<32, a>>)
    BY <1>3, ScrollDownEffect
  <2>2. screen \in Screens /\ Page(screen) \in Pictures /\ screen.fb \in Pictures
    BY Parts, ScreenParts
  <2>3. PICK n, blank, B, F, c, d :
          /\ n = 0 - Least(k) /\ blank = <<32, a>>
          /\ B = Lowered(Page(screen), w, k, blank) /\ F = Lowered(screen.fb, w, k, blank)
          /\ c = Promised!Shifted(Sheets(screen.buf)[screen.page], w, n, blank)
          /\ d = Promised!Shifted(Sheet(screen.fb), w, n, blank)
    OBVIOUS
  <2>4. screen'.buf = [screen.buf EXCEPT ![screen.page] = B] /\ screen'.fb = F
    BY <2>1, <2>3
  <2>5. Sheets(screen.buf)[screen.page] = Sheet(Page(screen))
    BY <2>2, <2>4, SheetsIs
  <2>6. c = Sheet(B) /\ d = Sheet(F)
    BY <2>1, <2>2, <2>3, <2>5, SheetLowered
  <2>7. Turned(screen, screen', c, d, screen.pos[screen.page])
    BY <1>1, <2>4, <2>6, BecomesHere
  <2>8. n \in (-MAX_Y .. MAX_Y) \ {0}
    BY <2>3, RoomIs DEF Least
  <2> QED BY <1>1, <2>3, <2>7, <2>8, ScrollTurned
<1> QED
  BY <1>2, <1>3
\* The display begins on its page, with the cursors at the top.
LEMMA DisplayBegins == VideoInit => Promised!Init
<1>1. SUFFICES ASSUME VideoInit PROVE Promised!Init
  OBVIOUS
<1>2. screen.page = 0 /\ screen.pos = [g \in PageSet |-> <<0, 0>>] /\ 0 \in PageSet
  BY <1>1, RoomIs DEF VideoInit
<1>3. \A g \in PageSet : DOMAIN Sheets(screen.buf)[g] = Promised!Grid
  BY GridIs DEF Sheets
<1>4. DOMAIN Sheet(screen.fb) = Promised!Grid
  BY SheetIs, GridIs
<1> QED
  BY <1>2, <1>3, <1>4 DEF Promised!Init, Sheets, Sheet

\* Every call is one of the display's, or none.
LEMMA DisplayStep ==
  ASSUME VideoInv, [VideoNext]_video
  PROVE  [Promised!Next]_(Promised!vars)
<1>1. CASE UNCHANGED video
  BY <1>1, NothingBecomes DEF video
<1>2. CASE \/ int10_handler_ah00 \/ int10_handler_ah02 \/ int10_handler_ah05
           \/ int10_handler_ah06 \/ int10_handler_ah07 \/ int10_handler_ah08
           \/ int10_handler_ah09 \/ int10_handler_ah0e
           \/ int10_handler_ahfe \/ DrawInBuffer \/ int10_handler_ahff \/ StoreToDisplay
  <2>1. Promised!Next \/ UNCHANGED Promised!vars
    BY <1>2, ClearMaps, PlaceMaps, SelectMaps, RaiseMaps, LowerMaps, ReadMaps, FillMaps, TypeMaps,
       TakeMaps, DrawMaps, ShowMaps, StoreMaps DEF Promised!Next
  <2> QED BY <2>1
<1> QED
  BY <1>1, <1>2 DEF VideoNext

\* The pages' buffers and the display's memory with their linear positions, the copies
\* cell by cell and row by row, and the cells that are filled around the bottom, are a
\* display of pages whose functions move and fill whole windows at once, in the page
\* and in the memory that AH = 08h reads, for screens of every size, after any calls.
THEOREM DisplayImplemented == BiosSpec => ImplementsDisplay
<1>1. BiosInit => Promised!Init
  BY DisplayBegins DEF BiosInit
<1>2. VideoInv /\ [BiosNext]_allVars => [Promised!Next]_(Promised!vars)
  BY VideoStep, DisplayStep
<1> QED
  BY <1>1, <1>2, VideoInvariant, PTL DEF BiosSpec, ImplementsDisplay, Promised!Spec
=============================================================================
