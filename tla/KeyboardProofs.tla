--------------------------- MODULE KeyboardProofs ---------------------------
(***************************************************************************)
(* Proofs about Keyboard, for every size of the ring, every set of keys    *)
(* and every way of typing.  The first part says what the operations of    *)
(* the ring do to its contents; the second carries it over to the handlers *)
(* that use them; the third states the theorems.  The last follows what is *)
(* typed to the guest.                                                     *)
(***************************************************************************)
EXTENDS Keyboard, SequenceTheorems, NaturalsInduction, WellFoundedInduction, TLAPS

-----------------------------------------------------------------------------
(***************************************************************************)
(* The ring.                                                               *)
(***************************************************************************)
USE DEF Indices

\* The ring does not leave its bounds.
LEMMA FollowingIsIndex == ASSUME NEW i \in Indices PROVE Following(i) \in Indices
BY KeyBufferAssumption DEF Following

\* What a ring is made of.
LEMMA RingFields ==
  ASSUME NEW r \in Rings
  PROVE  r.head \in Indices /\ r.tail \in Indices /\ r.buf \in [Indices -> Keys]
BY DEF Rings

\* A ring in its type has both indices below KEYBUF_SIZE, so an insertion only
\* writes one item and moves the tail.
LEMMA InsertEffect ==
  ASSUME NEW r \in Rings, NEW k \in Keys
  PROVE  /\ insertKeyBuf(r, k) \in Rings
         /\ insertKeyBuf(r, k).head = r.head
         /\ insertKeyBuf(r, k).tail = Following(r.tail)
         /\ insertKeyBuf(r, k).buf = [r.buf EXCEPT ![r.tail] = k]
<1>1. r.head \in Indices /\ r.tail \in Indices /\ r.buf \in [Indices -> Keys]
  BY RingFields
<1>2. ~(r.tail >= KEYBUF_SIZE)
  BY <1>1, KeyBufferAssumption
<1>3. insertKeyBuf(r, k) = [head |-> r.head, tail |-> Following(r.tail),
                            buf |-> [r.buf EXCEPT ![r.tail] = k]]
  BY <1>2 DEF insertKeyBuf
<1>4. [r.buf EXCEPT ![r.tail] = k] \in [Indices -> Keys]
  BY <1>1
<1> QED
  BY <1>1, <1>3, <1>4, FollowingIsIndex DEF Rings

\* Taking a key moves the head and touches no slot.
LEMMA GetEffect ==
  ASSUME NEW r \in Rings
  PROVE  /\ getKeyBufItem(r).code \in Keys
         /\ getKeyBufItem(r).ring \in Rings
         /\ getNdKeyBufItem(r) = getKeyBufItem(r).code
<1> DEFINE at == IF r.buf[r.head] = Esc THEN Following(r.head) ELSE r.head
<1>1. r.head \in Indices /\ r.tail \in Indices /\ r.buf \in [Indices -> Keys]
  BY RingFields
<1>2. at \in Indices
  BY <1>1, FollowingIsIndex
<1>3. [r EXCEPT !.head = Following(at)] \in Rings
  BY <1>2, FollowingIsIndex DEF Rings
<1>4. getKeyBufItem(r) = [code |-> r.buf[at], ring |-> [r EXCEPT !.head = Following(at)]]
  BY DEF getKeyBufItem
<1>5. getNdKeyBufItem(r) = r.buf[at]
  BY DEF getNdKeyBufItem
<1> HIDE DEF at
<1>6. r.buf[at] \in Keys
  BY <1>1, <1>2
<1>7. getKeyBufItem(r).code = r.buf[at]
  BY <1>4
<1>8. getKeyBufItem(r).ring = [r EXCEPT !.head = Following(at)]
  BY <1>4
<1> QED
  BY <1>3, <1>5, <1>6, <1>7, <1>8

\* A ring of three items or more is not full and empty at once.
LEMMA FullIsNotEmpty ==
  ASSUME NEW r \in Rings, isKeyBufFull(r)
  PROVE  ~isKeyBufEmpty(r)
BY RingFields, KeyBufferAssumption DEF isKeyBufFull, isKeyBufEmpty, Following

\* A ring holds fewer keys than it has slots, is full at one less, and is empty where head and tail meet.
LEMMA HeldRange ==
  ASSUME NEW r \in Rings
  PROVE  /\ Held(r) \in 0 .. KEYBUF_SIZE - 1
         /\ isKeyBufFull(r) <=> Held(r) = KEYBUF_SIZE - 1
         /\ Held(r) = 0 <=> r.head = r.tail
BY RingFields, KeyBufferAssumption DEF Held, isKeyBufFull

\* Every slot is an index of the ring.
LEMMA SlotIsIndex ==
  ASSUME NEW r \in Rings, NEW i \in 1 .. Held(r)
  PROVE  Slot(r, i) \in Indices
BY RingFields, HeldRange, KeyBufferAssumption DEF Slot

\* What the ring holds, slot by slot.
LEMMA ContentsEffect ==
  ASSUME NEW r \in Rings
  PROVE  /\ Contents(r) \in Seq(Keys)
         /\ Len(Contents(r)) = Held(r)
         /\ \A i \in 1 .. Held(r) : Contents(r)[i] = r.buf[Slot(r, i)]
<1>1. Held(r) \in Nat
  BY HeldRange, KeyBufferAssumption
<1>2. \A i \in 1 .. Held(r) : r.buf[Slot(r, i)] \in Keys
  BY SlotIsIndex, RingFields
<1> QED
  BY <1>1, <1>2 DEF Contents

\* Inserting into a ring that is not full appends to its contents.
LEMMA InsertAppends ==
  ASSUME NEW r \in Rings, NEW k \in Keys, ~isKeyBufFull(r)
  PROVE  /\ Contents(insertKeyBuf(r, k)) = Append(Contents(r), k)
         /\ Len(Contents(r)) < KEYBUF_SIZE - 1
<1> DEFINE q == insertKeyBuf(r, k)
<1>1. /\ q \in Rings /\ q.head = r.head /\ q.tail = Following(r.tail)
      /\ q.buf = [r.buf EXCEPT ![r.tail] = k]
  BY InsertEffect
<1>2. r.head \in Indices /\ r.tail \in Indices /\ r.buf \in [Indices -> Keys]
  BY RingFields
<1> HIDE DEF q
<1>3. Held(r) \in 0 .. KEYBUF_SIZE - 2
  BY HeldRange, KeyBufferAssumption
<1>4. Held(q) = Held(r) + 1
  <2>1. r.head - 1 # r.tail /\ r.head + KEYBUF_SIZE - 1 # r.tail
    BY DEF isKeyBufFull
  <2>2. CASE r.tail = KEYBUF_SIZE - 1
    <3>1. q.tail = 0
      BY <1>1, <1>2, <2>2, KeyBufferAssumption DEF Following
    <3> QED
      BY <1>1, <1>2, <2>1, <2>2, <3>1, KeyBufferAssumption DEF Held
  <2>3. CASE r.tail # KEYBUF_SIZE - 1
    <3>1. q.tail = r.tail + 1
      BY <1>1, <1>2, <2>3, KeyBufferAssumption DEF Following
    <3> QED
      BY <1>1, <1>2, <2>1, <2>3, <3>1, KeyBufferAssumption DEF Held
  <2> QED
    BY <2>2, <2>3
<1>5. \A i \in 1 .. Held(q) : Slot(q, i) = Slot(r, i)
  BY <1>1 DEF Slot
<1>6. Slot(r, Held(r) + 1) = r.tail
  BY <1>2, <1>3, KeyBufferAssumption DEF Slot, Held
<1>7. \A i \in 1 .. Held(r) : Slot(r, i) # r.tail /\ Slot(r, i) \in Indices
  BY <1>2, <1>3, KeyBufferAssumption DEF Slot, Held
<1>8. \A i \in 1 .. Held(r) : q.buf[Slot(q, i)] = r.buf[Slot(r, i)]
  BY <1>1, <1>2, <1>3, <1>4, <1>5, <1>7
<1>9. q.buf[Slot(q, Held(q))] = k
  <2>1. Slot(q, Held(q)) = r.tail
    BY <1>3, <1>4, <1>5, <1>6
  <2> QED
    BY <1>1, <1>2, <2>1
<1>10. /\ Contents(q) \in Seq(Keys) /\ Len(Contents(q)) = Held(r) + 1
       /\ \A i \in 1 .. Held(r) + 1 :
            Contents(q)[i] = Append(Contents(r), k)[i]
  <2>1. /\ Contents(q) \in Seq(Keys) /\ Len(Contents(q)) = Held(r) + 1
        /\ \A i \in 1 .. Held(r) + 1 : Contents(q)[i] = q.buf[Slot(q, i)]
    BY <1>1, <1>4, ContentsEffect
  <2>2. /\ Contents(r) \in Seq(Keys) /\ Len(Contents(r)) = Held(r)
        /\ \A i \in 1 .. Held(r) : Contents(r)[i] = r.buf[Slot(r, i)]
    BY ContentsEffect
  <2>3. ASSUME NEW i \in 1 .. Held(r) + 1
        PROVE  Contents(q)[i] = Append(Contents(r), k)[i]
    <3>1. CASE i = Held(r) + 1
      BY <3>1, <2>1, <2>2, <1>4, <1>9, <1>3
    <3>2. CASE i # Held(r) + 1
      <4>1. i \in 1 .. Held(r)
        BY <3>2, <1>3
      <4>2. Append(Contents(r), k)[i] = Contents(r)[i]
        BY <4>1, <2>2
      <4> QED
        BY <4>1, <4>2, <2>1, <2>2, <1>8
    <3> QED
      BY <3>1, <3>2
  <2> QED
    BY <2>1, <2>3
<1>11. Contents(q) = Append(Contents(r), k)
  BY <1>3, <1>10, ContentsEffect, SeqEqual
<1> QED
  BY <1>3, <1>11, ContentsEffect, KeyBufferAssumption DEF q

\* Moving the head over an item drops the first of the contents.
LEMMA AdvanceDropsFirst ==
  ASSUME NEW r \in Rings, Held(r) > 0
  PROVE  /\ [r EXCEPT !.head = Following(r.head)] \in Rings
         /\ Contents([r EXCEPT !.head = Following(r.head)]) = Tail(Contents(r))
<1> DEFINE q == [r EXCEPT !.head = Following(r.head)]
<1>1. r.head \in Indices /\ r.tail \in Indices /\ r.buf \in [Indices -> Keys]
  BY RingFields
<1>2. q \in Rings
  BY <1>1, FollowingIsIndex DEF Rings
<1>3. q.head = Following(r.head) /\ q.tail = r.tail /\ q.buf = r.buf
  BY DEF Rings
<1> HIDE DEF q
<1>4. Held(r) \in 1 .. KEYBUF_SIZE - 1
  BY HeldRange, KeyBufferAssumption
<1>5. Held(q) = Held(r) - 1
  <2>1. CASE r.head = KEYBUF_SIZE - 1
    <3>1. q.head = 0
      BY <1>1, <1>3, <2>1, KeyBufferAssumption DEF Following
    <3> QED
      BY <1>1, <1>3, <1>4, <2>1, <3>1, KeyBufferAssumption DEF Held
  <2>2. CASE r.head # KEYBUF_SIZE - 1
    <3>1. q.head = r.head + 1
      BY <1>1, <1>3, <2>2, KeyBufferAssumption DEF Following
    <3> QED
      BY <1>1, <1>3, <1>4, <2>2, <3>1, KeyBufferAssumption DEF Held
  <2> QED
    BY <2>1, <2>2
<1>6. ASSUME NEW i \in 1 .. Held(q)
      PROVE  Slot(q, i) = Slot(r, i + 1)
  <2>1. CASE r.head = KEYBUF_SIZE - 1
    <3>1. q.head = 0
      BY <1>1, <1>3, <2>1, KeyBufferAssumption DEF Following
    <3> QED
      BY <1>1, <1>4, <1>5, <2>1, <3>1, KeyBufferAssumption DEF Slot
  <2>2. CASE r.head # KEYBUF_SIZE - 1
    <3>1. q.head = r.head + 1
      BY <1>1, <1>3, <2>2, KeyBufferAssumption DEF Following
    <3> QED
      BY <1>1, <1>4, <1>5, <2>2, <3>1, KeyBufferAssumption DEF Slot
  <2> QED
    BY <2>1, <2>2
<1>7. /\ Contents(r) \in Seq(Keys) /\ Len(Contents(r)) = Held(r)
      /\ \A i \in 1 .. Held(r) : Contents(r)[i] = r.buf[Slot(r, i)]
  BY ContentsEffect
<1>8. /\ Contents(q) \in Seq(Keys) /\ Len(Contents(q)) = Held(q)
      /\ \A i \in 1 .. Held(q) : Contents(q)[i] = q.buf[Slot(q, i)]
  BY <1>2, ContentsEffect
<1>9. /\ Tail(Contents(r)) \in Seq(Keys) /\ Len(Tail(Contents(r))) = Held(q)
      /\ \A i \in 1 .. Held(q) : Tail(Contents(r))[i] = Contents(r)[i + 1]
  BY <1>4, <1>5, <1>7
<1>10. ASSUME NEW i \in 1 .. Held(q)
       PROVE  Contents(q)[i] = Tail(Contents(r))[i]
  <2>1. i + 1 \in 1 .. Held(r)
    BY <1>4, <1>5
  <2> QED
    BY <1>3, <1>6, <1>7, <1>8, <1>9, <2>1
<1>11. Contents(q) = Tail(Contents(r))
  BY <1>8, <1>9, <1>10, SeqEqual
<1> QED
  BY <1>2, <1>11 DEF q

\* The ring is empty for a reader exactly when its contents hold nothing that can
\* be delivered, and otherwise the item taken is the one the pairs of ESC say.
LEMMA GetDelivers ==
  ASSUME NEW r \in Rings
  PROVE  /\ isKeyBufEmpty(r) <=> ~Queue!Ready(Contents(r))
         /\ ~isKeyBufEmpty(r) =>
              /\ getKeyBufItem(r).code = Queue!First(Contents(r))
              /\ Contents(getKeyBufItem(r).ring) = Queue!Rest(Contents(r))
<1> DEFINE c == Contents(r)
<1>1. r.head \in Indices /\ r.tail \in Indices /\ r.buf \in [Indices -> Keys]
  BY RingFields
<1>2. Held(r) \in 0 .. KEYBUF_SIZE - 1
  BY HeldRange
<1>3. /\ c \in Seq(Keys) /\ Len(c) = Held(r)
      /\ \A i \in 1 .. Held(r) : c[i] = r.buf[Slot(r, i)]
  BY ContentsEffect
<1>4. Held(r) > 0 => Slot(r, 1) = r.head
  BY <1>1, KeyBufferAssumption DEF Slot
<1>5. Slot(r, 2) = Following(r.head)
  BY <1>1, KeyBufferAssumption DEF Slot, Following
<1>6. Held(r) = 1 <=> Following(r.head) = r.tail
  BY <1>1, KeyBufferAssumption DEF Held, Following
<1>7. Held(r) = 0 <=> r.head = r.tail
  BY HeldRange
<1>8. Held(r) > 0 => Head(c) = r.buf[r.head]
  <2>1. Held(r) > 0 => c[1] = r.buf[r.head]
    BY <1>2, <1>3, <1>4
  <2> QED
    BY <1>3, <2>1
<1>9. Held(r) > 1 => c[2] = r.buf[Following(r.head)]
  BY <1>2, <1>3, <1>5, KeyBufferAssumption
<1> HIDE DEF c
<1>10. isKeyBufEmpty(r) <=> ~(Held(r) > 0 /\ (r.buf[r.head] = Esc => Held(r) > 1))
  BY <1>2, <1>6, <1>7, KeyBufferAssumption DEF isKeyBufEmpty
<1>11. isKeyBufEmpty(r) <=> ~Queue!Ready(c)
  BY <1>2, <1>3, <1>8, <1>10, KeyBufferAssumption DEF Queue!Ready
<1>12. ASSUME ~isKeyBufEmpty(r)
       PROVE  getKeyBufItem(r).code = Queue!First(c)
  BY <1>8, <1>9, <1>10, <1>12 DEF getKeyBufItem, Queue!First
<1>13. ASSUME ~isKeyBufEmpty(r)
       PROVE  Contents(getKeyBufItem(r).ring) = Queue!Rest(c)
  <2> DEFINE q == [r EXCEPT !.head = Following(r.head)]
  <2>1. Held(r) > 0
    BY <1>10, <1>13
  <2>2. q \in Rings /\ Contents(q) = Tail(c)
    BY <2>1, AdvanceDropsFirst DEF c
  <2>3. q.head = Following(r.head)
    BY DEF Rings
  <2>4. CASE r.buf[r.head] = Esc
    <3>1. Held(r) > 1
      BY <1>10, <1>13, <2>4
    <3>2. Held(q) > 0
      <4>1. Held(q) = Len(Tail(c))
        BY <2>2, ContentsEffect
      <4>2. Len(Tail(c)) = Held(r) - 1
        BY <1>3, <2>1
      <4> QED
        BY <3>1, <4>1, <4>2, <1>2
    <3>3. Contents([q EXCEPT !.head = Following(q.head)]) = Tail(Tail(c))
      BY <2>2, <3>2, AdvanceDropsFirst
    <3>4. getKeyBufItem(r).ring = [r EXCEPT !.head = Following(Following(r.head))]
      BY <2>4 DEF getKeyBufItem
    <3>5. [q EXCEPT !.head = Following(q.head)]
            = [r EXCEPT !.head = Following(Following(r.head))]
      BY <2>3 DEF Rings
    <3> QED
      BY <1>8, <2>1, <2>4, <3>3, <3>4, <3>5 DEF Queue!Rest
  <2>5. CASE r.buf[r.head] # Esc
    <3>1. getKeyBufItem(r).ring = q
      BY <2>5 DEF getKeyBufItem
    <3> QED
      BY <1>8, <2>1, <2>2, <2>5, <3>1 DEF Queue!Rest
  <2> QED
    BY <2>4, <2>5
<1> QED
  BY <1>11, <1>12, <1>13 DEF c

\* One more key changes neither whether there is a next key nor which it is.
LEMMA AppendKeepsFirst ==
  ASSUME NEW q \in Seq(Keys), NEW k \in Keys, Queue!Ready(q)
  PROVE  Queue!Ready(Append(q, k)) /\ Queue!First(Append(q, k)) = Queue!First(q)
<1>1. /\ Len(q) \in Nat /\ Len(q) > 0 /\ (q[1] = Esc => Len(q) > 1)
  BY DEF Queue!Ready
<1>2. /\ Append(q, k) \in Seq(Keys) /\ Len(Append(q, k)) = Len(q) + 1
      /\ \A i \in 1 .. Len(q) : Append(q, k)[i] = q[i]
  OBVIOUS
<1>3. Append(q, k)[1] = q[1] /\ (Len(q) > 1 => Append(q, k)[2] = q[2])
  BY <1>1, <1>2
<1>4. Head(Append(q, k)) = Head(q)
  BY <1>1, <1>2, <1>3
<1> QED
  BY <1>1, <1>2, <1>3, <1>4 DEF Queue!Ready, Queue!First

-----------------------------------------------------------------------------
(***************************************************************************)
(* The serial port: what one call of updateKeyInput may do.                *)
(***************************************************************************)
LEMMA ConsumeOutcome ==
  ASSUME TypeOK, ~isKeyBufFull(ring), NEW n \in 0 .. Len(wire), NEW ks \in Seq(Keys),
         NEW u, u = Consume(n, ks)
  PROVE  /\ u.wire \in Seq(Chars) /\ u.new \in Seq(Keys) /\ u.ring \in Rings
         /\ u.ring = ring \/ \E k \in Keys : u.ring = insertKeyBuf(ring, k)
<1>1. u = [wire |-> SubSeq(wire, n + 1, Len(wire)),
           ring |-> IF ks = << >> THEN ring ELSE insertKeyBuf(ring, ks[1]),
           new |-> ks]
  BY DEF Consume
<1>2. SubSeq(wire, n + 1, Len(wire)) \in Seq(Chars)
  BY SubSeqProperties DEF TypeOK
<1>3. ks # << >> => ks[1] \in Keys
  BY EmptySeq, ElementOfSeq
<1>4. ks # << >> => insertKeyBuf(ring, ks[1]) \in Rings
  BY <1>3, InsertEffect DEF TypeOK
<1> QED
  BY <1>1, <1>2, <1>3, <1>4 DEF TypeOK

\* What moving keys from the port to the ring does.
LEMMA UpdateOutcome ==
  ASSUME TypeOK, NEW u \in updateKeyInput
  PROVE  /\ u.wire \in Seq(Chars) /\ u.new \in Seq(Keys) /\ u.ring \in Rings
         /\ \/ u.ring = ring
            \/ ~isKeyBufFull(ring) /\ \E k \in Keys : u.ring = insertKeyBuf(ring, k)
<1>1. wire \in Seq(Chars) /\ Len(wire) \in Nat /\ ring \in Rings
  BY DEF TypeOK
<1>2. CASE wire = << >> \/ isKeyBufFull(ring)
  <2>1. u = Consume(0, << >>)
    BY <1>2 DEF updateKeyInput
  <2>2. u.wire = SubSeq(wire, 1, Len(wire)) /\ u.ring = ring /\ u.new = << >>
    BY <2>1 DEF Consume
  <2>3. SubSeq(wire, 1, Len(wire)) \in Seq(Chars)
    BY <1>1, SubSeqProperties
  <2> QED
    BY <1>1, <2>2, <2>3
<1>3. CASE wire # << >> /\ ~isKeyBufFull(ring) /\ Head(wire) = EscChar
  <2>1. u \in EscapeSequence
    BY <1>3 DEF updateKeyInput
  <2>2. PICK n \in 1 .. Len(wire) :
          LET s == SubSeq(wire, 2, n)
          IN  u = Consume(n, IF s = << >> THEN <<Esc>>
                             ELSE IF s \in DOMAIN Special THEN <<Special[s]>> ELSE << >>)
    BY <2>1 DEF EscapeSequence
  <2> DEFINE s == SubSeq(wire, 2, n)
             ks == IF s = << >> THEN <<Esc>>
                   ELSE IF s \in DOMAIN Special THEN <<Special[s]>> ELSE << >>
  <2>3. u = Consume(n, ks)
    BY <2>2
  <2>4. ks \in Seq(Keys)
    BY KeyBufferAssumption, KeyboardAssumption
  <2>5. n \in 0 .. Len(wire)
    BY <1>1
  <2> HIDE DEF ks
  <2> QED
    BY <1>3, <2>3, <2>4, <2>5, ConsumeOutcome
<1>4. CASE wire # << >> /\ ~isKeyBufFull(ring) /\ Head(wire) # EscChar
  <2>1. u = Consume(1, <<Plain[Head(wire)]>>)
    BY <1>4 DEF updateKeyInput
  <2>2. Head(wire) \in Chars /\ Len(wire) >= 1
    BY <1>1, <1>4, EmptySeq
  <2>3. <<Plain[Head(wire)]>> \in Seq(Keys)
    BY <2>2, KeyboardAssumption
  <2>4. 1 \in 0 .. Len(wire)
    BY <1>1, <2>2
  <2> QED
    BY <1>4, <2>1, <2>3, <2>4, ConsumeOutcome
<1> QED
  BY <1>2, <1>3, <1>4

\* Seen from the queue, a call of updateKeyInput appends at most one key, and none
\* to a full ring.
LEMMA UpdateGrows ==
  ASSUME TypeOK, NEW u \in updateKeyInput
  PROVE  Queue!MayGrow(Contents(ring), Contents(u.ring))
<1>1. ring \in Rings
  BY DEF TypeOK
<1>2. CASE u.ring = ring
  BY <1>2 DEF Queue!MayGrow
<1>3. CASE ~isKeyBufFull(ring) /\ \E k \in Keys : u.ring = insertKeyBuf(ring, k)
  <2>1. PICK k \in Keys : u.ring = insertKeyBuf(ring, k)
    BY <1>3
  <2>2. /\ Contents(u.ring) = Append(Contents(ring), k)
        /\ Len(Contents(ring)) < KEYBUF_SIZE - 1
    BY <1>1, <1>3, <2>1, InsertAppends
  <2> QED
    BY <2>2 DEF Queue!MayGrow
<1> QED
  BY <1>2, <1>3, UpdateOutcome

\* What a promise is in terms of the queue, and that more keys do not break it.
Promise(r, k) == Queue!Ready(Contents(r)) /\ Queue!First(Contents(r)) = k

\* A key that was shown is the first of the ring.
LEMMA PromiseIsFirst ==
  ASSUME NEW r \in Rings, NEW k
  PROVE  Promise(r, k) <=> ~isKeyBufEmpty(r) /\ getKeyBufItem(r).code = k
BY GetDelivers DEF Promise

\* A key that was shown stays the first when others are put behind it.
LEMMA PromiseSurvives ==
  ASSUME NEW r \in Rings, NEW q \in Rings, NEW k,
         Queue!MayGrow(Contents(r), Contents(q)), Promise(r, k)
  PROVE  Promise(q, k)
<1>1. Contents(r) \in Seq(Keys)
  BY ContentsEffect
<1>2. CASE Contents(q) = Contents(r)
  BY <1>2 DEF Promise
<1>3. CASE \E j \in Keys : Contents(q) = Append(Contents(r), j)
  BY <1>1, <1>3, AppendKeepsFirst DEF Promise
<1> QED
  BY <1>2, <1>3 DEF Queue!MayGrow

-----------------------------------------------------------------------------
(***************************************************************************)
(* The invariant.                                                          *)
(***************************************************************************)
KInv == TypeOK /\ PeekIsPromise

\* The ring starts empty and in bounds.
LEMMA InitInv == Init => KInv
<1> SUFFICES ASSUME Init PROVE KInv
  OBVIOUS
<1>1. EmptyRing \in Rings
  BY KeyBufferAssumption DEF EmptyRing, Rings
<1>2. TypeOK
  <2>1. << >> \in Seq(Chars) /\ << >> \in Seq(Keys)
    OBVIOUS
  <2>2. NoKey \in Keys /\ {} \subseteq 1 .. Len(<< >>)
    BY KeyBufferAssumption, KeyboardAssumption
  <2> QED
    BY <1>1, <2>1, <2>2 DEF Init, TypeOK
<1>3. PeekIsPromise
  BY DEF Init, PeekIsPromise
<1> QED
  BY <1>2, <1>3 DEF KInv

\* A step of the ring that is one of the queue's growing steps keeps the promise.
LEMMA GrowthKeepsPromise ==
  ASSUME TypeOK, PeekIsPromise, ring' \in Rings, seen' = seen,
         Queue!MayGrow(Contents(ring), Contents(ring'))
  PROVE  PeekIsPromise'
<1>1. SUFFICES ASSUME seen # NoKey
               PROVE  ~isKeyBufEmpty(ring') /\ getKeyBufItem(ring').code = seen
  BY DEF PeekIsPromise
<1>2. Promise(ring, seen)
  BY <1>1, PromiseIsFirst DEF PeekIsPromise, TypeOK
<1>3. Promise(ring', seen)
  BY <1>2, PromiseSurvives DEF TypeOK
<1> QED
  BY <1>3, PromiseIsFirst

\* A key that arrives keeps the invariant.
LEMMA PressInv == ASSUME KInv, Press PROVE KInv'
<1>1. PICK s \in {<<c>> : c \in Chars} \cup {<<EscChar>> \o t : t \in DOMAIN Special} :
        wire' = wire \o s /\ typed' = typed \o s
  BY DEF Press
<1>2. UNCHANGED <<ring, reading, reply, accepted, taken, written, seen>>
  BY DEF Press
<1>3. s \in Seq(Chars)
  <2>1. ASSUME NEW t \in DOMAIN Special
        PROVE  <<EscChar>> \o t \in Seq(Chars)
    <3>1. t \in Seq(Chars) /\ <<EscChar>> \in Seq(Chars)
      BY KeyboardAssumption
    <3> QED
      BY <3>1, ConcatProperties
  <2>2. ASSUME NEW c \in Chars
        PROVE  <<c>> \in Seq(Chars)
    OBVIOUS
  <2>3. \/ \E c \in Chars : s = <<c>>
        \/ \E t \in DOMAIN Special : s = <<EscChar>> \o t
    BY Zenon
  <2> QED
    BY <2>1, <2>2, <2>3, Zenon
<1>4. TypeOK'
  BY <1>1, <1>2, <1>3 DEF KInv, TypeOK
<1>5. PeekIsPromise'
  BY <1>2 DEF KInv, PeekIsPromise
<1> QED
  BY <1>4, <1>5 DEF KInv

\* The timer that moves keys keeps the invariant.
LEMMA TimerInv == ASSUME KInv, PollFromTimer PROVE KInv'
<1>1. PICK u \in updateKeyInput :
        wire' = u.wire /\ ring' = u.ring /\ accepted' = accepted \o u.new
  BY DEF PollFromTimer
<1>2. UNCHANGED <<reading, reply, typed, taken, written, seen>>
  BY DEF PollFromTimer
<1>3. u.wire \in Seq(Chars) /\ u.new \in Seq(Keys) /\ u.ring \in Rings
  BY UpdateOutcome DEF KInv
<1>4. TypeOK'
  BY <1>1, <1>2, <1>3 DEF KInv, TypeOK
<1>5. Queue!MayGrow(Contents(ring), Contents(ring'))
  BY <1>1, UpdateGrows DEF KInv
<1>6. PeekIsPromise'
  BY <1>1, <1>2, <1>3, <1>5, GrowthKeepsPromise DEF KInv
<1> QED
  BY <1>4, <1>6 DEF KInv

\* A call that waits for a key keeps the invariant.
LEMMA StartReadInv == ASSUME KInv, StartRead PROVE KInv'
<1>1. TypeOK'
  BY DEF KInv, TypeOK, StartRead, history
<1>2. PeekIsPromise'
  BY DEF KInv, PeekIsPromise, StartRead, history
<1> QED
  BY <1>1, <1>2 DEF KInv

\* AH = 00h keeps the invariant.
LEMMA ReadInv == ASSUME KInv, int16_handler_ah00 PROVE KInv'
<1>1. PICK u \in updateKeyInput :
        /\ wire' = u.wire
        /\ accepted' = accepted \o u.new
        /\ IF isKeyBufEmpty(u.ring)
           THEN ring' = u.ring /\ UNCHANGED <<reading, reply, taken, seen>>
           ELSE /\ ring' = getKeyBufItem(u.ring).ring
                /\ taken' = Append(taken, getKeyBufItem(u.ring).code)
                /\ seen' = NoKey
                /\ IF getKeyBufItem(u.ring).code = NoKey
                   THEN UNCHANGED <<reading, reply>>
                   ELSE reading' = FALSE /\ reply' = getKeyBufItem(u.ring).code
  BY DEF int16_handler_ah00
<1>2. UNCHANGED <<typed, written>>
  BY DEF int16_handler_ah00
<1>3. u.wire \in Seq(Chars) /\ u.new \in Seq(Keys) /\ u.ring \in Rings
  BY UpdateOutcome DEF KInv
<1>4. CASE isKeyBufEmpty(u.ring)
  <2>1. ring' = u.ring /\ UNCHANGED <<reading, reply, taken, seen>>
    BY <1>1, <1>4
  <2>2. TypeOK'
    BY <1>1, <1>2, <1>3, <2>1 DEF KInv, TypeOK
  <2>3. Queue!MayGrow(Contents(ring), Contents(ring'))
    BY <2>1, UpdateGrows DEF KInv
  <2>4. PeekIsPromise'
    BY <1>3, <2>1, <2>3, GrowthKeepsPromise DEF KInv
  <2> QED
    BY <2>2, <2>4 DEF KInv
<1>5. CASE ~isKeyBufEmpty(u.ring)
  <2> DEFINE item == getKeyBufItem(u.ring)
  <2>1. item.code \in Keys /\ item.ring \in Rings
    BY <1>3, GetEffect
  <2>2. ring' = item.ring /\ taken' = Append(taken, item.code) /\ seen' = NoKey
    BY <1>1, <1>5
  <2>3. \/ UNCHANGED <<reading, reply>>
        \/ reading' = FALSE /\ reply' = item.code
    BY <1>1, <1>5
  <2> HIDE DEF item
  <2>4. TypeOK'
    <3>1. wire' \in Seq(Chars) /\ accepted' \in Seq(Keys)
      BY <1>1, <1>3 DEF KInv, TypeOK
    <3>2. ring' \in Rings /\ taken' \in Seq(Keys) /\ seen' \in Keys
      BY <2>1, <2>2, KeyBufferAssumption DEF KInv, TypeOK
    <3>3. reading' \in BOOLEAN /\ reply' \in Keys
      BY <2>1, <2>3 DEF KInv, TypeOK
    <3>4. written' \subseteq 1 .. Len(accepted')
      <4>1. Len(accepted') \in Nat /\ Len(accepted') >= Len(accepted) /\ Len(accepted) \in Nat
        BY <1>1, <1>3 DEF KInv, TypeOK
      <4>2. written' = written /\ written \subseteq 1 .. Len(accepted)
        BY <1>2 DEF KInv, TypeOK
      <4> QED
        BY <4>1, <4>2
    <3> QED
      BY <1>2, <3>1, <3>2, <3>3, <3>4 DEF KInv, TypeOK
  <2>5. PeekIsPromise'
    BY <2>2 DEF PeekIsPromise
  <2> QED
    BY <2>4, <2>5 DEF KInv
<1> QED
  BY <1>4, <1>5

\* AH = 01h keeps the invariant.
LEMMA PeekInv == ASSUME KInv, int16_handler_ah01 PROVE KInv'
<1>1. PICK u \in updateKeyInput :
        /\ wire' = u.wire /\ ring' = u.ring /\ accepted' = accepted \o u.new
        /\ reply' = IF isKeyBufEmpty(u.ring) THEN NoKey ELSE getNdKeyBufItem(u.ring)
  BY DEF int16_handler_ah01
<1>2. seen' = reply' /\ UNCHANGED <<reading, typed, taken, written>>
  BY DEF int16_handler_ah01
<1>3. u.wire \in Seq(Chars) /\ u.new \in Seq(Keys) /\ u.ring \in Rings
  BY UpdateOutcome DEF KInv
<1>4. /\ getKeyBufItem(u.ring).code \in Keys
      /\ getNdKeyBufItem(u.ring) = getKeyBufItem(u.ring).code
  BY <1>3, GetEffect
<1>5. TypeOK'
  BY <1>1, <1>2, <1>3, <1>4, KeyBufferAssumption DEF KInv, TypeOK
<1>6. PeekIsPromise'
  BY <1>1, <1>2, <1>4 DEF PeekIsPromise
<1> QED
  BY <1>5, <1>6 DEF KInv

\* AH = 05h keeps the invariant.
LEMMA WriteInv == ASSUME KInv, int16_handler_ah05 PROVE KInv'
<1>1. PICK k \in GuestKeys :
        /\ IF isKeyBufFull(ring)
           THEN UNCHANGED <<ring, accepted, written>>
           ELSE /\ ring' = insertKeyBuf(ring, k)
                /\ accepted' = Append(accepted, k)
                /\ written' = written \cup {Len(accepted')}
        /\ UNCHANGED <<wire, reading, reply, typed, taken, seen>>
  BY DEF int16_handler_ah05
<1>2. k \in Keys
  BY KeyboardAssumption
<1>3. ring \in Rings
  BY DEF KInv, TypeOK
<1>4. CASE isKeyBufFull(ring)
  <2>1. TypeOK'
    BY <1>1, <1>4, KeyboardAssumption DEF KInv, TypeOK
  <2>2. PeekIsPromise'
    BY <1>1, <1>4 DEF KInv, PeekIsPromise
  <2> QED
    BY <2>1, <2>2 DEF KInv
<1>5. CASE ~isKeyBufFull(ring)
  <2>1. ring' = insertKeyBuf(ring, k) /\ accepted' = Append(accepted, k)
    BY <1>1, <1>5
  <2>6. written' \subseteq 1 .. Len(accepted')
    <3>1. Len(accepted) \in Nat /\ Len(accepted') = Len(accepted) + 1
      BY <1>2, <2>1 DEF KInv, TypeOK
    <3>2. written \subseteq 1 .. Len(accepted) /\ written' = written \cup {Len(accepted')}
      BY <1>1, <1>5 DEF KInv, TypeOK
    <3>3. ASSUME NEW n \in written' PROVE n \in 1 .. Len(accepted')
      <4>1. CASE n = Len(accepted')
        BY <3>1, <4>1
      <4>2. CASE n \in 1 .. Len(accepted)
        BY <3>1, <4>2
      <4> QED
        BY <3>2, <4>1, <4>2
    <3> QED
      BY <3>3
  <2>2. ring' \in Rings
    BY <1>2, <1>3, <2>1, InsertEffect
  <2>3. TypeOK'
    BY <1>1, <1>2, <2>1, <2>2, <2>6, KeyboardAssumption DEF KInv, TypeOK
  <2>4. Queue!MayGrow(Contents(ring), Contents(ring'))
    BY <1>2, <1>3, <1>5, <2>1, InsertAppends DEF Queue!MayGrow
  <2>5. PeekIsPromise'
    BY <1>1, <2>2, <2>4, GrowthKeepsPromise DEF KInv
  <2> QED
    BY <2>3, <2>5 DEF KInv
<1> QED
  BY <1>4, <1>5

\* The invariant of the keyboard is inductive.
LEMMA NextInv == KInv /\ [Next]_vars => KInv'
<1> SUFFICES ASSUME KInv, [Next]_vars PROVE KInv'
  OBVIOUS
<1>1. CASE UNCHANGED vars
  BY <1>1 DEF vars, KInv, TypeOK, PeekIsPromise
<1>2. CASE Next
  BY <1>2, PressInv, TimerInv, StartReadInv, ReadInv, PeekInv, WriteInv DEF Next
<1> QED
  BY <1>1, <1>2

\* The invariant of the keyboard holds in every state.
LEMMA Invariant == Spec => []KInv
BY InitInv, NextInv, PTL DEF Spec

-----------------------------------------------------------------------------
(***************************************************************************)
(* The theorems.                                                           *)
(***************************************************************************)

\* Both indices stay in the buffer, and all else has its type.
THEOREM TypeCorrect == Spec => []TypeOK
<1>1. KInv => TypeOK
  BY DEF KInv
<1> QED
  BY <1>1, Invariant, PTL

\* The port and the reader never wait for each other, whatever the size of the
\* ring, from three items on.
THEOREM NeverStuckHolds == Spec => []NeverStuck
<1>1. KInv => NeverStuck
  BY FullIsNotEmpty DEF KInv, TypeOK, NeverStuck
<1> QED
  BY <1>1, Invariant, PTL

\* The key that INT 16h, AH = 01h shows is the one that the next read returns.
THEOREM PeekIsPromiseHolds == Spec => []PeekIsPromise
<1>1. KInv => PeekIsPromise
  BY DEF KInv
<1> QED
  BY <1>1, Invariant, PTL

\* Each step of the keyboard is a step of the queue of keys, or one the queue does
\* not see.
LEMMA StepImplements ==
  ASSUME KInv, [Next]_vars
  PROVE  [Queue!Next]_(Queue!vars)
<1>1. ring \in Rings
  BY DEF KInv, TypeOK
<1>2. Contents(ring) \in Seq(Keys)
  BY <1>1, ContentsEffect
<1>3. CASE UNCHANGED vars
  BY <1>3 DEF vars, Queue!vars
<1>4. CASE Press
  BY <1>4 DEF Press, Queue!vars
<1>5. CASE PollFromTimer
  <2>1. PICK u \in updateKeyInput : ring' = u.ring
    BY <1>5 DEF PollFromTimer
  <2>2. Queue!MayGrow(Contents(ring), Contents(ring'))
    BY <2>1, UpdateGrows DEF KInv
  <2>3. Queue!Arrive
    BY <1>5, <2>2 DEF PollFromTimer, Queue!Arrive
  <2> QED
    BY <2>3 DEF Queue!Next
<1>6. CASE StartRead
  BY <1>6 DEF StartRead, Queue!StartRead, Queue!Next
<1>7. CASE int16_handler_ah00
  <2>1. PICK u \in updateKeyInput :
        IF isKeyBufEmpty(u.ring)
        THEN ring' = u.ring /\ UNCHANGED <<reading, reply, taken, seen>>
        ELSE /\ ring' = getKeyBufItem(u.ring).ring
             /\ taken' = Append(taken, getKeyBufItem(u.ring).code)
             /\ seen' = NoKey
             /\ IF getKeyBufItem(u.ring).code = NoKey
                THEN UNCHANGED <<reading, reply>>
                ELSE reading' = FALSE /\ reply' = getKeyBufItem(u.ring).code
    BY <1>7 DEF int16_handler_ah00
  <2>2. u.ring \in Rings
    BY UpdateOutcome DEF KInv
  <2> DEFINE q == Contents(u.ring)
  <2>3. Queue!MayGrow(Contents(ring), q)
    BY UpdateGrows DEF KInv
  <2>4. CASE isKeyBufEmpty(u.ring)
    <3>1. Queue!Arrive
      BY <2>1, <2>3, <2>4 DEF Queue!Arrive
    <3> QED
      BY <3>1 DEF Queue!Next
  <2>5. CASE ~isKeyBufEmpty(u.ring)
    <3>1. /\ Queue!Ready(q)
          /\ getKeyBufItem(u.ring).code = Queue!First(q)
          /\ Contents(ring') = Queue!Rest(q)
      BY <2>1, <2>2, <2>5, GetDelivers
    <3>2. q \in {Contents(ring)} \cup {Append(Contents(ring), k) : k \in Keys}
      BY <2>3 DEF Queue!MayGrow
    <3>3. reading
      BY <1>7 DEF int16_handler_ah00
    <3> HIDE DEF q
    <3>4. CASE Queue!First(q) = NoKey
      <4>1. UNCHANGED <<reading, reply>>
        BY <2>1, <2>5, <3>1, <3>4
      <4>2. Queue!Swallow
        BY <2>3, <3>1, <3>2, <3>3, <3>4, <4>1 DEF Queue!Swallow
      <4> QED
        BY <4>2 DEF Queue!Next
    <3>5. CASE Queue!First(q) # NoKey
      <4>1. reading' = FALSE /\ reply' = Queue!First(q)
        BY <2>1, <2>5, <3>1, <3>5
      <4>2. Queue!Deliver
        BY <2>3, <3>1, <3>2, <3>3, <3>5, <4>1 DEF Queue!Deliver
      <4> QED
        BY <4>2 DEF Queue!Next
    <3> QED
      BY <3>4, <3>5
  <2> QED
    BY <2>4, <2>5
<1>8. CASE int16_handler_ah01
  <2>1. PICK u \in updateKeyInput :
          /\ ring' = u.ring
          /\ reply' = IF isKeyBufEmpty(u.ring) THEN NoKey ELSE getNdKeyBufItem(u.ring)
    BY <1>8 DEF int16_handler_ah01
  <2>2. u.ring \in Rings
    BY UpdateOutcome DEF KInv
  <2>3. Queue!MayGrow(Contents(ring), Contents(ring'))
    BY <2>1, UpdateGrows DEF KInv
  <2>4. reply' = IF Queue!Ready(Contents(ring')) THEN Queue!First(Contents(ring'))
                                                 ELSE NoKey
    BY <2>1, <2>2, GetDelivers, GetEffect
  <2>5. Queue!Peek
    BY <1>8, <2>3, <2>4 DEF int16_handler_ah01, Queue!Peek
  <2> QED
    BY <2>5 DEF Queue!Next
<1>9. CASE int16_handler_ah05
  <2>1. PICK k \in GuestKeys :
          /\ IF isKeyBufFull(ring)
             THEN UNCHANGED <<ring, accepted>>
             ELSE ring' = insertKeyBuf(ring, k) /\ accepted' = Append(accepted, k)
          /\ UNCHANGED <<reading, reply>>
    BY <1>9 DEF int16_handler_ah05
  <2>2. k \in Keys
    BY KeyboardAssumption
  <2>3. Queue!MayGrow(Contents(ring), Contents(ring'))
    BY <1>1, <2>1, <2>2, InsertAppends DEF Queue!MayGrow
  <2>4. Queue!Arrive
    BY <2>1, <2>3 DEF Queue!Arrive
  <2> QED
    BY <2>4 DEF Queue!Next
<1> QED
  BY <1>3, <1>4, <1>5, <1>6, <1>7, <1>8, <1>9 DEF Next

\* An empty ring is an empty queue.
LEMMA InitImplements == Init => Queue!Init
<1> SUFFICES ASSUME Init PROVE Queue!Init
  OBVIOUS
<1>1. ring \in Rings /\ Held(ring) = 0
  BY KeyBufferAssumption DEF Init, EmptyRing, Rings, Held
<1>2. Contents(ring) = << >>
  BY <1>1, ContentsEffect, EmptySeq
<1> QED
  BY <1>2 DEF Init, Queue!Init

\* The ring, the port and the handlers together are a bounded queue of keys, in
\* which an ESC is the first half of a pair.
THEOREM KeyQueueImplemented == Spec => ImplementsKeyQueue
<1>1. KInv /\ [Next]_vars => [Queue!Next]_(Queue!vars)
  BY StepImplements
<1> QED
  BY <1>1, InitImplements, Invariant, PTL DEF Spec, ImplementsKeyQueue, Queue!Spec

-----------------------------------------------------------------------------
(***************************************************************************)
(* What is computed from a sequence element by element. The recursion is   *)
(* one over the places of the sequence; what is needed of it is proved by  *)
(* induction, stated for sets.                                             *)
(***************************************************************************)

\* Induction over the natural numbers, for a set.
LEMMA SetInduction ==
  ASSUME NEW T, 0 \in T, \A n \in Nat : n \in T => n + 1 \in T
  PROVE  Nat \subseteq T
<1> DEFINE R == OpToRel(<, Nat)
           M == Nat \ T
<1>1. ASSUME M # {} PROVE FALSE
  <2>1. IsWellFoundedOn(R, Nat) /\ M \subseteq Nat
    BY NatLessThanWellFounded
  <2>2. \A x, y \in Nat : x < y => <<x, y>> \in R
    BY DEF OpToRel
  <2> HIDE DEF R, M
  <2>3. PICK x \in M : \A y \in M : ~(<<y, x>> \in R)
    BY <1>1, <2>1, WFMin
  <2>4. x \in Nat /\ x # 0 /\ x \notin T
    BY <2>3 DEF M
  <2>5. x - 1 \in Nat /\ x - 1 < x /\ x = (x - 1) + 1
    BY <2>4
  <2>6. x - 1 \notin M
    BY <2>2, <2>3, <2>4, <2>5
  <2>7. x - 1 \in T
    BY <2>5, <2>6 DEF M
  <2> QED BY <2>4, <2>5, <2>7
<1> QED
  BY <1>1

\* What is computed element by element, from b, with the step G.
Computed(f, S, b, n, G) ==
    /\ f \in [0 .. n -> S] /\ f[0] = b
    /\ \A d \in 1 .. n : f[d] = G[<<f[d - 1], d>>]

\* There is such a function for every length.
LEMMA Recursion ==
  ASSUME NEW S, NEW b \in S, NEW n \in Nat, NEW G \in [S \X (1 .. n) -> S]
  PROVE  \E f : Computed(f, S, b, n, G)
<1> DEFINE T == {k \in Nat : k <= n => \E f : Computed(f, S, b, k, G)}
<1>1. 0 \in T
  <2>1. Computed([d \in 0 .. 0 |-> b], S, b, 0, G)
    BY DEF Computed
  <2> QED
    BY <2>1
<1>2. ASSUME NEW k \in Nat, k \in T PROVE k + 1 \in T
  <2>1. CASE k + 1 <= n
    <3>1. PICK f : Computed(f, S, b, k, G)
      BY <1>2, <2>1
    <3> DEFINE next == G[<<f[k], k + 1>>]
               g == [d \in 0 .. k + 1 |-> IF d = k + 1 THEN next ELSE f[d]]
    <3>2. f[k] \in S /\ k + 1 \in 1 .. n
      BY <2>1, <3>1 DEF Computed
    <3>3. next \in S
      BY <3>2
    <3> HIDE DEF next
    <3>4. g \in [0 .. k + 1 -> S]
      BY <3>1, <3>3 DEF Computed
    <3>5. \A d \in 0 .. k : g[d] = f[d]
      OBVIOUS
    <3>6. g[k + 1] = next
      OBVIOUS
    <3> HIDE DEF g
    <3>7. ASSUME NEW d \in 1 .. k + 1 PROVE g[d] = G[<<g[d - 1], d>>]
      <4>1. d - 1 \in 0 .. k /\ g[d - 1] = f[d - 1]
        BY <3>5
      <4>2. CASE d = k + 1
        BY <3>6, <4>1, <4>2 DEF next
      <4>3. CASE d \in 1 .. k
        BY <3>1, <3>5, <4>1, <4>3 DEF Computed
      <4> QED
        BY <4>2, <4>3
    <3>8. Computed(g, S, b, k + 1, G)
      BY <3>1, <3>4, <3>5, <3>7 DEF Computed
    <3> QED
      BY <3>8
  <2>2. CASE ~(k + 1 <= n)
    BY <2>2
  <2> QED
    BY <2>1, <2>2
<1> HIDE DEF T
<1>3. n \in T
  BY <1>1, <1>2, SetInduction
<1> QED
  BY <1>3 DEF T

\* Two computations start alike, and agree after a step if they did before it.
SameSteps(f, g, n) ==
    f[0] = g[0] /\ \A d \in 1 .. n : f[d - 1] = g[d - 1] => f[d] = g[d]

\* Then they agree at every step.
LEMMA Agreement ==
  ASSUME NEW f, NEW g, NEW n \in Nat, SameSteps(f, g, n)
  PROVE  \A d \in 0 .. n : f[d] = g[d]
<1> USE DEF SameSteps
<1> DEFINE T == {k \in Nat : k <= n => f[k] = g[k]}
<1>1. 0 \in T
  OBVIOUS
<1>2. ASSUME NEW k \in Nat, k \in T PROVE k + 1 \in T
  <2>1. CASE k + 1 <= n
    <3>1. f[k] = g[k] /\ k + 1 \in 1 .. n /\ (k + 1) - 1 = k
      BY <1>2, <2>1
    <3> QED
      BY <3>1
  <2> QED
    BY <2>1
<1> HIDE DEF T
<1>3. Nat \subseteq T
  BY <1>1, <1>2, SetInduction
<1> QED
  BY <1>3 DEF T


-----------------------------------------------------------------------------
(***************************************************************************)
(* Pairs: what the keys of a sequence deliver.                             *)
(***************************************************************************)

PairStates == [half : BOOLEAN, out : Seq(Keys)]
NoPair == [half |-> FALSE, out |-> << >>]

\* The states of the pairing of a sequence of keys, key by key.
Pairing(ks, p) ==
    /\ p \in [0 .. Len(ks) -> PairStates] /\ p[0] = NoPair
    /\ \A d \in 1 .. Len(ks) : p[d] = Pair(p[d - 1], ks[d])

\* A step of the pairing has its type.
LEMMA PairType == ASSUME NEW p \in PairStates, NEW k \in Keys PROVE Pair(p, k) \in PairStates
<1>1. CASE k = Esc /\ ~p.half
  <2>1. Pair(p, k) = [p EXCEPT !.half = TRUE]
    BY <1>1 DEF Pair
  <2> QED
    BY <2>1 DEF PairStates
<1>2. CASE ~(k = Esc /\ ~p.half)
  <2>1. Pair(p, k) = [half |-> FALSE, out |-> Append(p.out, k)]
    BY <1>2 DEF Pair
  <2>2. Append(p.out, k) \in Seq(Keys)
    BY DEF PairStates
  <2> QED
    BY <2>1, <2>2 DEF PairStates
<1> QED
  BY <1>1, <1>2

\* Paired is what there is at the end.
LEMMA PairedIs ==
  ASSUME NEW ks \in Seq(Keys)
  PROVE  \E p : Pairing(ks, p) /\ Paired(ks) = p[Len(ks)]
<1> DEFINE n == Len(ks)
           G == [x \in PairStates \X (1 .. n) |-> Pair(x[1], ks[x[2]])]
           IsPairing(p) == p = [d \in 0 .. n |-> IF d = 0 THEN [half |-> FALSE, out |-> << >>]
                                                 ELSE Pair(p[d - 1], ks[d])]
           c == CHOOSE p : IsPairing(p)
<1>1. n \in Nat /\ \A d \in 1 .. n : ks[d] \in Keys
  OBVIOUS
<1>2. NoPair \in PairStates
  BY DEF NoPair, PairStates
<1>3. G \in [PairStates \X (1 .. n) -> PairStates]
  BY <1>1, PairType
<1> HIDE DEF G, n
<1>4. PICK f : Computed(f, PairStates, NoPair, n, G)
  BY <1>1, <1>2, <1>3, Recursion
<1>5. ASSUME NEW d \in 1 .. n PROVE f[d] = Pair(f[d - 1], ks[d])
  <2>1. f[d - 1] \in PairStates /\ f[d] = G[<<f[d - 1], d>>]
    BY <1>1, <1>4 DEF Computed
  <2> QED
    BY <2>1 DEF G
<1>6. f \in [0 .. n -> PairStates] /\ f[0] = NoPair
  BY <1>4 DEF Computed
<1>7. Pairing(ks, f)
  BY <1>5, <1>6 DEF Pairing, n
<1>8. IsPairing(f)
  BY <1>1, <1>5, <1>6 DEF NoPair
<1>9. IsPairing(c)
  BY <1>8
<1>10. Paired(ks) = c[n]
  BY DEF Paired, n
<1> HIDE DEF c
<1>11. c[0] = f[0] /\ \A d \in 1 .. n : c[d] = Pair(c[d - 1], ks[d])
  <2>1. \A d \in 0 .. n : c[d] = IF d = 0 THEN NoPair ELSE Pair(c[d - 1], ks[d])
    BY <1>9, Zenon DEF NoPair
  <2> QED
    BY <1>1, <1>6, <2>1
<1>12. \A d \in 0 .. n : c[d] = f[d]
  <2>1. \A d \in 1 .. n : c[d - 1] = f[d - 1] => c[d] = f[d]
    BY <1>5, <1>11
  <2> QED
    BY <1>1, <1>11, <2>1, Agreement DEF SameSteps
<1> QED
  BY <1>1, <1>7, <1>10, <1>12 DEF n

\* Without keys nothing has been delivered and nothing kept back.
LEMMA PairedEmpty == Paired(<< >>) = NoPair
<1>1. << >> \in Seq(Keys) /\ Len(<< >>) = 0
  OBVIOUS
<1> QED
  BY <1>1, PairedIs DEF Pairing

\* One more key is one more step of the pairing.
LEMMA PairedAppend ==
  ASSUME NEW ks \in Seq(Keys), NEW k \in Keys
  PROVE  Paired(Append(ks, k)) = Pair(Paired(ks), k)
<1> DEFINE kt == Append(ks, k)
           n == Len(ks)
<1>1. kt \in Seq(Keys) /\ Len(kt) = n + 1 /\ n \in Nat /\ kt[n + 1] = k /\ \A d \in 1 .. n : kt[d] = ks[d]
  OBVIOUS
<1>2. PICK p : Pairing(ks, p) /\ Paired(ks) = p[Len(ks)]
  BY PairedIs
<1> HIDE DEF kt, n
<1>3. PICK q : Pairing(kt, q) /\ Paired(kt) = q[Len(kt)]
  BY <1>1, PairedIs
<1>4. q[0] = p[0]
  BY <1>2, <1>3 DEF Pairing
<1>5. ASSUME NEW d \in 1 .. n, q[d - 1] = p[d - 1] PROVE q[d] = p[d]
  <2>1. p[d] = Pair(p[d - 1], ks[d])
    BY <1>2 DEF Pairing, n
  <2>2. q[d] = Pair(q[d - 1], kt[d])
    BY <1>1, <1>3 DEF Pairing
  <2> QED
    BY <1>1, <1>5, <2>1, <2>2
<1>6. q[n] = p[n]
  <2>1. \A d \in 0 .. n : q[d] = p[d]
    BY <1>1, <1>4, <1>5, Agreement DEF SameSteps
  <2> QED
    BY <1>1, <2>1
<1>7. q[n + 1] = Pair(q[n], k)
  <2>1. n + 1 \in 1 .. Len(kt) /\ (n + 1) - 1 = n
    BY <1>1
  <2>2. q[n + 1] = Pair(q[(n + 1) - 1], kt[n + 1])
    BY <1>3, <2>1 DEF Pairing
  <2> QED
    BY <1>1, <2>1, <2>2
<1> QED
  BY <1>1, <1>2, <1>3, <1>6, <1>7 DEF n, kt

\* The state of a pairing has its type.
LEMMA PairedType == ASSUME NEW ks \in Seq(Keys) PROVE Paired(ks) \in PairStates
<1>1. PICK p : Pairing(ks, p) /\ Paired(ks) = p[Len(ks)]
  BY PairedIs
<1> QED
  BY <1>1 DEF Pairing

\* One more element behind two sequences.
LEMMA AppendBehind ==
  ASSUME NEW s \in Seq(Keys), NEW t \in Seq(Keys), NEW e \in Keys
  PROVE  Append(s \o t, e) = s \o Append(t, e)
<1>1. s \o t \in Seq(Keys) /\ <<e>> \in Seq(Keys)
  BY ConcatProperties
<1>2. Append(s \o t, e) = (s \o t) \o <<e>> /\ Append(t, e) = t \o <<e>>
  BY <1>1, AppendIsConcat
<1> QED
  BY <1>1, <1>2, ConcatAssociative

\* A pairing behind keys that have been delivered before.
InFront(t, p) == [half |-> p.half, out |-> t \o p.out]

\* What has been delivered before stays in front.
LEMMA PairBehind ==
  ASSUME NEW p \in PairStates, NEW t \in Seq(Keys), NEW e \in Keys
  PROVE  Pair(InFront(t, p), e) = InFront(t, Pair(p, e))
<1>1. p.out \in Seq(Keys) /\ p.half \in BOOLEAN
  BY DEF PairStates
<1>2. InFront(t, p).half = p.half /\ InFront(t, p).out = t \o p.out
  BY DEF InFront
<1>3. CASE e = Esc /\ ~p.half
  <2>1. Pair(p, e) = [half |-> TRUE, out |-> p.out]
    BY <1>3 DEF Pair, PairStates
  <2>2. Pair(InFront(t, p), e) = [half |-> TRUE, out |-> t \o p.out]
    BY <1>2, <1>3 DEF Pair, InFront
  <2> QED
    BY <2>1, <2>2 DEF InFront
<1>4. CASE ~(e = Esc /\ ~p.half)
  <2>1. Pair(p, e) = [half |-> FALSE, out |-> Append(p.out, e)]
    BY <1>4 DEF Pair
  <2>2. Pair(InFront(t, p), e) = [half |-> FALSE, out |-> Append(t \o p.out, e)]
    BY <1>2, <1>4 DEF Pair
  <2>3. Append(t \o p.out, e) = t \o Append(p.out, e)
    BY <1>1, AppendBehind, Zenon
  <2>4. InFront(t, Pair(p, e)) = [half |-> FALSE, out |-> t \o Append(p.out, e)]
    BY <2>1 DEF InFront
  <2> QED
    BY <2>2, <2>3, <2>4, Zenon
<1> QED
  BY <1>3, <1>4

\* Of the keys ks, the first h are k or a pair of which k is delivered, and r is
\* the rest.
Splits(ks, h, k, r) ==
    /\ Len(ks) = Len(r) + h /\ \A d \in 1 .. Len(r) : ks[d + h] = r[d]
    /\ h = 1 => ks[1] = k /\ k # Esc
    /\ h = 2 => ks[1] = Esc /\ ks[2] = k

\* What such keys deliver first, and that the rest is paired as it is by itself.
LEMMA PairedFront ==
  ASSUME NEW ks \in Seq(Keys), NEW r \in Seq(Keys), NEW k \in Keys, NEW h \in {1, 2},
         Splits(ks, h, k, r)
  PROVE  Paired(ks) = InFront(<<k>>, Paired(r))
<1> DEFINE n == Len(r)
<1>1. n \in Nat /\ Len(ks) = n + h /\ h \in Nat /\ \A d \in 1 .. n : r[d] \in Keys /\ ks[d + h] = r[d]
  BY DEF Splits
<1> HIDE DEF n
<1>2. PICK p : Pairing(ks, p) /\ Paired(ks) = p[n + h]
  BY <1>1, PairedIs
<1>3. PICK q : Pairing(r, q) /\ Paired(r) = q[n]
  BY PairedIs DEF n
<1>4. /\ p[0] = NoPair /\ \A d \in 1 .. n + h : p[d] = Pair(p[d - 1], ks[d])
      /\ q[0] = NoPair /\ \A d \in 1 .. n : q[d] = Pair(q[d - 1], r[d])
      /\ q \in [0 .. n -> PairStates]
  BY <1>1, <1>2, <1>3 DEF Pairing, n
<1>5. p[h] = InFront(<<k>>, NoPair)
  <2>1. InFront(<<k>>, NoPair) = [half |-> FALSE, out |-> <<k>>]
    BY DEF InFront, NoPair
  <2>2. Append(<< >>, k) = <<k>>
    OBVIOUS
  <2>3. CASE h = 1
    <3>1. p[1] = Pair(p[0], ks[1])
      <4>1. 1 \in 1 .. n + h /\ 1 - 1 = 0
        BY <1>1
      <4> QED
        BY <1>4, <4>1
    <3>2. Pair(NoPair, k) = [half |-> FALSE, out |-> <<k>>]
      BY <2>2, <2>3 DEF Pair, NoPair, Splits
    <3> QED
      BY <1>4, <2>1, <2>3, <3>1, <3>2 DEF Splits
  <2>4. CASE h = 2
    <3>1. p[1] = Pair(p[0], Esc) /\ p[2] = Pair(p[1], k)
      <4>1. 1 \in 1 .. n + h /\ 1 - 1 = 0 /\ 2 \in 1 .. n + h /\ 2 - 1 = 1
        BY <1>1, <2>4
      <4> QED
        BY <1>4, <2>4, <4>1 DEF Splits
    <3>2. Pair(NoPair, Esc) = [half |-> TRUE, out |-> << >>]
      BY DEF Pair, NoPair
    <3>3. Pair([half |-> TRUE, out |-> << >>], k) = [half |-> FALSE, out |-> <<k>>]
      BY <2>2 DEF Pair
    <3> QED
      BY <1>4, <2>1, <2>4, <3>1, <3>2, <3>3
  <2> QED
    BY <2>3, <2>4
<1>6. PICK f : f = [d \in 0 .. n |-> p[d + h]]
  OBVIOUS
<1>7. PICK g : g = [d \in 0 .. n |-> InFront(<<k>>, q[d])]
  OBVIOUS
<1>8. f[0] = g[0] /\ f[n] = p[n + h] /\ g[n] = InFront(<<k>>, q[n])
  BY <1>1, <1>4, <1>5, <1>6, <1>7
<1>9. ASSUME NEW d \in 1 .. n, f[d - 1] = g[d - 1] PROVE f[d] = g[d]
  <2>1. d - 1 \in 0 .. n /\ d \in 0 .. n /\ d + h \in 1 .. n + h /\ (d - 1) + h = (d + h) - 1
    BY <1>1
  <2>2. p[(d + h) - 1] = InFront(<<k>>, q[d - 1])
    BY <1>6, <1>7, <1>9, <2>1
  <2>3. p[d + h] = Pair(p[(d + h) - 1], r[d]) /\ q[d] = Pair(q[d - 1], r[d])
    BY <1>1, <1>4, <2>1
  <2>4. q[d - 1] \in PairStates /\ r[d] \in Keys
    BY <1>1, <1>4, <2>1
  <2>5. p[d + h] = InFront(<<k>>, q[d])
    <3>1. <<k>> \in Seq(Keys)
      OBVIOUS
    <3> QED
      BY <2>2, <2>3, <2>4, <3>1, PairBehind
  <2> QED
    BY <1>6, <1>7, <2>1, <2>5
<1>10. SameSteps(f, g, n)
  BY <1>8, <1>9 DEF SameSteps
<1>11. f[n] = g[n]
  BY <1>1, <1>10, Agreement
<1> QED
  BY <1>2, <1>3, <1>8, <1>11

\* What is left of a sequence when its first element is taken.
LEMMA TailIs ==
  ASSUME NEW S, NEW s \in Seq(S), Len(s) > 0
  PROVE  /\ Tail(s) \in Seq(S) /\ Len(Tail(s)) \in Nat /\ Len(s) = Len(Tail(s)) + 1
         /\ \A d \in 1 .. Len(Tail(s)) : Tail(s)[d] = s[d + 1]
OBVIOUS

\* A key that is ready goes out first, and the rest is paired as it is by itself.
LEMMA PairedDelivers ==
  ASSUME NEW q \in Seq(Keys), Queue!Ready(q)
  PROVE  /\ Queue!First(q) \in Keys /\ Queue!Rest(q) \in Seq(Keys)
         /\ Paired(q) = InFront(<<Queue!First(q)>>, Paired(Queue!Rest(q)))
<1>1. /\ Len(q) \in Nat /\ Len(q) > 0 /\ (q[1] = Esc => Len(q) > 1) /\ Head(q) = q[1]
      /\ \A d \in 1 .. Len(q) : q[d] \in Keys
  BY DEF Queue!Ready
<1> DEFINE t == Tail(q)
<1>2. /\ t \in Seq(Keys) /\ Len(t) \in Nat /\ Len(q) = Len(t) + 1
      /\ \A d \in 1 .. Len(t) : t[d] = q[d + 1]
  BY <1>1, TailIs
<1> HIDE DEF t
<1>3. CASE q[1] # Esc
  <2>1. Queue!First(q) = q[1] /\ Queue!Rest(q) = t
    BY <1>1, <1>3 DEF Queue!First, Queue!Rest, t
  <2>2. q[1] \in Keys
    BY <1>1
  <2>3. Paired(q) = InFront(<<q[1]>>, Paired(t))
    BY <1>2, <1>3, <2>2, PairedFront DEF Splits
  <2> QED
    BY <1>2, <2>1, <2>2, <2>3
<1>4. CASE q[1] = Esc
  <2> DEFINE u == Tail(t)
  <2>1. Queue!First(q) = q[2] /\ Queue!Rest(q) = u
    BY <1>1, <1>4 DEF Queue!First, Queue!Rest, t
  <2>2. /\ u \in Seq(Keys) /\ Len(u) \in Nat /\ Len(t) = Len(u) + 1
        /\ \A d \in 1 .. Len(u) : u[d] = t[d + 1]
    <3>1. Len(t) > 0
      BY <1>1, <1>2, <1>4
    <3> QED
      BY <1>2, <3>1, TailIs
  <2> HIDE DEF u
  <2>3. q[2] \in Keys
    BY <1>1, <1>4
  <2>4. Len(q) = Len(u) + 2 /\ \A d \in 1 .. Len(u) : q[d + 2] = u[d]
    BY <1>2, <2>2
  <2>5. Paired(q) = InFront(<<q[2]>>, Paired(u))
    BY <1>4, <2>2, <2>3, <2>4, PairedFront DEF Splits
  <2> QED
    BY <2>1, <2>2, <2>3, <2>5
<1> QED
  BY <1>3, <1>4

-----------------------------------------------------------------------------
(***************************************************************************)
(* The keys that came from the port.                                       *)
(***************************************************************************)

\* The keys of the port, place by place.
Porting(ks, own, f) ==
    /\ f \in [0 .. Len(ks) -> Seq(Keys)] /\ f[0] = << >>
    /\ \A d \in 1 .. Len(ks) :
          f[d] = IF d \in own THEN f[d - 1] ELSE Append(f[d - 1], ks[d])

\* FromPort is what there is at the end.
LEMMA FromPortIs ==
  ASSUME NEW ks \in Seq(Keys), NEW own
  PROVE  \E f : Porting(ks, own, f) /\ FromPort(ks, own) = f[Len(ks)]
<1> DEFINE n == Len(ks)
           G == [x \in Seq(Keys) \X (1 .. n) |->
                   IF x[2] \in own THEN x[1] ELSE Append(x[1], ks[x[2]])]
           IsPorting(f) == f = [d \in 0 .. n |-> IF d = 0 THEN << >>
                                                 ELSE IF d \in own THEN f[d - 1]
                                                 ELSE Append(f[d - 1], ks[d])]
           c == CHOOSE f : IsPorting(f)
<1>1. n \in Nat /\ \A d \in 1 .. n : ks[d] \in Keys
  OBVIOUS
<1>2. << >> \in Seq(Keys)
  OBVIOUS
<1>3. G \in [Seq(Keys) \X (1 .. n) -> Seq(Keys)]
  BY <1>1
<1> HIDE DEF G, n
<1>4. PICK f : Computed(f, Seq(Keys), << >>, n, G)
  BY <1>1, <1>2, <1>3, Recursion
<1>5. ASSUME NEW d \in 1 .. n PROVE f[d] = IF d \in own THEN f[d - 1] ELSE Append(f[d - 1], ks[d])
  <2>1. f[d - 1] \in Seq(Keys) /\ f[d] = G[<<f[d - 1], d>>]
    BY <1>1, <1>4 DEF Computed
  <2> QED
    BY <2>1 DEF G
<1>6. f \in [0 .. n -> Seq(Keys)] /\ f[0] = << >>
  BY <1>4 DEF Computed
<1>7. Porting(ks, own, f)
  BY <1>5, <1>6 DEF Porting, n
<1>8. IsPorting(f)
  <2>1. ASSUME NEW d \in 0 .. n
        PROVE  f[d] = IF d = 0 THEN << >> ELSE IF d \in own THEN f[d - 1] ELSE Append(f[d - 1], ks[d])
    <3>1. d = 0 \/ d \in 1 .. n
      BY <1>1
    <3> QED
      BY <1>5, <1>6, <3>1
  <2>2. f = [d \in 0 .. n |-> f[d]]
    BY <1>6
  <2> QED
    BY <2>1, <2>2, Zenon
<1>9. IsPorting(c)
  BY <1>8
<1>10. FromPort(ks, own) = c[n]
  BY DEF FromPort, n
<1> HIDE DEF c
<1>11. c[0] = f[0] /\ \A d \in 1 .. n : c[d] = IF d \in own THEN c[d - 1] ELSE Append(c[d - 1], ks[d])
  <2>1. \A d \in 0 .. n : c[d] = IF d = 0 THEN << >> ELSE IF d \in own THEN c[d - 1] ELSE Append(c[d - 1], ks[d])
    BY <1>9, Zenon
  <2> QED
    BY <1>1, <1>6, <2>1
<1>12. SameSteps(c, f, n)
  <2>1. \A d \in 1 .. n : c[d - 1] = f[d - 1] => c[d] = f[d]
    BY <1>5, <1>11
  <2> QED
    BY <1>11, <2>1 DEF SameSteps
<1>13. c[n] = f[n]
  BY <1>1, <1>12, Agreement
<1> QED
  BY <1>7, <1>10, <1>13 DEF n

\* Nothing has come from the port at first.
LEMMA FromPortEmpty == FromPort(<< >>, {}) = << >>
<1>1. << >> \in Seq(Keys) /\ Len(<< >>) = 0
  OBVIOUS
<1> QED
  BY <1>1, FromPortIs DEF Porting

\* What came from the port are keys.
LEMMA FromPortType == ASSUME NEW ks \in Seq(Keys), NEW own PROVE FromPort(ks, own) \in Seq(Keys)
<1>1. PICK f : Porting(ks, own, f) /\ FromPort(ks, own) = f[Len(ks)]
  BY FromPortIs
<1> QED
  BY <1>1 DEF Porting

\* A key more, at a place of its own.
LEMMA FromPortAppend ==
  ASSUME NEW ks \in Seq(Keys), NEW k \in Keys, NEW own, own \subseteq 1 .. Len(ks)
  PROVE  /\ FromPort(Append(ks, k), own) = Append(FromPort(ks, own), k)
         /\ FromPort(Append(ks, k), own \cup {Len(ks) + 1}) = FromPort(ks, own)
<1> DEFINE kt == Append(ks, k)
           n == Len(ks)
<1>1. kt \in Seq(Keys) /\ Len(kt) = n + 1 /\ n \in Nat /\ kt[n + 1] = k /\ \A d \in 1 .. n : kt[d] = ks[d]
  OBVIOUS
<1>2. PICK f : Porting(ks, own, f) /\ FromPort(ks, own) = f[Len(ks)]
  BY FromPortIs
<1>3. own \subseteq 1 .. n /\ Len(ks) = n
  OBVIOUS
<1> HIDE DEF kt, n
<1>4. ASSUME NEW o, o \in {own, own \cup {n + 1}}
      PROVE  FromPort(kt, o) = IF n + 1 \in o THEN FromPort(ks, own) ELSE Append(FromPort(ks, own), k)
  <2>1. PICK g : Porting(kt, o, g) /\ FromPort(kt, o) = g[Len(kt)]
    BY <1>1, FromPortIs
  <2>2. ASSUME NEW d \in 1 .. n, g[d - 1] = f[d - 1] PROVE g[d] = f[d]
    <3>1. f[d] = IF d \in own THEN f[d - 1] ELSE Append(f[d - 1], ks[d])
      BY <1>2, <1>3 DEF Porting
    <3>2. g[d] = IF d \in o THEN g[d - 1] ELSE Append(g[d - 1], kt[d])
      BY <1>1, <2>1 DEF Porting
    <3>3. d # n + 1
      BY <1>1
    <3>4. d \in o <=> d \in own
      BY <1>4, <3>3
    <3> QED
      BY <1>1, <2>2, <3>1, <3>2, <3>4
  <2>3. SameSteps(g, f, n)
    BY <1>2, <2>1, <2>2 DEF SameSteps, Porting
  <2>4. g[n] = f[n]
    BY <1>1, <2>3, Agreement
  <2>5. n + 1 \in 1 .. Len(kt) /\ (n + 1) - 1 = n
    BY <1>1
  <2>6. g[n + 1] = IF n + 1 \in o THEN g[n] ELSE Append(g[n], k)
    BY <1>1, <2>1, <2>5 DEF Porting
  <2> QED
    BY <1>1, <1>2, <1>3, <2>1, <2>4, <2>6
<1>5. n + 1 \notin own
  BY <1>1, <1>3
<1> QED
  BY <1>3, <1>4, <1>5 DEF kt

-----------------------------------------------------------------------------
(***************************************************************************)
(* What is typed, from the port to the guest. The keys accepted are paired *)
(* into those taken and what the ring holds, with the half of a pair that  *)
(* is kept back; what came from the port and what waits there is what was  *)
(* typed.                                                                  *)
(***************************************************************************)

\* What a call of updateKeyInput reads and inserts: nothing; or, where the ring has
\* room, what stands first at the port, as one key or as none.
Read(u) ==
    /\ wire # << >> /\ ~isKeyBufFull(ring)
    /\ \E n \in 1 .. Len(wire) : u.wire = SubSeq(wire, n + 1, Len(wire))
    /\ \/ u.new = << >> /\ u.ring = ring
       \/ \E k \in Keys : u.new = <<k>> /\ u.ring = insertKeyBuf(ring, k)
    /\ wire[1] # EscChar =>
          /\ u.wire = Tail(wire)
          /\ wire[1] \in Chars /\ u.new = <<Plain[wire[1]]>>

\* Every call of updateKeyInput does one or the other.
LEMMA UpdateReads ==
  ASSUME TypeOK, NEW u \in updateKeyInput
  PROVE  (u.wire = wire /\ u.new = << >> /\ u.ring = ring) \/ Read(u)
<1>1. wire \in Seq(Chars) /\ Len(wire) \in Nat
  BY DEF TypeOK
<1>2. CASE wire = << >> \/ isKeyBufFull(ring)
  <2>1. u = Consume(0, << >>)
    BY <1>2 DEF updateKeyInput
  <2>2. u.wire = SubSeq(wire, 1, Len(wire)) /\ u.ring = ring /\ u.new = << >>
    BY <2>1 DEF Consume
  <2>3. SubSeq(wire, 1, Len(wire)) = wire
    BY <1>1
  <2> QED
    BY <2>2, <2>3
<1>3. CASE wire # << >> /\ ~isKeyBufFull(ring) /\ Head(wire) = EscChar
  <2>1. u \in EscapeSequence
    BY <1>3 DEF updateKeyInput
  <2>2. PICK n \in 1 .. Len(wire) :
          LET s == SubSeq(wire, 2, n)
          IN  u = Consume(n, IF s = << >> THEN <<Esc>>
                             ELSE IF s \in DOMAIN Special THEN <<Special[s]>> ELSE << >>)
    BY <2>1 DEF EscapeSequence
  <2> DEFINE s == SubSeq(wire, 2, n)
             ks == IF s = << >> THEN <<Esc>>
                   ELSE IF s \in DOMAIN Special THEN <<Special[s]>> ELSE << >>
  <2>3. u = Consume(n, ks)
    BY <2>2
  <2>4. ks = << >> \/ \E k \in Keys : ks = <<k>>
    BY KeyBufferAssumption, KeyboardAssumption
  <2> HIDE DEF ks
  <2>5. /\ u.wire = SubSeq(wire, n + 1, Len(wire)) /\ u.new = ks
        /\ u.ring = IF ks = << >> THEN ring ELSE insertKeyBuf(ring, ks[1])
    BY <2>3 DEF Consume
  <2>6. \/ u.new = << >> /\ u.ring = ring
        \/ \E k \in Keys : u.new = <<k>> /\ u.ring = insertKeyBuf(ring, k)
    <3>1. CASE ks = << >>
      BY <2>5, <3>1
    <3>2. ASSUME NEW k \in Keys, ks = <<k>>
          PROVE  u.new = <<k>> /\ u.ring = insertKeyBuf(ring, k)
      BY <2>5, <3>2
    <3> QED
      BY <2>4, <3>1, <3>2
  <2>7. wire[1] = EscChar
    BY <1>1, <1>3
  <2> QED
    BY <1>3, <2>5, <2>6, <2>7 DEF Read
<1>4. CASE wire # << >> /\ ~isKeyBufFull(ring) /\ Head(wire) # EscChar
  <2> DEFINE k == Plain[Head(wire)]
  <2>1. u = Consume(1, <<k>>)
    BY <1>4 DEF updateKeyInput
  <2>2. Head(wire) = wire[1] /\ wire[1] \in Chars /\ 1 \in 1 .. Len(wire)
    BY <1>1, <1>4, EmptySeq
  <2>3. k \in Keys
    BY <2>2, KeyboardAssumption
  <2>4. k = Plain[wire[1]]
    BY <2>2
  <2> HIDE DEF k
  <2>5. /\ u.wire = SubSeq(wire, 1 + 1, Len(wire)) /\ u.new = <<k>>
        /\ u.ring = insertKeyBuf(ring, k)
    BY <2>1 DEF Consume
  <2>6. SubSeq(wire, 1 + 1, Len(wire)) = Tail(wire)
    BY <1>1, <1>4
  <2> QED
    BY <1>4, <2>2, <2>3, <2>4, <2>5, <2>6 DEF Read
<1> QED
  BY <1>2, <1>3, <1>4


\* The codes of characters.
CodesOf(w) == [i \in DOMAIN w |-> Plain[w[i]]]

\* They are keys, one for each character.
LEMMA CodesType ==
  ASSUME NEW w \in Seq(Chars)
  PROVE  /\ CodesOf(w) \in Seq(Keys) /\ Len(CodesOf(w)) = Len(w)
         /\ \A i \in 1 .. Len(w) : CodesOf(w)[i] = Plain[w[i]]
<1>1. \A i \in 1 .. Len(w) : w[i] \in Chars
  OBVIOUS
<1> QED
  BY <1>1, KeyboardAssumption DEF CodesOf

\* The codes of what is typed later come later.
LEMMA CodesConcat ==
  ASSUME NEW v \in Seq(Chars), NEW w \in Seq(Chars)
  PROVE  CodesOf(v \o w) = CodesOf(v) \o CodesOf(w)
<1> DEFINE a == CodesOf(v \o w)
           b == CodesOf(v) \o CodesOf(w)
<1>1. /\ v \o w \in Seq(Chars) /\ Len(v \o w) = Len(v) + Len(w)
      /\ \A i \in 1 .. Len(v) + Len(w) :
            (v \o w)[i] = IF i <= Len(v) THEN v[i] ELSE w[i - Len(v)]
  BY ConcatProperties
<1>2. /\ a \in Seq(Keys) /\ Len(a) = Len(v) + Len(w)
      /\ \A i \in 1 .. Len(v) + Len(w) : a[i] = Plain[(v \o w)[i]]
  BY <1>1, CodesType
<1>3. /\ CodesOf(v) \in Seq(Keys) /\ Len(CodesOf(v)) = Len(v)
      /\ \A i \in 1 .. Len(v) : CodesOf(v)[i] = Plain[v[i]]
  BY CodesType
<1>4. /\ CodesOf(w) \in Seq(Keys) /\ Len(CodesOf(w)) = Len(w)
      /\ \A i \in 1 .. Len(w) : CodesOf(w)[i] = Plain[w[i]]
  BY CodesType
<1>5. /\ b \in Seq(Keys) /\ Len(b) = Len(v) + Len(w)
      /\ \A i \in 1 .. Len(v) + Len(w) :
            b[i] = IF i <= Len(v) THEN CodesOf(v)[i] ELSE CodesOf(w)[i - Len(v)]
  <2>1. /\ b \in Seq(Keys) /\ Len(b) = Len(CodesOf(v)) + Len(CodesOf(w))
        /\ \A i \in 1 .. Len(CodesOf(v)) + Len(CodesOf(w)) :
              b[i] = IF i <= Len(CodesOf(v)) THEN CodesOf(v)[i] ELSE CodesOf(w)[i - Len(CodesOf(v))]
    BY <1>3, <1>4, ConcatProperties
  <2> QED
    BY <1>3, <1>4, <2>1
<1> HIDE DEF a, b
<1>6. Len(v) \in Nat /\ Len(w) \in Nat
  OBVIOUS
<1>7. ASSUME NEW i \in 1 .. Len(v) + Len(w) PROVE a[i] = b[i]
  <2>1. CASE i <= Len(v)
    <3>1. i \in 1 .. Len(v)
      BY <1>6, <2>1
    <3> QED
      BY <1>1, <1>2, <1>3, <1>5, <2>1, <3>1
  <2>2. CASE ~(i <= Len(v))
    <3>1. i - Len(v) \in 1 .. Len(w)
      BY <1>6, <2>2
    <3> QED
      BY <1>1, <1>2, <1>4, <1>5, <2>2, <3>1
  <2> QED
    BY <2>1, <2>2
<1>8. a = b
  BY <1>2, <1>5, <1>7, SeqEqual
<1> QED
  BY <1>8 DEF a, b

\* The code of the first character comes first.
LEMMA CodesFirst ==
  ASSUME NEW w \in Seq(Chars), w # << >>
  PROVE  CodesOf(w) = <<Plain[w[1]]>> \o CodesOf(Tail(w))
<1>1. w[1] \in Chars /\ <<w[1]>> \in Seq(Chars) /\ Tail(w) \in Seq(Chars)
  BY EmptySeq
<1>2. w = <<w[1]>> \o Tail(w)
  BY EmptySeq
<1>3. CodesOf(w) = CodesOf(<<w[1]>>) \o CodesOf(Tail(w))
  BY <1>1, <1>2, CodesConcat
<1>4. CodesOf(<<w[1]>>) = <<Plain[w[1]]>>
  BY <1>1 DEF CodesOf
<1> QED
  BY <1>3, <1>4

\* What is at the port was typed; it and what came from the port are all of it.
WireInv ==
    /\ ToSet(wire) \subseteq ToSet(typed)
    /\ EscChar \notin ToSet(typed) =>
          FromPort(accepted, written) \o CodesOf(wire) = CodesOf(typed)

\* The keys inserted are paired into those taken, and what the ring holds.
RingInv == Paired(accepted) = InFront(taken, Paired(Contents(ring)))

TypingInv == WireInv /\ RingInv

\* Nothing has been typed at the start.
LEMMA TypingInit == Init => TypingInv
<1> SUFFICES ASSUME Init PROVE TypingInv
  OBVIOUS
<1>1. ring \in Rings /\ Held(ring) = 0
  BY KeyBufferAssumption DEF Init, EmptyRing, Rings, Held
<1>2. Contents(ring) = << >>
  BY <1>1, ContentsEffect, EmptySeq
<1>3. RingInv
  <2>1. InFront(<< >>, NoPair) = NoPair
    BY DEF InFront, NoPair
  <2> QED
    BY <1>2, <2>1, PairedEmpty DEF Init, RingInv
<1>4. WireInv
  <2>1. wire = << >> /\ typed = << >> /\ FromPort(accepted, written) = << >>
    BY FromPortEmpty DEF Init
  <2>2. CodesOf(<< >>) = << >> /\ << >> \o << >> = << >>
    BY DEF CodesOf
  <2> QED
    BY <2>1, <2>2 DEF WireInv
<1> QED
  BY <1>3, <1>4 DEF TypingInv

\* A key put into the ring is one more of those accepted.
LEMMA InsertKeepsRing ==
  ASSUME TypeOK, RingInv, ~isKeyBufFull(ring), NEW k \in Keys, NEW r, r = insertKeyBuf(ring, k)
  PROVE  /\ Paired(Append(accepted, k)) = InFront(taken, Paired(Contents(r)))
         /\ r \in Rings
<1>1. ring \in Rings /\ accepted \in Seq(Keys) /\ taken \in Seq(Keys) /\ Contents(ring) \in Seq(Keys)
  BY ContentsEffect DEF TypeOK
<1>2. Contents(r) = Append(Contents(ring), k) /\ r \in Rings
  BY <1>1, InsertAppends, InsertEffect
<1>3. Paired(Contents(r)) = Pair(Paired(Contents(ring)), k)
  BY <1>1, <1>2, PairedAppend
<1>4. Paired(Append(accepted, k)) = Pair(InFront(taken, Paired(Contents(ring))), k)
  BY <1>1, PairedAppend DEF RingInv
<1>5. Paired(Contents(ring)) \in PairStates
  BY <1>1, PairedType
<1> QED
  BY <1>1, <1>2, <1>3, <1>4, <1>5, PairBehind

\* Reading the port keeps what is known of the ring, before a key is taken.
LEMMA UpdateKeepsRing ==
  ASSUME TypeOK, RingInv, NEW u \in updateKeyInput
  PROVE  Paired(accepted \o u.new) = InFront(taken, Paired(Contents(u.ring)))
<1>1. accepted \in Seq(Keys)
  BY DEF TypeOK
<1>2. \/ u.new = << >> /\ u.ring = ring
      \/ ~isKeyBufFull(ring) /\ \E k \in Keys : u.new = <<k>> /\ u.ring = insertKeyBuf(ring, k)
  BY UpdateReads DEF Read
<1>3. CASE u.new = << >> /\ u.ring = ring
  <2>1. accepted \o u.new = accepted
    BY <1>1, <1>3
  <2> QED
    BY <1>3, <2>1 DEF RingInv
<1>4. ASSUME ~isKeyBufFull(ring), NEW k \in Keys, u.new = <<k>>, u.ring = insertKeyBuf(ring, k)
      PROVE  Paired(accepted \o u.new) = InFront(taken, Paired(Contents(u.ring)))
  <2>1. accepted \o u.new = Append(accepted, k)
    BY <1>1, <1>4, AppendIsConcat
  <2> QED
    BY <1>4, <2>1, InsertKeepsRing
<1> QED
  BY <1>2, <1>3, <1>4

\* Reading the port takes from it what it inserts.
LEMMA UpdateKeepsWire ==
  ASSUME TypeOK, WireInv, NEW u \in updateKeyInput,
         wire' = u.wire, accepted' = accepted \o u.new, UNCHANGED <<typed, written>>
  PROVE  WireInv'
<1>1. /\ accepted \in Seq(Keys) /\ written \subseteq 1 .. Len(accepted)
      /\ wire \in Seq(Chars) /\ typed \in Seq(Chars)
  BY DEF TypeOK
<1>2. CASE u.wire = wire /\ u.new = << >>
  <2>1. accepted' = accepted /\ wire' = wire
    BY <1>1, <1>2
  <2> QED
    BY <2>1 DEF WireInv
<1>3. CASE Read(u)
  <2>1. ToSet(wire') \subseteq ToSet(wire)
    <3>1. PICK n \in 1 .. Len(wire) : u.wire = SubSeq(wire, n + 1, Len(wire))
      BY <1>3 DEF Read
    <3>2. ASSUME NEW i \in DOMAIN wire' PROVE wire'[i] \in ToSet(wire)
      <4>1. DOMAIN wire' = 1 .. Len(wire) - n /\ \A j \in 1 .. Len(wire) - n : wire'[j] = wire[j + n]
        BY <1>1, <3>1
      <4>2. i + n \in DOMAIN wire /\ wire'[i] = wire[i + n]
        BY <1>1, <4>1
      <4> QED
        BY <4>2 DEF ToSet
    <3> QED
      BY <3>2 DEF ToSet
  <2>2. ASSUME EscChar \notin ToSet(typed)
        PROVE  FromPort(accepted', written') \o CodesOf(wire') = CodesOf(typed')
    <3> DEFINE c == Plain[wire[1]]
               old == FromPort(accepted, written)
    <3>1. wire # << >> /\ wire[1] \in ToSet(wire)
      <4>1. wire # << >> /\ 1 \in DOMAIN wire
        BY <1>1, <1>3, EmptySeq DEF Read
      <4> QED
        BY <4>1 DEF ToSet
    <3>2. wire[1] # EscChar
      BY <2>2, <3>1 DEF WireInv
    <3>3. wire' = Tail(wire) /\ wire[1] \in Chars /\ u.new = <<c>>
      BY <1>3, <3>2 DEF Read
    <3>4. c \in Keys /\ old \in Seq(Keys) /\ CodesOf(Tail(wire)) \in Seq(Keys) /\ <<c>> \in Seq(Keys)
      <4>1. Tail(wire) \in Seq(Chars)
        BY <1>1, <3>1
      <4>2. c \in Keys
        BY <3>3, KeyboardAssumption
      <4>3. old \in Seq(Keys) /\ CodesOf(Tail(wire)) \in Seq(Keys)
        BY <1>1, <4>1, FromPortType, CodesType
      <4> QED
        BY <4>2, <4>3
    <3>5. CodesOf(wire) = <<c>> \o CodesOf(Tail(wire))
      BY <1>1, <3>1, CodesFirst
    <3> HIDE DEF c
    <3>6. accepted' = Append(accepted, c)
      BY <1>1, <3>3, <3>4, AppendIsConcat
    <3>7. FromPort(accepted', written') = old \o <<c>>
      <4>1. FromPort(Append(accepted, c), written) = Append(old, c)
        BY <1>1, <3>4, FromPortAppend
      <4>2. Append(old, c) = old \o <<c>>
        BY <3>4, AppendIsConcat
      <4> QED
        BY <3>6, <4>1, <4>2
    <3>8. old \o CodesOf(wire) = CodesOf(typed)
      BY <2>2 DEF WireInv
    <3> HIDE DEF old
    <3>9. (old \o <<c>>) \o CodesOf(Tail(wire)) = old \o (<<c>> \o CodesOf(Tail(wire)))
      BY <3>4, ConcatAssociative
    <3> QED
      BY <3>3, <3>5, <3>7, <3>8, <3>9
  <2> QED
    BY <2>1, <2>2 DEF WireInv
<1> QED
  BY <1>2, <1>3, UpdateReads

\* A key delivered behind those before.
LEMMA OneAfterAnother ==
  ASSUME NEW t \in Seq(Keys), NEW k \in Keys, NEW p \in PairStates
  PROVE  InFront(t, InFront(<<k>>, p)) = InFront(Append(t, k), p)
<1>1. p.out \in Seq(Keys) /\ <<k>> \in Seq(Keys)
  BY DEF PairStates
<1>2. (t \o <<k>>) \o p.out = t \o (<<k>> \o p.out)
  <2>1. \A s, o \in Seq(Keys) : (t \o s) \o o = t \o (s \o o)
    BY ConcatAssociative
  <2> QED
    BY <1>1, <2>1
<1>3. t \o <<k>> = Append(t, k)
  BY AppendIsConcat
<1>4. InFront(t, InFront(<<k>>, p)) = [half |-> p.half, out |-> t \o (<<k>> \o p.out)]
  BY DEF InFront
<1>5. InFront(Append(t, k), p) = [half |-> p.half, out |-> Append(t, k) \o p.out]
  BY DEF InFront
<1> QED
  BY <1>2, <1>3, <1>4, <1>5, Zenon

\* Taking a key delivers it.
LEMMA GetKeepsRing ==
  ASSUME NEW r \in Rings, ~isKeyBufEmpty(r), taken \in Seq(Keys),
         NEW ks, Paired(ks) = InFront(taken, Paired(Contents(r)))
  PROVE  Paired(ks) = InFront(Append(taken, getKeyBufItem(r).code),
                              Paired(Contents(getKeyBufItem(r).ring)))
<1> DEFINE q == Contents(r)
           k == Queue!First(q)
           p == Paired(Queue!Rest(q))
<1>1. q \in Seq(Keys) /\ Queue!Ready(q)
  BY ContentsEffect, GetDelivers
<1>2. getKeyBufItem(r).code = k /\ Contents(getKeyBufItem(r).ring) = Queue!Rest(q)
  BY GetDelivers
<1>3. k \in Keys /\ Queue!Rest(q) \in Seq(Keys) /\ Paired(q) = InFront(<<k>>, p)
  BY <1>1, PairedDelivers
<1>4. p \in PairStates
  BY <1>3, PairedType
<1> HIDE DEF k, p
<1>5. InFront(taken, InFront(<<k>>, p)) = InFront(Append(taken, k), p)
  BY <1>3, <1>4, OneAfterAnother
<1> QED
  BY <1>2, <1>3, <1>5 DEF p

\* The user's typing goes to the end of what is at the port.
LEMMA PressTyping == ASSUME KInv, KInv', TypingInv, Press PROVE TypingInv'
<1>1. PICK s : wire' = wire \o s /\ typed' = typed \o s /\ s \in Seq(Chars)
  <2>1. PICK s \in {<<c>> : c \in Chars} \cup {<<EscChar>> \o t : t \in DOMAIN Special} :
          wire' = wire \o s /\ typed' = typed \o s
    BY DEF Press
  <2>2. s \in Seq(Chars)
    <3>1. ASSUME NEW t \in DOMAIN Special
          PROVE  <<EscChar>> \o t \in Seq(Chars)
      <4>1. t \in Seq(Chars) /\ <<EscChar>> \in Seq(Chars)
        BY KeyboardAssumption
      <4> QED
        BY <4>1, ConcatProperties
    <3>2. ASSUME NEW c \in Chars
          PROVE  <<c>> \in Seq(Chars)
      OBVIOUS
    <3>3. \/ \E c \in Chars : s = <<c>>
          \/ \E t \in DOMAIN Special : s = <<EscChar>> \o t
      BY Zenon
    <3> QED
      BY <3>1, <3>2, <3>3, Zenon
  <2> QED
    BY <2>1, <2>2
<1>2. UNCHANGED <<ring, accepted, taken, written>>
  BY DEF Press
<1>3. RingInv'
  BY <1>2 DEF TypingInv, RingInv
<1>4. /\ wire \in Seq(Chars) /\ typed \in Seq(Chars)
      /\ accepted \in Seq(Keys)
  BY DEF KInv, TypeOK
<1>5. ToSet(wire') = ToSet(wire) \cup ToSet(s) /\ ToSet(typed') = ToSet(typed) \cup ToSet(s)
  <2>1. ASSUME NEW w \in Seq(Chars) PROVE ToSet(w \o s) = ToSet(w) \cup ToSet(s)
    <3>1. Range(w \o s) = Range(w) \cup Range(s)
      BY <1>1, RangeConcatenation
    <3> QED
      BY <3>1 DEF ToSet, Range
  <2> QED
    BY <1>1, <1>4, <2>1
<1>6. ToSet(wire') \subseteq ToSet(typed')
  BY <1>5 DEF TypingInv, WireInv
<1>7. ASSUME EscChar \notin ToSet(typed')
      PROVE  FromPort(accepted', written') \o CodesOf(wire') = CodesOf(typed')
  <2> DEFINE old == FromPort(accepted, written)
  <2>1. old \in Seq(Keys) /\ CodesOf(wire) \in Seq(Keys) /\ CodesOf(s) \in Seq(Keys)
    BY <1>1, <1>4, FromPortType, CodesType
  <2>2. old \o CodesOf(wire) = CodesOf(typed)
    BY <1>5, <1>7 DEF TypingInv, WireInv
  <2>3. FromPort(accepted', written') = old
    BY <1>2
  <2>4. CodesOf(wire') = CodesOf(wire) \o CodesOf(s) /\ CodesOf(typed') = CodesOf(typed) \o CodesOf(s)
    BY <1>1, <1>4, CodesConcat
  <2> HIDE DEF old
  <2>5. (old \o CodesOf(wire)) \o CodesOf(s) = old \o (CodesOf(wire) \o CodesOf(s))
    BY <2>1, ConcatAssociative
  <2> QED
    BY <2>2, <2>3, <2>4, <2>5
<1> QED
  BY <1>3, <1>6, <1>7 DEF TypingInv, WireInv

\* The timer interrupt.
LEMMA TimerTyping == ASSUME KInv, TypingInv, PollFromTimer PROVE TypingInv'
<1>1. PICK u \in updateKeyInput :
        wire' = u.wire /\ ring' = u.ring /\ accepted' = accepted \o u.new
  BY DEF PollFromTimer
<1>2. UNCHANGED <<typed, taken, written>>
  BY DEF PollFromTimer
<1>3. WireInv'
  BY <1>1, <1>2, UpdateKeepsWire DEF KInv, TypingInv
<1>4. RingInv'
  BY <1>1, <1>2, UpdateKeepsRing DEF KInv, TypingInv, RingInv
<1> QED
  BY <1>3, <1>4 DEF TypingInv

\* AH = 00h.
LEMMA ReadTyping == ASSUME KInv, TypingInv, int16_handler_ah00 PROVE TypingInv'
<1>1. PICK u \in updateKeyInput :
        /\ wire' = u.wire
        /\ accepted' = accepted \o u.new
        /\ IF isKeyBufEmpty(u.ring)
           THEN ring' = u.ring /\ UNCHANGED <<reading, reply, taken, seen>>
           ELSE /\ ring' = getKeyBufItem(u.ring).ring
                /\ taken' = Append(taken, getKeyBufItem(u.ring).code)
                /\ seen' = NoKey
                /\ IF getKeyBufItem(u.ring).code = NoKey
                   THEN UNCHANGED <<reading, reply>>
                   ELSE reading' = FALSE /\ reply' = getKeyBufItem(u.ring).code
  BY DEF int16_handler_ah00
<1>2. UNCHANGED <<typed, written>>
  BY DEF int16_handler_ah00
<1>3. WireInv'
  BY <1>1, <1>2, UpdateKeepsWire DEF KInv, TypingInv
<1>4. Paired(accepted') = InFront(taken, Paired(Contents(u.ring)))
  BY <1>1, UpdateKeepsRing DEF KInv, TypingInv
<1>5. RingInv'
  <2>1. CASE isKeyBufEmpty(u.ring)
    BY <1>1, <1>4, <2>1 DEF RingInv
  <2>2. CASE ~isKeyBufEmpty(u.ring)
    <3>1. u.ring \in Rings /\ taken \in Seq(Keys)
      BY UpdateOutcome DEF KInv, TypeOK
    <3>2. ring' = getKeyBufItem(u.ring).ring /\ taken' = Append(taken, getKeyBufItem(u.ring).code)
      BY <1>1, <2>2
    <3> QED
      BY <1>4, <2>2, <3>1, <3>2, GetKeepsRing DEF RingInv
  <2> QED
    BY <2>1, <2>2
<1> QED
  BY <1>3, <1>5 DEF TypingInv

\* AH = 01h.
LEMMA PeekTyping == ASSUME KInv, TypingInv, int16_handler_ah01 PROVE TypingInv'
<1>1. PICK u \in updateKeyInput :
        wire' = u.wire /\ ring' = u.ring /\ accepted' = accepted \o u.new
  BY DEF int16_handler_ah01
<1>2. UNCHANGED <<typed, taken, written>>
  BY DEF int16_handler_ah01
<1>3. WireInv'
  BY <1>1, <1>2, UpdateKeepsWire DEF KInv, TypingInv
<1>4. RingInv'
  BY <1>1, <1>2, UpdateKeepsRing DEF KInv, TypingInv, RingInv
<1> QED
  BY <1>3, <1>4 DEF TypingInv

\* AH = 05h: a key of the guest's own does not count as one of the port's.
LEMMA WriteTyping == ASSUME KInv, TypingInv, int16_handler_ah05 PROVE TypingInv'
<1>1. PICK k \in GuestKeys :
        /\ IF isKeyBufFull(ring)
           THEN UNCHANGED <<ring, accepted, written>>
           ELSE /\ ring' = insertKeyBuf(ring, k)
                /\ accepted' = Append(accepted, k)
                /\ written' = written \cup {Len(accepted')}
        /\ UNCHANGED <<wire, typed, taken>>
  BY DEF int16_handler_ah05
<1>2. CASE isKeyBufFull(ring)
  <2>1. UNCHANGED <<ring, accepted, written, wire, typed, taken>>
    BY <1>1, <1>2
  <2> QED
    BY <2>1 DEF TypingInv, WireInv, RingInv
<1>3. CASE ~isKeyBufFull(ring)
  <2>1. /\ ring' = insertKeyBuf(ring, k) /\ accepted' = Append(accepted, k)
        /\ written' = written \cup {Len(accepted')}
    BY <1>1, <1>3
  <2>2. k \in Keys /\ accepted \in Seq(Keys) /\ written \subseteq 1 .. Len(accepted)
    BY KeyboardAssumption DEF KInv, TypeOK
  <2>3. written' = written \cup {Len(accepted) + 1}
    BY <2>1, <2>2
  <2>4. FromPort(accepted', written') = FromPort(accepted, written)
    <3>1. FromPort(Append(accepted, k), written \cup {Len(accepted) + 1}) = FromPort(accepted, written)
      BY <2>2, FromPortAppend
    <3> QED
      BY <2>1, <2>3, <3>1
  <2>5. WireInv'
    BY <1>1, <2>4 DEF TypingInv, WireInv
  <2>6. RingInv'
    BY <1>1, <1>3, <2>1, <2>2, InsertKeepsRing DEF KInv, TypingInv, RingInv
  <2> QED
    BY <2>5, <2>6 DEF TypingInv
<1> QED
  BY <1>2, <1>3

\* The invariant of what is typed is inductive.
LEMMA TypingStep == KInv /\ KInv' /\ TypingInv /\ [Next]_vars => TypingInv'
<1> SUFFICES ASSUME KInv, KInv', TypingInv, [Next]_vars PROVE TypingInv'
  OBVIOUS
<1>1. CASE UNCHANGED vars \/ StartRead
  <2>1. UNCHANGED <<ring, accepted, written, wire, typed, taken>>
    BY <1>1 DEF vars, StartRead, history
  <2> QED
    BY <2>1 DEF TypingInv, WireInv, RingInv
<1> QED
  BY <1>1, PressTyping, TimerTyping, ReadTyping, PeekTyping, WriteTyping DEF Next

\* Nothing typed is lost, overtaken or delivered twice between the serial port and the
\* guest (updateKeyInput, insertKeyBuf, getKeyBufItem), for a ring of any size and
\* any number of turns of it, whatever keys the guest inserts itself.
THEOREM TypingIsKeptHolds == Spec => []TypingIsKept
<1>1. KInv /\ TypingInv => TypingIsKept
  <2> SUFFICES ASSUME KInv, TypingInv PROVE TypingIsKept
    OBVIOUS
  <2>1. KeysInOrder
    BY DEF TypingInv, RingInv, InFront, KeysInOrder, Pairs
  <2>2. EscChar \notin ToSet(typed) =>
          FromPort(accepted, written) \o [i \in DOMAIN wire |-> Plain[wire[i]]]
            = [i \in DOMAIN typed |-> Plain[typed[i]]]
    BY DEF TypingInv, WireInv, CodesOf
  <2> QED
    BY <2>1, <2>2 DEF TypingIsKept
<1>2. KInv /\ TypingInv /\ [Next]_vars => KInv' /\ TypingInv'
  BY NextInv, TypingStep
<1> QED
  BY <1>1, <1>2, InitInv, TypingInit, PTL DEF Spec
=============================================================================
