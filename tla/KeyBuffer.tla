------------------------------ MODULE KeyBuffer ------------------------------
(***************************************************************************)
(* The key ring of the BIOS (bios/src/int16h.c): KEYBUF_SIZE words from    *)
(* 40:1e, and the words at 40:1a and 40:1c that say where it begins and    *)
(* where it ends.  A ring is a record of the two indices, counted in items *)
(* from the start of the buffer, and of the items.                         *)
(***************************************************************************)
EXTENDS Integers, Sequences

CONSTANTS KEYBUF_SIZE, Keys, Esc, NoKey

ASSUME KeyBufferAssumption ==
    /\ KEYBUF_SIZE \in Nat /\ KEYBUF_SIZE >= 3
    /\ Esc \in Keys /\ NoKey \in Keys /\ Esc # NoKey

Indices == 0 .. KEYBUF_SIZE - 1

Rings == [head : Indices, tail : Indices, buf : [Indices -> Keys]]

EmptyRing == [head |-> 0, tail |-> 0, buf |-> [i \in Indices |-> NoKey]]

\* The step both indices take.
Following(i) == IF i + 1 >= KEYBUF_SIZE THEN 0 ELSE i + 1

insertKeyBuf(r, code) ==
    LET lost == r.tail >= KEYBUF_SIZE
        at   == IF lost THEN 0 ELSE r.tail
    IN  [head |-> IF lost THEN 0 ELSE r.head,
         tail |-> Following(at),
         buf  |-> [r.buf EXCEPT ![at] = code]]

\* The indices are unsigned: 0 - 1 is no index, as it is no index here.
isKeyBufFull(r) ==
    r.head - 1 = r.tail \/ r.head + KEYBUF_SIZE - 1 = r.tail

\* Mutants: an ESC makes the ring empty, also with its second half.
\* And: a lone ESC counts as a key.
isKeyBufEmpty_AnyEsc(r) == r.head = r.tail \/ r.buf[r.head] = Esc

isKeyBufEmpty_LoneEsc(r) == r.head = r.tail

\* A lone ESC counts as no key: it may be the start of a pair.
isKeyBufEmpty(r) ==
    \/ r.head = r.tail
    \/ r.buf[r.head] = Esc /\ Following(r.head) = r.tail

\* Mutant: the first half of a pair is shown.
getNdKeyBufItem_EscItself(r) == r.buf[r.head]

\* The next key, left where it is.
getNdKeyBufItem(r) ==
    r.buf[IF r.buf[r.head] = Esc THEN Following(r.head) ELSE r.head]

\* The next key, and the ring once it is taken: an ESC is passed over.
getKeyBufItem(r) ==
    LET at == IF r.buf[r.head] = Esc THEN Following(r.head) ELSE r.head
    IN  [code |-> r.buf[at], ring |-> [r EXCEPT !.head = Following(at)]]

-----------------------------------------------------------------------------

Held(r) == IF r.tail >= r.head THEN r.tail - r.head
                               ELSE r.tail + KEYBUF_SIZE - r.head

\* The place of the i-th item.
Slot(r, i) == IF r.head + i - 1 >= KEYBUF_SIZE THEN r.head + i - 1 - KEYBUF_SIZE
                                               ELSE r.head + i - 1

\* The items in the order they were inserted.
Contents(r) == [i \in 1 .. Held(r) |-> r.buf[Slot(r, i)]]
=============================================================================
