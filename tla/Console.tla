------------------------------ MODULE Console ------------------------------
(***************************************************************************)
(* The memory of the text display at b800:0 and the host's terminal, which *)
(* mem.c keeps in step with it: each store into the display prints the     *)
(* cell at its address, and each store into the cursor's place in the BIOS *)
(* data area moves the terminal's cursor.  Two bytes that make up one      *)
(* character of Shift JIS are printed together.                            *)
(*                                                                         *)
(* A cell is <<character, attribute>>; a screen m has, beside what the     *)
(* BIOS keeps, the fields fb (the display's memory), shown (what has been  *)
(* printed last at each place), at (the terminal's cursor) and bda (the    *)
(* cursors in the BIOS data area, of which the terminal follows that of    *)
(* page 0).                                                                *)
(***************************************************************************)
EXTENDS Integers, Sequences

CONSTANTS MAX_X, MAX_Y    \* columns and rows

ASSUME ConsoleAssumption == MAX_X \in Nat \ {0} /\ MAX_Y \in Nat \ {0}

Places == 0 .. (MAX_X * MAX_Y) - 1
Place(x, y) == (y * MAX_X) + x
Column(p) == p % MAX_X

getCharacterForConsole(c) ==
    CASE c = 254 -> 219
      [] c \in 32 .. 255 \ {127, 254} -> c
      [] c = 27 -> 163
      [] OTHER -> 32

Look(cell) == <<getCharacterForConsole(cell[1]), cell[2]>>

IS_SJIS_1STBYTE(c) == c \in 129 .. 159 \/ c \in 224 .. 252

\* Place p holds the first byte of two: the row is read from its beginning.
FirstByte(fb, p) ==
    LET kanji1b[k \in 0 .. Column(p)] ==
            IF /\ IS_SJIS_1STBYTE(fb[p - Column(p) + k][1])
               /\ k = 0 \/ kanji1b[k - 1] = 0
            THEN 1 ELSE 0
    IN kanji1b[Column(p)] = 1

\* The characters at the places ps are printed in one color.
Shown(m, ps, attribute) ==
    [m EXCEPT !.shown = [q \in Places |->
        IF q \in ps THEN <<getCharacterForConsole(m.fb[q][1]), attribute>> ELSE @[q]]]

\* A first byte waits for the second, and is printed with it, in its color.
updateConsole(m, a) ==
    LET p == a \div 2
        pair == Column(p) > 0 /\ FirstByte(m.fb, p - 1)
    IN CASE p \notin Places \/ FirstByte(m.fb, p) -> m
         [] p \in Places /\ ~FirstByte(m.fb, p) ->
              [Shown(m, IF pair THEN {p - 1, p} ELSE {p}, m.fb[p][2]) EXCEPT !.at = m.bda[0]]

\* MEM_WRITE of the bytes from a on; what lies behind the screen is left out.
PutBytes(m, a, bytes) ==
    [m EXCEPT !.fb = [p \in Places |-> [i \in 1 .. 2 |->
        LET k == (2 * p) + i - a
        IN IF k \in DOMAIN bytes THEN bytes[k] ELSE m.fb[p][i]]]]

\* Mutant: the store of an attribute prints nothing.
writeDataMem_CharactersOnly(m, a, bytes) ==
    IF a % 2 = 0 THEN updateConsole(PutBytes(m, a, bytes), a) ELSE PutBytes(m, a, bytes)

\* writeDataMemByte, writeDataMemWord and writeDataMemDoubleWord: whatever its
\* width, a store prints the cell at its own address and no other.
writeDataMem(m, a, bytes) == updateConsole(PutBytes(m, a, bytes), a)

\* set_cursorPos_memarea: two stores of a byte.
StoreCursor(m, page, xy) ==
    [m EXCEPT !.bda[page] = xy, !.at = IF page = 0 THEN xy ELSE @]
=============================================================================
