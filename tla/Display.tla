------------------------------ MODULE Display ------------------------------
(***************************************************************************)
(* What INT 10h promises a guest: pages of cells with a cursor each, of    *)
(* which one is displayed, and the display's memory.  The functions that   *)
(* write and scroll do the same to the displayed page and to the memory,   *)
(* whatever is in it; the memory alone is read.  Selecting a page leaves   *)
(* the memory as it was.                                                   *)
(***************************************************************************)
EXTENDS Integers

CONSTANTS
    Columns, Lines,
    Pages,
    Codes, Attributes,    \* of the characters typed and of their colours
    Windows               \* that are scrolled: [left, top, right, bottom]

VARIABLES
    page,      \* the one displayed
    cells, cursor,        \* of each page
    memory,    \* the cells of the display
    read       \* the cell that the guest has read last

vars == <<page, cells, cursor, memory, read>>

Grid == (0 .. Columns - 1) \X (0 .. Lines - 1)
Space(attribute) == <<32, attribute>>
Blank == Space(7)
Filled(cell) == [xy \in Grid |-> cell]
Rank(xy) == (xy[2] * Columns) + xy[1]

Init ==
    /\ page \in Pages
    /\ cursor = [p \in Pages |-> <<0, 0>>]
    /\ \A p \in Pages : DOMAIN cells[p] = Grid
    /\ DOMAIN memory = Grid

\* The displayed page becomes c and the memory d, the cursor xy.
Becomes(c, d, xy) ==
    /\ cells' = [cells EXCEPT ![page] = c]
    /\ memory' = d
    /\ cursor' = [cursor EXCEPT ![page] = xy]
    /\ UNCHANGED <<page, read>>

Clear == Becomes(Filled(Blank), Filled(Blank), <<0, 0>>)

PlaceCursor ==
    /\ \E p \in Pages, xy \in Grid : cursor' = [cursor EXCEPT ![p] = xy]
    /\ UNCHANGED <<page, cells, memory, read>>

Select == page' \in Pages /\ UNCHANGED <<cells, cursor, memory, read>>

\* The paper moves up when the pen leaves its last line.
Rolled(c) ==
    [xy \in Grid |-> IF xy[2] = Lines - 1 THEN Blank ELSE c[<<xy[1], xy[2] + 1>>]]

PenAt(c, d, x, y) ==
    IF y = Lines THEN Becomes(Rolled(c), Rolled(d), <<x, Lines - 1>>) ELSE Becomes(c, d, <<x, y>>)

Type ==
    \E code \in Codes, attribute \in Attributes :
        LET c == cells[page]
            x == cursor[page][1]
            y == cursor[page][2]
            Inked(s) == [s EXCEPT ![cursor[page]] = <<code, attribute>>]
        IN \/ code = 7 /\ UNCHANGED vars
           \/ code = 8 /\ PenAt(c, memory, IF x = 0 THEN 0 ELSE x - 1, y)
           \/ code = 10 /\ PenAt(c, memory, x, y + 1)
           \/ code = 13 /\ PenAt(c, memory, 0, y)
           \/ /\ code \notin {7, 8, 10, 13} /\ x < Columns - 1
              /\ PenAt(Inked(c), Inked(memory), x + 1, y)
           \/ /\ code \notin {7, 8, 10, 13} /\ x = Columns - 1
              /\ PenAt(Inked(c), Inked(memory), 0, y + 1)

\* A character n times from the cursor on, and on at the top after the bottom.
FilledFrom(c, from, n, cell) ==
    [xy \in Grid |-> IF (Rank(xy) - Rank(from)) % (Columns * Lines) < n THEN cell ELSE c[xy]]

Fill ==
    \E code \in Codes, attribute \in Attributes, n \in 0 .. Columns * Lines :
        Becomes(FilledFrom(cells[page], cursor[page], n, <<code, attribute>>),
                FilledFrom(memory, cursor[page], n, <<code, attribute>>), cursor[page])

\* The cells of a window move n lines up, or down when n is negative; the rest of
\* the screen does not move.
Framed(w, x, y) ==
    x \in w.left .. w.right /\ y \in w.top .. w.bottom /\ <<x, y>> \in Grid

Shifted(c, w, n, blank) ==
    [xy \in Grid |->
        IF Framed(w, xy[1], xy[2])
          THEN IF Framed(w, xy[1], xy[2] + n) THEN c[<<xy[1], xy[2] + n>>] ELSE blank
          ELSE c[xy]]

Scroll ==
    \E w \in Windows, n \in (-Lines .. Lines) \ {0}, attribute \in Attributes :
        Becomes(Shifted(cells[page], w, n, Space(attribute)),
                Shifted(memory, w, n, Space(attribute)), cursor[page])

\* The cell of the memory at the cursor of a page.
Read ==
    /\ \E p \in Pages : read' = memory[cursor[p]]
    /\ UNCHANGED <<page, cells, cursor, memory>>

\* The guest takes the buffer of the page, which is erased, writes into it and has
\* n of its cells shown, ...
TakeBuffer == Becomes(Filled(Space(0)), memory, cursor[page])

Draw ==
    \E xy \in Grid, code \in Codes, attribute \in Attributes :
        Becomes([cells[page] EXCEPT ![xy] = <<code, attribute>>], memory, cursor[page])

Shows(from, n) ==
    memory' = [xy \in Grid |-> IF Rank(xy) \in from .. from + n - 1 THEN cells[page][xy] ELSE memory[xy]]

Show ==
    /\ \E from \in 0 .. Columns * Lines, n \in 0 .. Columns * Lines : Shows(from, n)
    /\ UNCHANGED <<page, cells, cursor, read>>

\* ... or stores into the memory, into no more than two cells at a time.
Store ==
    /\ DOMAIN memory' = Grid
    /\ \E first \in Grid : \A xy \in Grid :
          Rank(xy) \notin {Rank(first), Rank(first) + 1} => memory'[xy] = memory[xy]
    /\ UNCHANGED <<page, cells, cursor, read>>

Next ==
    \/ Clear \/ PlaceCursor \/ Select
    \/ Type \/ Fill \/ Scroll \/ Read
    \/ TakeBuffer \/ Draw \/ Show \/ Store

Spec == Init /\ [][Next]_vars
=============================================================================
