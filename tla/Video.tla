------------------------------- MODULE Video -------------------------------
(***************************************************************************)
(* INT 10h of the BIOS (bios/src/int10h.c).  Each page has a buffer of its *)
(* own; what is written to the displayed page is written to its buffer and *)
(* to the display's memory as well, a row is scrolled in both.             *)
(*                                                                         *)
(* The guest's programs differ in what they use: the teletype, cells and   *)
(* windows, several pages, the display's memory itself, or the buffer that *)
(* AH = FEh lends them.  Characters and attributes are bytes.              *)
(***************************************************************************)
EXTENDS Console

CONSTANTS
    PAGES,
    Programs,       \* of guests: [calls: a subset of VideoCalls, length: how many of them]
    Codes, Letters, Attributes,     \* of what it types and of what it writes otherwise
    Windows,        \* [left, top, right, bottom], not always within the screen
    StorePlaces     \* where a guest stores into the display's memory itself

VideoCalls == {"mode", "type", "place", "fill", "scroll", "page", "look", "store", "wide", "buffer"}

ASSUME VideoAssumption ==
    /\ PAGES \in Nat \ {0}
    /\ Programs \subseteq [calls : SUBSET VideoCalls, length : Nat]
    /\ Codes \subseteq 0 .. 255 /\ Letters \subseteq 0 .. 255 /\ Attributes \subseteq 0 .. 255
    /\ Windows \subseteq [left : Nat, top : Nat, right : Nat, bottom : Nat]
    /\ StorePlaces \subseteq Places

VARIABLES
    asks,      \* what the guest uses ...
    left,      \* ... and how often it still does
    screen,    \* [page, pos, buf: disp_page, posx and posy, the pages' buffers; see Console]
    looked,    \* the cell that AH = 08h has given
    behind     \* history: places where the display's memory is not the page's buffer

video == <<asks, left, screen, looked, behind>>

PageSet == 0 .. PAGES - 1
Clip(n, limit) == IF n >= limit THEN limit - 1 ELSE n

VideoInit ==
    /\ \E program \in Programs : asks = program.calls /\ left = program.length
    /\ screen = [page |-> 0,
                 pos |-> [g \in PageSet |-> <<0, 0>>],
                 bda |-> [g \in PageSet |-> <<0, 0>>],
                 buf |-> [g \in PageSet |-> [p \in Places |-> <<0, 0>>]],
                 fb |-> [p \in Places |-> <<32, 8>>],
                 shown |-> [p \in Places |-> <<32, 8>>],
                 at |-> <<0, 0>>]
    /\ looked = <<0, 0>>
    /\ behind = Places

(***************************************************************************)
(* What the functions do to the screen.                                    *)
(***************************************************************************)
\* updateDispBuf.
updateDispBuf(m, p, cell) ==
    writeDataMem([m EXCEPT !.buf[m.page][p] = cell], 2 * p, cell)

\* A loop from a to b over the screen.
For(m, a, b, Body(_, _)) ==
    LET after[k \in a - 1 .. b] == IF k < a THEN m ELSE Body(after[k - 1], k)
    IN IF b < a THEN m ELSE after[b]

\* fetch_data_word and copy_data_word of a part of a row, in the page's buffer
\* and in the display.
CopyRow(m, from, to, x1, x2) ==
    For(m, x1, x2, LAMBDA n, x :
        writeDataMem([n EXCEPT !.buf[m.page][Place(x, to)] = m.buf[m.page][Place(x, from)]],
                     2 * Place(x, to), m.fb[Place(x, from)]))

FillRow(m, y, x1, x2, cell) ==
    For(m, x1, x2, LAMBDA n, x : updateDispBuf(n, Place(x, y), cell))

FillRows(m, y1, y2, x1, x2, cell) ==
    For(m, y1, y2, LAMBDA n, y : FillRow(n, y, x1, x2, cell))

\* The rows that stay in a window are moved by so many lines, ...
RowsUp(m, lines, x1, y1, x2, y2) ==
    For(m, y1, y2 - lines, LAMBDA n, y : CopyRow(n, y + lines, y, x1, x2))

\* Mutant: they are moved in the order of RowsUp, one over the next.
RowsDown_FromTop(m, lines, x1, y1, x2, y2) ==
    For(m, y1 + lines, y2, LAMBDA n, y : CopyRow(n, y - lines, y, x1, x2))

RowsDown(m, lines, x1, y1, x2, y2) ==
    For(m, 0, y2 - (y1 + lines), LAMBDA n, i : CopyRow(n, (y2 - i) - lines, y2 - i, x1, x2))

\* ... and the others are filled.
ScrollUp(m, lines, x1, y1, x2, y2, blank) ==
    LET first == IF y1 > y2 - lines + 1 THEN y1 ELSE y2 - lines + 1
    IN FillRows(RowsUp(m, lines, x1, y1, x2, y2), first, y2, x1, x2, blank)

ScrollDown(m, lines, x1, y1, x2, y2, blank) ==
    LET last == IF y2 < y1 + lines - 1 THEN y2 ELSE y1 + lines - 1
    IN FillRows(RowsDown(m, lines, x1, y1, x2, y2), y1, last, x1, x2, blank)

\* putCharWithAttr and AH = 0Eh, of the displayed page.
Stepped(m, code, attribute) ==
    LET g == m.page
        x == m.pos[g][1]
        y == m.pos[g][2]
    IN CASE code = 10 -> [m EXCEPT !.pos[g] = <<x, y + 1>>]
         [] code = 13 -> [m EXCEPT !.pos[g] = <<0, y>>]
         [] code = 8 -> [m EXCEPT !.pos[g] = <<IF x = 0 THEN 0 ELSE x - 1, y>>]
         [] code = 7 -> m
         [] OTHER -> [updateDispBuf(m, Place(x, y), <<code, attribute>>)
                        EXCEPT !.pos[g] = <<x + 1, y>>]

Wrapped(m) ==
    LET x == m.pos[m.page][1]
        y == m.pos[m.page][2]
    IN IF x >= MAX_X THEN [m EXCEPT !.pos[m.page] = <<x % MAX_X, y + 1>>] ELSE m

Scrolled(m) ==
    LET x == m.pos[m.page][1]
    IN IF m.pos[m.page][2] < MAX_Y THEN m
       ELSE ScrollUp([m EXCEPT !.pos[m.page] = <<x, MAX_Y - 1>>],
                     1, 0, 0, MAX_X - 1, MAX_Y - 1, <<32, 7>>)

putCharWithAttr(m, code, attribute) ==
    LET n == Scrolled(Wrapped(Stepped(m, code, attribute)))
    IN StoreCursor(n, m.page, n.pos[m.page])

\* AH = 09h and 0Ah: n cells from the cursor on, and on at the top.
WriteCells(m, code, attribute, n) ==
    LET start == Place(m.pos[m.page][1], m.pos[m.page][2])
    IN For(m, 0, n - 1, LAMBDA s, i :
           updateDispBuf(s, (start + i) % (MAX_X * MAX_Y), <<code, attribute>>))

\* AH = FFh: n cells from p on, each byte by byte.
CopyBuffer(m, p, n) ==
    For(m, p, p + n - 1, LAMBDA s, q :
        LET cell == m.buf[m.page][q]
        IN writeDataMem(writeDataMem(s, 2 * q, <<cell[1]>>), (2 * q) + 1, <<cell[2]>>))

(***************************************************************************)
(* The functions.                                                          *)
(***************************************************************************)
Guest10(call) == call \in asks /\ left > 0 /\ left' = left - 1
Given == UNCHANGED <<asks, looked>>

\* AH = 00h, with bit 7 of AL clear; with it set nothing happens.
int10_handler_ah00 ==
    /\ Guest10("mode")
    /\ screen' =
         LET m == FillRows(screen, 0, MAX_Y - 1, 0, MAX_X - 1, <<32, 7>>)
         IN [StoreCursor([m EXCEPT !.pos[m.page] = <<0, 0>>], m.page, <<0, 0>>)
               EXCEPT !.at = <<0, 0>>]
    /\ behind' = {}
    /\ Given

int10_handler_ah02 ==
    /\ Guest10("place")
    /\ \E page \in 0 .. PAGES, x \in 0 .. MAX_X, y \in 0 .. MAX_Y :
         LET g == Clip(page, PAGES)
             xy == <<Clip(x, MAX_X), Clip(y, MAX_Y)>>
             placed == [screen EXCEPT !.pos[g] = xy, !.at = IF g = screen.page THEN xy ELSE @]
         IN screen' = StoreCursor(placed, g, xy)
    /\ UNCHANGED behind
    /\ Given

\* The display's memory is not exchanged.
int10_handler_ah05 ==
    /\ Guest10("page")
    /\ \E page \in 0 .. PAGES :
         LET g == Clip(page, PAGES)
         IN screen' = [screen EXCEPT !.page = g, !.at = screen.pos[g]]
    /\ behind' = Places
    /\ Given

\* AH = 06h and 07h; the corner is clipped, and no lines are all of them.
Scrolls(w, lines, ScrollBy(_, _, _, _, _, _, _), attribute) ==
    LET x2 == Clip(w.right, MAX_X)
        y2 == Clip(w.bottom, MAX_Y)
        n == IF lines = 0 THEN MAX_Y ELSE lines
    IN screen' = IF x2 < w.left \/ y2 < w.top THEN screen
                 ELSE ScrollBy(screen, n, w.left, w.top, x2, y2, <<32, attribute>>)

int10_handler_ah06 ==
    /\ Guest10("scroll")
    /\ \E w \in Windows, lines \in 0 .. MAX_Y + 1, a \in Attributes :
          Scrolls(w, lines, ScrollUp, a)
    /\ behind' = IF behind = {} THEN {} ELSE Places
    /\ Given

int10_handler_ah07 ==
    /\ Guest10("scroll")
    /\ \E w \in Windows, lines \in 0 .. MAX_Y + 1, a \in Attributes :
          Scrolls(w, lines, ScrollDown, a)
    /\ behind' = IF behind = {} THEN {} ELSE Places
    /\ Given

\* At the cursor of the page that is asked for, or of the first when there is no
\* such page, it reads the display's memory, whatever that holds.
int10_handler_ah08 ==
    /\ Guest10("look")
    /\ \E page \in 0 .. PAGES :
         LET xy == screen.pos[IF page >= PAGES THEN 0 ELSE page]
         IN looked' = screen.fb[Place(xy[1], xy[2])]
    /\ UNCHANGED <<asks, screen, behind>>

int10_handler_ah09 ==
    /\ Guest10("fill")
    /\ \E page \in PageSet, code \in Letters, a \in Attributes, n \in 0 .. MAX_X * MAX_Y :
          screen' = IF page # screen.page THEN screen ELSE WriteCells(screen, code, a, n)
    /\ behind' = IF behind = {} THEN {} ELSE Places
    /\ Given

int10_handler_ah0e ==
    /\ Guest10("type")
    /\ \E page \in PageSet, code \in Codes, a \in Attributes :
          screen' = IF page # screen.page THEN screen ELSE putCharWithAttr(screen, code, a)
    /\ behind' = IF behind = {} THEN {} ELSE Places
    /\ Given

\* The buffer of the page is erased and lent to the guest.
int10_handler_ahfe ==
    /\ Guest10("buffer")
    /\ screen' = [screen EXCEPT !.buf[screen.page] = [p \in Places |-> <<32, 0>>]]
    /\ behind' = Places
    /\ Given

\* External: the guest writes a cell into the buffer, ...
DrawInBuffer ==
    /\ Guest10("buffer")
    /\ \E p \in Places, code \in Letters, a \in Attributes :
          /\ screen' = [screen EXCEPT !.buf[screen.page][p] = <<code, a>>]
          /\ behind' = behind \cup {p}
    /\ Given

\* ... and has n cells from the offset DI on copied to the display.
int10_handler_ahff ==
    /\ Guest10("buffer")
    /\ \E p \in Places : \E n \in 0 .. (MAX_X * MAX_Y) - p :
          /\ screen' = CopyBuffer(screen, p, n)
          /\ behind' = behind \ (p .. p + n - 1)
    /\ Given

\* External: the guest stores into the display's memory: bytes and words, or
\* doublewords and words at odd addresses as well.
StoreToDisplay ==
    /\ Guest10("store")
    /\ \E p \in StorePlaces, i \in 0 .. 1, c \in Letters, d \in Letters, a \in Attributes :
          \/ screen' = writeDataMem(screen, (2 * p) + i, <<IF i = 0 THEN c ELSE a>>)
          \/ i = 0 /\ screen' = writeDataMem(screen, 2 * p, <<c, a>>)
          \/ i = 0 /\ "wide" \in asks /\ screen' = writeDataMem(screen, 2 * p, <<c, a, d, a>>)
          \/ i = 1 /\ "wide" \in asks /\ screen' = writeDataMem(screen, (2 * p) + 1, <<a, c>>)
    /\ behind' = Places
    /\ Given

VideoNext ==
    \/ int10_handler_ah00 \/ int10_handler_ah02 \/ int10_handler_ah05
    \/ int10_handler_ah06 \/ int10_handler_ah07 \/ int10_handler_ah08
    \/ int10_handler_ah09 \/ int10_handler_ah0e
    \/ int10_handler_ahfe \/ DrawInBuffer \/ int10_handler_ahff
    \/ StoreToDisplay

(***************************************************************************)
(* Properties.                                                             *)
(***************************************************************************)
\* The three places that hold the cursor agree; it is on the screen.
CursorInStep ==
    \A g \in PageSet :
        /\ screen.pos[g] \in (0 .. MAX_X - 1) \X (0 .. MAX_Y - 1)
        /\ screen.bda[g] = screen.pos[g]

\* What the user sees is what the guest has written: the terminal shows the
\* display's memory (but for a first byte that waits for its second, and for
\* guests that store more than one cell at a time), the display's memory is the
\* page's buffer wherever the BIOS has written both, and the cursors agree
\* (mem.c:402-448, int10h.c:289-310).
TerminalInStep ==
    /\ CursorInStep
    /\ \A p \in Places \ behind : screen.fb[p] = screen.buf[screen.page][p]
    /\ "wide" \in asks
         \/ \A p \in Places : IS_SJIS_1STBYTE(screen.fb[p][1]) \/ screen.shown[p] = Look(screen.fb[p])
    /\ "page" \in asks \/ screen.at = screen.pos[0]

Grid == (0 .. MAX_X - 1) \X (0 .. MAX_Y - 1)

Promised == INSTANCE Display WITH
    Columns <- MAX_X, Lines <- MAX_Y, Pages <- PageSet, Codes <- Codes \cup Letters,
    page <- screen.page,
    cells <- [g \in PageSet |-> [xy \in Grid |-> screen.buf[g][Place(xy[1], xy[2])]]],
    memory <- [xy \in Grid |-> screen.fb[Place(xy[1], xy[2])]],
    cursor <- screen.pos,
    read <- looked

\* The pages' buffers and the display's memory, their linear positions and the row
\* by row copies are a display of pages whose functions move whole windows at once
\* and do the same to both, and from whose memory AH = 08h reads.
ImplementsDisplay == Promised!Spec
=============================================================================
