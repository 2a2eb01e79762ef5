------------------------------- MODULE MCBios -------------------------------
(***************************************************************************)
(* A small instance of Bios: a ring of three items, the character whose    *)
(* code is 0, the two characters that escape sequences are made of, one    *)
(* special key, days of seven interrupts and three ticks; and a display of *)
(* three rows of two columns.                                              *)
(***************************************************************************)
EXTENDS Bios

MCPlain == [c \in Chars |-> CASE c = "esc" -> Esc
                              [] c = "nul" -> NoKey
                              [] OTHER     -> c]

MCSpecial == <<"[", "A">> :> "up"

Uses(calls, length) == [calls |-> calls, length |-> length]
MCPrograms ==
    {Uses({}, 0),
     Uses({"mode", "type", "look"}, 7), Uses({"place", "fill"}, 3),
     Uses({"mode", "fill", "scroll"}, 4), Uses({"page", "type", "place"}, 4),
     Uses({"mode", "place", "page", "look"}, 4), Uses({"page", "fill", "scroll", "look"}, 3),
     Uses({"mode", "store"}, 4), Uses({"store", "wide", "look"}, 3), Uses({"buffer", "look"}, 3)}

W(l, t, r, b) == [left |-> l, top |-> t, right |-> r, bottom |-> b]
MCWindows == {W(0, 0, 1, 2), W(1, 0, 1, 4), W(0, 1, 2, 1), W(1, 0, 0, 2), W(0, 1, 0, 2)}
=============================================================================
