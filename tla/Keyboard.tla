------------------------------ MODULE Keyboard ------------------------------
(***************************************************************************)
(* The keyboard of a guest: the user types at the terminal of the host,    *)
(* the BIOS reads the characters from the serial port, turns them and the  *)
(* escape sequences of special keys into key codes, and keeps these in its *)
(* ring until the guest asks for them with INT 16h (bios/src/int16h.c).    *)
(* The timer interrupt (bios/src/timer.c) reads the port as well.  Neither *)
(* handler enables interrupts: a guest that waits in a blocking read gets  *)
(* no timer interrupt, and the two never meet inside the ring.             *)
(***************************************************************************)
EXTENDS KeyBuffer, SequencesExt

CONSTANTS
    Chars,          \* the characters of the terminal
    EscChar,        \* the one that starts an escape sequence
    Plain,          \* the code of each character on its own
    Special,        \* the code of each sequence that is known to follow EscChar
    GuestKeys,      \* the keys the guest itself inserts
    MaxTyped,       \* bound: characters typed
    MaxWritten      \* bound: how many it inserts

ASSUME KeyboardAssumption ==
    /\ EscChar \in Chars
    /\ Plain \in [Chars -> Keys] /\ Plain[EscChar] = Esc
    /\ DOMAIN Special \subseteq Seq(Chars)
    /\ \A s \in DOMAIN Special : Special[s] \in Keys
    /\ GuestKeys \subseteq Keys
    /\ MaxTyped \in Nat /\ MaxWritten \in Nat

VARIABLES
    wire,       \* characters typed and not yet read from the serial port
    ring,       \* the key ring
    reading,    \* the guest is in the loop of INT 16h, AH = 00h or 10h
    reply,      \* what its last call returned
    \* History:
    typed,      \* all characters typed
    accepted,   \* all keys inserted
    taken,      \* all keys removed
    written,    \* the places in accepted of the keys the guest inserted
    seen        \* the key a look at the ring promised, until it is read

vars == <<wire, ring, reading, reply, typed, accepted, taken, written, seen>>
history == <<typed, accepted, taken, written, seen>>

Init ==
    /\ wire = << >> /\ ring = EmptyRing
    /\ reading = FALSE /\ reply = NoKey
    /\ typed = << >> /\ accepted = << >> /\ taken = << >>
    /\ written = {} /\ seen = NoKey

-----------------------------------------------------------------------------
\* Reading the serial port.

\* n characters leave the wire, and the keys ks enter the ring.
Consume(n, ks) ==
    [wire |-> SubSeq(wire, n + 1, Len(wire)),
     ring |-> IF ks = << >> THEN ring ELSE insertKeyBuf(ring, ks[1]),
     new  |-> ks]

\* ESC and what follows it, up to the first pause: any number of the
\* characters typed so far.  Alone it is a key; otherwise all of it is one
\* special key, or nothing.
EscapeSequence ==
    { LET s == SubSeq(wire, 2, n)
      IN  Consume(n, IF s = << >> THEN <<Esc>>
                     ELSE IF s \in DOMAIN Special THEN <<Special[s]>> ELSE << >>)
      : n \in 1 .. Len(wire) }

\* Mutant: the port is read whether or not the ring is full, and the key that
\* does not fit is lost.
updateKeyInput_ReadThenCheck ==
    IF wire = << >> THEN { Consume(0, << >>) }
    ELSE IF isKeyBufFull(ring) THEN { Consume(1, << >>) }
    ELSE IF Head(wire) = EscChar THEN EscapeSequence
         ELSE { Consume(1, <<Plain[Head(wire)]>>) }

\* The outcomes of one call: a full ring leaves the characters where they are.
updateKeyInput ==
    IF wire = << >> \/ isKeyBufFull(ring)
    THEN { Consume(0, << >>) }
    ELSE IF Head(wire) = EscChar
         THEN EscapeSequence
         ELSE { Consume(1, <<Plain[Head(wire)]>>) }

-----------------------------------------------------------------------------
\* The user and the interrupt.

\* The user presses a key: its character, or ESC and the rest of a sequence.
Press ==
    \E s \in {<<c>> : c \in Chars} \cup {<<EscChar>> \o t : t \in DOMAIN Special} :
        /\ Len(typed) + Len(s) <= MaxTyped
        /\ wire' = wire \o s /\ typed' = typed \o s
        /\ UNCHANGED <<ring, reading, reply, accepted, taken, written, seen>>

\* The timer interrupt, whose handler ends with a look at the port.
PollFromTimer ==
    /\ ~reading
    /\ \E u \in updateKeyInput :
        /\ wire' = u.wire /\ ring' = u.ring
        /\ accepted' = accepted \o u.new
    /\ UNCHANGED <<reading, reply, typed, taken, written, seen>>

-----------------------------------------------------------------------------
\* INT 16h.

\* AH = 00h and 10h enter a loop, with interrupts disabled.
StartRead ==
    /\ ~reading
    /\ reading' = TRUE
    /\ UNCHANGED <<wire, ring, reply, history>>

\* One turn of the loop.
int16_handler_ah00 ==
    /\ reading
    /\ \E u \in updateKeyInput :
        LET item == getKeyBufItem(u.ring) IN
        /\ wire' = u.wire
        /\ accepted' = accepted \o u.new
        /\ IF isKeyBufEmpty(u.ring)
           THEN ring' = u.ring /\ UNCHANGED <<reading, reply, taken, seen>>
           ELSE /\ ring' = item.ring
                /\ taken' = Append(taken, item.code)
                /\ seen' = NoKey
                /\ IF item.code = NoKey
                   THEN UNCHANGED <<reading, reply>>
                   ELSE reading' = FALSE /\ reply' = item.code
    /\ UNCHANGED <<typed, written>>

\* AH = 01h and 11h.
int16_handler_ah01 ==
    /\ ~reading
    /\ \E u \in updateKeyInput :
        /\ wire' = u.wire /\ ring' = u.ring
        /\ accepted' = accepted \o u.new
        /\ reply' = IF isKeyBufEmpty(u.ring) THEN NoKey ELSE getNdKeyBufItem(u.ring)
    /\ seen' = reply'
    /\ UNCHANGED <<reading, typed, taken, written>>

\* AH = 05h: the guest inserts a key, if there is room.
int16_handler_ah05 ==
    \E k \in GuestKeys :
        /\ ~reading /\ Cardinality(written) < MaxWritten
        /\ IF isKeyBufFull(ring)
           THEN UNCHANGED <<ring, accepted, written>>
           ELSE /\ ring' = insertKeyBuf(ring, k)
                /\ accepted' = Append(accepted, k)
                /\ written' = written \cup {Len(accepted')}
        /\ UNCHANGED <<wire, reading, reply, typed, taken, seen>>

-----------------------------------------------------------------------------

Next ==
    \/ Press
    \/ PollFromTimer
    \/ StartRead
    \/ int16_handler_ah00
    \/ int16_handler_ah01
    \/ int16_handler_ah05

\* Safety only: Bios says which steps are fair.
Spec == Init /\ [][Next]_vars

-----------------------------------------------------------------------------
\* Properties.

\* Every variable has its type; in particular both indices stay in the buffer.
TypeOK ==
    /\ wire \in Seq(Chars) /\ ring \in Rings
    /\ reading \in BOOLEAN /\ reply \in Keys
    /\ typed \in Seq(Chars) /\ accepted \in Seq(Keys) /\ taken \in Seq(Keys)
    /\ written \subseteq 1 .. Len(accepted) /\ seen \in Keys

\* The ring is never full for the port and empty for the guest at once.  It
\* would stay so for ever: the port would not be read because of a key that is
\* not delivered before another one is read.
NeverStuck == ~(isKeyBufFull(ring) /\ isKeyBufEmpty(ring))

\* A key that INT 16h, AH = 01h shows is the one that the next read returns,
\* whatever the timer interrupt and the guest insert in between.
PeekIsPromise ==
    seen # NoKey => ~isKeyBufEmpty(ring) /\ getKeyBufItem(ring).code = seen

\* The keys a guest gets for the keys ks: the first ESC of a pair is dropped,
\* and one without a second half is kept back.
Pair(p, k) ==
    IF k = Esc /\ ~p.half THEN [p EXCEPT !.half = TRUE]
    ELSE [half |-> FALSE, out |-> Append(p.out, k)]

Paired(ks) ==
    LET p[n \in 0 .. Len(ks)] ==
          IF n = 0 THEN [half |-> FALSE, out |-> << >>] ELSE Pair(p[n - 1], ks[n])
    IN  p[Len(ks)]

Pairs(ks) == Paired(ks).out

\* Of the keys ks, those that came from the port: all but the guest's own, whose
\* places are given.
FromPort(ks, own) ==
    LET f[n \in 0 .. Len(ks)] ==
          IF n = 0 THEN << >>
          ELSE IF n \in own THEN f[n - 1] ELSE Append(f[n - 1], ks[n])
    IN  f[Len(ks)]

\* Every key inserted is delivered once, in the order of insertion, paired with
\* an ESC before it: for any number of turns of the ring, what was delivered and
\* what the ring still holds is what went in.
KeysInOrder == Pairs(accepted) = taken \o Pairs(Contents(ring))

\* Nothing that was typed is lost or overtaken on its way to the guest: each
\* character, as long as no ESC is typed, is a key that went into the ring or
\* waits at the port, a full ring costing none (updateKeyInput); and each key of
\* the ring is delivered once, in order (insertKeyBuf, getKeyBufItem).
TypingIsKept ==
    /\ EscChar \notin ToSet(typed) =>
          FromPort(accepted, written)
              \o [i \in DOMAIN wire |-> Plain[wire[i]]]
            = [i \in DOMAIN typed |-> Plain[typed[i]]]
    /\ KeysInOrder

\* A blocking read ends, unless the user has typed nothing it could return: it
\* reads up all that is there, and a full ring does not stop it.
ReadEnds ==
    reading ~> ~reading \/ (wire = << >> /\ isKeyBufEmpty(ring))

\* The ring, the port and the handlers together are a bounded queue of keys.
Queue == INSTANCE KeyQueue WITH
    Capacity <- KEYBUF_SIZE - 1, queue <- Contents(ring), waiting <- reading

ImplementsKeyQueue == Queue!Spec
=============================================================================
