------------------------------- MODULE Timer -------------------------------
(***************************************************************************)
(* A channel of the 8254 as src/src/dev_timer.c keeps it: 16-bit values    *)
(* that pass through an 8-bit port in two halves.  One flip-flop, rwCount, *)
(* and one latch, counter_shadow, serve reads and writes.  Nothing counts: *)
(* each latch command takes the next value of dummy_counter.               *)
(***************************************************************************)
EXTENDS Naturals

CONSTANTS
    Base,     \* of a byte: 256, in small instances less
    ByteOr    \* the bitwise or of two bytes

ASSUME TimerAssumption ==
    /\ Base \in Nat \ {0, 1}
    /\ ByteOr \in [(0 .. Base - 1) \X (0 .. Base - 1) -> 0 .. Base - 1]
    /\ \A b \in 0 .. Base - 1 : ByteOr[0, b] = b

Words == 0 .. (Base * Base) - 1
Timers == [rw : 0 .. 3, rwCount : 0 .. 1, counter : Words, counter_shadow : Words,
           dummy_counter : Words]

ResetTimer == [rw |-> 0, rwCount |-> 0, counter |-> 0, counter_shadow |-> 0,
               dummy_counter |-> 0]

\* The next value of the counter that does not count.
Dummy(t) ==
    CASE t.dummy_counter # 0 -> t.dummy_counter - 1
      [] t.dummy_counter = 0 /\ t.counter # 0 -> t.counter - 1
      [] OTHER -> 0

\* writeTimerReg of the control port: a mode, or with rw = 0 the latch command,
\* which is stored as the mode as well.
writeControl(t, rw) ==
    IF rw # 0 THEN [t EXCEPT !.rw = rw, !.rwCount = 0]
    ELSE [t EXCEPT !.rw = 0, !.rwCount = 0, !.counter_shadow = t.dummy_counter,
                   !.dummy_counter = Dummy(t)]

\* writeTimerReg of the counter's port.
writeCounter(t, data) ==
    CASE t.rw = 1 -> [t EXCEPT !.counter = data, !.counter_shadow = data]
      [] t.rw = 2 -> [t EXCEPT !.counter = data * Base, !.counter_shadow = data * Base]
      [] t.rw \in {0, 3} /\ t.rwCount = 0 ->
            [t EXCEPT !.counter_shadow = data, !.rwCount = 1]
      [] t.rw \in {0, 3} /\ t.rwCount = 1 ->
            LET w == (t.counter_shadow % Base)
                     + (ByteOr[t.counter_shadow \div Base, data] * Base)
            IN  [t EXCEPT !.counter_shadow = w, !.counter = w, !.rwCount = 0]

\* readTimerReg: what the counter's port gives, and the channel afterwards.
readByte(t) ==
    IF t.rw = 1 \/ (t.rw \in {0, 3} /\ t.rwCount = 0) THEN t.counter_shadow % Base
    ELSE t.counter_shadow \div Base

readCounter(t) == IF t.rw \in {0, 3} THEN [t EXCEPT !.rwCount = 1 - @] ELSE t

\* The interval of the host's timer that the program of channel 0 asks for, in
\* microseconds: none for a counter of 0, nor of 1.
Interval(t) == (t.counter * 10000) \div 11931
=============================================================================
