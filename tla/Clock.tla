-------------------------------- MODULE Clock --------------------------------
(***************************************************************************)
(* The time of day of the BIOS (bios/src/timer.c, bios/src/int1ah.c): the  *)
(* timer interrupts of a day are counted, 100 per second, and converted to *)
(* the 18.2 ticks per second that guests expect at 40:6c.  INT 1Ah reads   *)
(* and sets the ticks.  The flag at 40:70 says that midnight has passed    *)
(* since the last time they were read.                                     *)
(***************************************************************************)
EXTENDS Integers

CONSTANTS
    RawPerDay,      \* timer interrupts per day: 24 * 3600 * 100
    TickPerDay,     \* ticks per day: TICK_PER_HOUR * 24
    SetTicks        \* the ticks a guest may set

\* The ticks a count of interrupts stands for, as the code rounds them.
TicksOf(raw) == ((raw * 9) \div 50) + (raw \div 500)

ASSUME ClockAssumption ==
    /\ RawPerDay \in Nat \ {0} /\ TickPerDay \in Nat
    /\ TicksOf(RawPerDay - 1) \in 1 .. TickPerDay - 1
    /\ SetTicks \subseteq 0 .. TickPerDay - 1

VARIABLES
    raw,        \* pc_timer_raw100: interrupts of this day
    offset,     \* TickOffset: what the guest's setting adds to them
    tick,       \* 40:6c
    rollOver,   \* 40:70
    \* History:
    epoch,      \* the tick at which raw was, or would have been, 0
    midnight    \* midnight has passed since the last read

clock == <<raw, offset, tick, rollOver, epoch, midnight>>

ClockInit ==
    /\ raw = 0 /\ offset = 0 /\ tick = 0 /\ rollOver = FALSE
    /\ epoch = 0 /\ midnight = FALSE

-----------------------------------------------------------------------------

\* updateCounter, as two functions of its variables: it starts a new day, ...
Day(r) == IF r >= RawPerDay THEN r - RawPerDay ELSE r

\* Mutant: the sum of two ticks of a day is not brought back into the day.
Counter_NoWrap(r, off) ==
    IF TicksOf(r) + off < 0 THEN TicksOf(r) + off + TickPerDay ELSE TicksOf(r) + off

\* ... and adds the offset, once too much or too little at most.
Counter(r, off) ==
    LET sum == TicksOf(r) + off
        up  == IF sum < 0 THEN sum + TickPerDay ELSE sum
    IN  IF up >= TickPerDay THEN up - TickPerDay ELSE up

\* The clock's half of int_timer_default_handler.
CountInterrupt ==
    /\ raw' = Day(raw + 1)
    /\ tick' = Counter(raw', offset)
    /\ rollOver' = (rollOver \/ tick' < tick)
    \* The time went on by the ticks of one interrupt, or of the rest of a day
    \* that is shorter than TickPerDay.
    /\ midnight' =
         LET past == IF raw + 1 >= RawPerDay THEN TickPerDay - TicksOf(raw)
                                             ELSE TicksOf(raw + 1) - TicksOf(raw)
         IN  midnight \/ tick + past >= TickPerDay
    /\ UNCHANGED <<offset, epoch>>

\* INT 1Ah, AH = 00h: the flag is read and cleared.
int1a_handler_ah00 ==
    /\ rollOver' = FALSE
    /\ midnight' = FALSE
    /\ UNCHANGED <<raw, offset, tick, epoch>>

\* Mutant: the old offset is left in the counter that the new one is taken from.
updateTickOffset_Twice(newTick) == newTick - Counter(Day(raw), offset)

updateTickOffset(newTick) == newTick - Counter(Day(raw), 0)

\* INT 1Ah, AH = 01h.
int1a_handler_ah01 ==
    \E t \in SetTicks :
        /\ offset' = updateTickOffset(t)
        /\ tick' = t
        /\ epoch' = (t - TicksOf(raw)) % TickPerDay
        /\ UNCHANGED <<raw, rollOver, midnight>>

ClockNext == CountInterrupt \/ int1a_handler_ah00 \/ int1a_handler_ah01

ClockSpec == ClockInit /\ [][ClockNext]_clock

-----------------------------------------------------------------------------
\* Properties.

\* The tick is that of the day, and runs on from the one the guest has set: the
\* offset that makes up for the interrupts before is right on every day after,
\* and one correction by a day is always enough.
ClockRuns == tick = (epoch + TicksOf(raw)) % TickPerDay

\* A guest that reads the ticks learns of midnight when it has passed, and only
\* then, whatever the tick that was set.
MidnightTold == rollOver = midnight
=============================================================================
