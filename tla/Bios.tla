-------------------------------- MODULE Bios --------------------------------
(***************************************************************************)
(* The services of the BIOS that share the timer interrupt: its handler    *)
(* counts the time of day and then reads the keyboard.  It and the         *)
(* handlers of INT 10h, INT 16h and INT 1Ah run with interrupts disabled,  *)
(* one at a time.  INT 10h shares no state with the others: a guest of     *)
(* this model uses either it or them.                                      *)
(***************************************************************************)
EXTENDS Keyboard, Clock, Video

allVars == <<vars, clock, video>>

BiosInit == Init /\ ClockInit /\ VideoInit

int_timer_default_handler == CountInterrupt /\ PollFromTimer

\* INT 16h, and the user at the terminal.
Keys16 ==
    /\ Press \/ StartRead \/ int16_handler_ah00 \/ int16_handler_ah01
             \/ int16_handler_ah05
    /\ UNCHANGED clock

\* INT 1Ah.
Time1A ==
    /\ ~reading
    /\ int1a_handler_ah00 \/ int1a_handler_ah01
    /\ UNCHANGED vars

\* INT 10h, and when the guest has made its calls, no more.
Video10 ==
    /\ VideoNext \/ (asks # {} /\ left = 0 /\ UNCHANGED video)
    /\ UNCHANGED <<vars, clock>>

BiosNext ==
    \/ asks = {} /\ UNCHANGED video /\ (int_timer_default_handler \/ Keys16 \/ Time1A)
    \/ Video10

\* The loop of a blocking read is the guest's own code: it runs.
BiosSpec ==
    /\ BiosInit /\ [][BiosNext]_allVars
    /\ WF_allVars(int16_handler_ah00 /\ UNCHANGED <<clock, video>>)
=============================================================================
