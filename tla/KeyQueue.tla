------------------------------ MODULE KeyQueue ------------------------------
(***************************************************************************)
(* What INT 16h of the BIOS promises a guest: a bounded queue of keys, in  *)
(* which an ESC key is not a key of its own but the first half of a pair.  *)
(* It is delivered only when the next key is there, and then it is the     *)
(* next key that is delivered.                                             *)
(***************************************************************************)
EXTENDS Integers, Sequences

CONSTANTS Keys, Esc, NoKey, Capacity

VARIABLES
    queue,      \* the keys accepted and not yet delivered, oldest first
    waiting,    \* the guest waits in a blocking read
    reply       \* what the last call of the guest returned

vars == <<queue, waiting, reply>>

Ready(q) == Len(q) > 0 /\ (Head(q) = Esc => Len(q) > 1)

First(q) == IF Head(q) = Esc THEN q[2] ELSE q[1]

Rest(q) == IF Head(q) = Esc THEN Tail(Tail(q)) ELSE Tail(q)

\* q1 is q, or q and one more key where it has room.
MayGrow(q, q1) ==
    \/ q1 = q
    \/ Len(q) < Capacity /\ \E k \in Keys : q1 = Append(q, k)

Init == queue = << >> /\ waiting = FALSE /\ reply = NoKey

\* A key arrives, or does not.
Arrive ==
    /\ MayGrow(queue, queue')
    /\ UNCHANGED <<waiting, reply>>

StartRead ==
    /\ ~waiting
    /\ waiting' = TRUE
    /\ UNCHANGED <<queue, reply>>

\* The wait of a blocking read ends: with the key that is next.
Deliver ==
    \E q \in {queue} \cup {Append(queue, k) : k \in Keys} :
        /\ waiting /\ MayGrow(queue, q) /\ Ready(q)
        /\ First(q) # NoKey
        /\ queue' = Rest(q) /\ reply' = First(q) /\ waiting' = FALSE

\* A key whose code is 0 cannot be told from no key: the read swallows it.
Swallow ==
    \E q \in {queue} \cup {Append(queue, k) : k \in Keys} :
        /\ waiting /\ MayGrow(queue, q) /\ Ready(q)
        /\ First(q) = NoKey
        /\ queue' = Rest(q) /\ UNCHANGED <<waiting, reply>>

\* A look at the next key leaves it where it is.
Peek ==
    /\ ~waiting
    /\ MayGrow(queue, queue')
    /\ reply' = IF Ready(queue') THEN First(queue') ELSE NoKey
    /\ UNCHANGED waiting

Next == Arrive \/ StartRead \/ Deliver \/ Swallow \/ Peek

Spec == Init /\ [][Next]_vars
=============================================================================
