------------------------------ MODULE RingFifo ------------------------------
(***************************************************************************)
(* What one direction of the shared descriptor memory promises its two     *)
(* users: a bounded first-in first-out channel.  Nothing put into it is    *)
(* lost, duplicated, changed or overtaken until the channel is closed.     *)
(***************************************************************************)
EXTENDS Naturals, Sequences

CONSTANTS Values, Capacity

VARIABLES q,     \* what is in the channel, oldest first
          open   \* the channel has not been closed

Init == q = << >> /\ open = TRUE

Put == /\ open /\ Len(q) < Capacity
       /\ \E v \in Values : q' = Append(q, v)
       /\ UNCHANGED open

Get == /\ open /\ q # << >>
       /\ q' = Tail(q)
       /\ UNCHANGED open

Close == /\ open
         /\ q' = << >>
         /\ open' = FALSE

Next == Put \/ Get \/ Close

Spec == Init /\ [][Next]_<< q, open >>
=============================================================================
