--------------------------- MODULE BoundedChannel ---------------------------
(***************************************************************************)
(* What SampleQueue promises its users: a first-in, first-out channel that *)
(* holds at most Capacity samples until it is finished.  After that a push *)
(* is accepted at once and a pop takes what is left.                       *)
(***************************************************************************)
EXTENDS Naturals, Sequences

CONSTANTS Samples, Capacity

VARIABLES chan, closed

Init == chan = <<>> /\ closed = FALSE

Put == /\ Len(chan) < Capacity \/ closed
       /\ \E s \in Samples : chan' = Append(chan, s)
       /\ UNCHANGED closed

Get == /\ chan # <<>>
       /\ chan' = Tail(chan)
       /\ UNCHANGED closed

Close == closed' = TRUE /\ UNCHANGED chan

Next == Put \/ Get \/ Close

Spec == Init /\ [][Next]_<<chan, closed>>
=============================================================================
