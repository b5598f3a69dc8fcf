---------------------------- MODULE MCSleepClock ----------------------------
(* Instances of SleepClock for TLC, with two ticks to the second.            *)
EXTENDS SleepClock

\* Lengths in seconds; a negative one too, since Sleep_handler refuses none.
Lengths == {-1, 1}
=============================================================================
