---------------------------- MODULE MCRunTiming ----------------------------
(* The limits of the code, in fifths of a second. *)
EXTENDS RunTiming

SixtySeconds == 60 * 5
ThirtySeconds == 30 * 5

\* A call is quick, slow, or hangs for longer than half of the deadline.
SomeDurations == {1, 35, 170}
=============================================================================
