------------------------- MODULE MCElevatorControl --------------------------
(* Small instances of ElevatorControl for TLC. *)
EXTENDS ElevatorControl

\* The default of an elevator between two floors at start-up (-1 in the code).
Between == -1

\* A landing at an end, a cab call at the other, and a landing between them that is
\* passed by on the way up and stopped at on the way down.
ThreeButtons == {<<0, "up">>, <<1, "down">>, <<2, "cab">>}
\* The landing call another elevator may be given, or none.
DownElsewhere == {<<1, "down">>}
NothingElsewhere == {}

TwoButtons == {<<1, "up">>, <<2, "cab">>}
=============================================================================
