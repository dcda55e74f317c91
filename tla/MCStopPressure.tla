--------------------------- MODULE MCStopPressure ---------------------------
(***************************************************************************)
(* A pool of events for TLC: three contributors, one of them with enough   *)
(* accurate repeats to reach the threshold alone, four days, the service   *)
(* night gap, positions on both sides of the cluster radius, every         *)
(* accuracy band.                                                          *)
(***************************************************************************)
EXTENDS StopPressure

Ev(id, type, who, time, pos, accuracy) ==
    [id |-> id, type |-> type, who |-> who, time |-> time, pos |-> pos, accuracy |-> accuracy]

MCPool ==
    { Ev(1, "stop_exists",     1, 10,   0,    5), Ev(2, "stop_name",     1, 34,  40,   15),
      Ev(3, "stop_location",   1, 35,  60,    4), Ev(4, "stop_exists",   2, 34,  10,    5),
      Ev(5, "stop_name",       3, 26, 100,   60), Ev(6, "stop_location", 1, 82,  20,    3),
      Ev(7, "stop_not_exists", 2, 12,  30,  150), Ev(8, "stop_name",     1, 59, NoPos,  5),
      Ev(9, "stop_exists",     1, 60,   5, 9000), Ev(10, "stop_exists",  1, 61,   6, NoAccuracy),
      Ev(11, "stop_name",      1, 82,   7,    5), Ev(12, "stop_location", 1, 82,  8,    5),
      Ev(13, "stop_name",      1, 82,   9,    5), Ev(14, "stop_exists",  1, 82,  10,    5),
      Ev(15, "stop_location",  3, 34,  20,    4) }

\* Three contributors of full weight, whose score lies between the base threshold
\* plus the cap and what five uncapped reports would ask for, and a contribution
\* so poor that a single report outweighs it.
MCContested == {e \in MCPool : e.id \in {1, 4, 9, 15}}

\* Close to the pool.
MCPlaces == {10}

\* A Stop that is still to be created, and an established one.
MCSeeds == {NoStop, 4000}
=============================================================================
