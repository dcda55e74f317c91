--------------------------- MODULE MCRouteBelief ---------------------------
(***************************************************************************)
(* Two Routes, two Stops and three contributors for TLC.  Events 1 to 4    *)
(* are about Route ra: three make it canonical once Stop sa is, the        *)
(* fourth, by a person who has already contributed, adds Stop sb.  Events  *)
(* 5 to 7 are about rb, by one person: enough of them on enough days.      *)
(***************************************************************************)
EXTENDS RouteBelief, Sequences, TLC

CONSTANTS ra, rb, sa, sb, p1, p2, p3, v1

Ev(route, who, day, stops) == [route |-> route, who |-> who, day |-> day, stops |-> stops]

Table ==
    << Ev(ra, p1, 1, {sa}), Ev(ra, p2, 2, {sa}), Ev(ra, p2, 2, {}), Ev(ra, p1, 3, {sa, sb}),
       Ev(rb, p3, 1, {}),   Ev(rb, p3, 2, {sb}), Ev(rb, p3, 3, {}) >>

MCEventRoute == [e \in Events |-> Table[e].route]
MCEventStops == [e \in Events |-> Table[e].stops]
MCEventPerson == [e \in Events |-> Table[e].who]
MCEventDay == [e \in Events |-> Table[e].day]
=============================================================================
