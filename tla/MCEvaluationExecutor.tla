------------------------ MODULE MCEvaluationExecutor ------------------------
(****************************************************************************)
(* A small deployment for TLC: two web workers or commands, two Stops of    *)
(* which one is canonical from the start, a closed Stop, a Route.  Evidence *)
(* is evaluated with the gates and weights of StopCreation.                 *)
(****************************************************************************)
EXTENDS EvaluationExecutor, TLC

CONSTANTS s1, s2

Creation == INSTANCE StopCreation

\* Events by number: what they say, about which UUID, and as which evidence.
\*   1, 2  qualify together for canonical Stop 11;  3, 4 for the new Stop 12,
\*   and 5, 6 for the same Stop 12 half a kilometre away;  7 is a poor third
\*   report about Stop 11;  8 names no Stop;  9 is about Route 21;  10 is of a
\*   type without evaluator;  11 has an unreadable payload about Stop 11;  12
\*   spells Stop 12 in capitals;  13 has a number for a stop_id.
Ev(id, type, subject, who, time, pos, accuracy) ==
    [id |-> id, type |-> type, subject |-> subject, who |-> who, time |-> time,
     pos |-> pos, accuracy |-> accuracy]

Table ==
    << Ev(1,  "stop_exists",     11, 1, 10,   0,  5), Ev(2,  "stop_name",     11, 2, 34,   8,  5),
       Ev(3,  "stop_exists",     12, 1, 10, 100,  5), Ev(4,  "stop_location", 12, 2, 34, 110,  5),
       Ev(5,  "stop_exists",     12, 3, 10, 600,  5), Ev(6,  "stop_name",     12, 4, 34, 605,  5),
       Ev(7,  "stop_not_exists", 11, 3, 20,   5, 90), Ev(8,  "stop_exists", NoSubject, 3, 20, 0, 5),
       Ev(9,  "route_exists",    21, 1, 10,   0,  5), Ev(10, "service_time",  21, 2, 10,   0,  5),
       Ev(11, "stop_name",       11, 3, 20,   0,  5), Ev(12, "stop_name",     12, 2, 20, 105,  5),
       Ev(13, "stop_exists", NoSubject, 2, 20, 0, 5) >>

MCEventType == [e \in Events |-> Table[e].type]
MCEventSubject == [e \in Events |-> Table[e].subject]
MCSpelling == [e \in Events |-> CASE e = 12 -> "variant" [] e = 13 -> "not_text"
                                  [] OTHER -> "canonical"]

MCStopIds == {11, 12, 13, 14, 15}
MCRouteIds == {21}
MCSeedStops == {[id |-> 11, public_id |-> 901, refs |-> {}, current |-> TRUE],
                [id |-> 14, public_id |-> 902, refs |-> {}, current |-> FALSE]}
MCRoutes == {[id |-> 21, current |-> TRUE]}

\* Two Stops have their current row, for the runs about whole recomputes.
TwoSeedStops == MCSeedStops \cup
                {[id |-> 12, public_id |-> 903, refs |-> {}, current |-> TRUE]}

\* A key per UUID, Stops and Routes in different namespaces.
MCLockKeys == {"stop11", "stop12", "stop13", "stop14", "stop15", "route21"}
MCLockKey == 11 :> "stop11" @@ 12 :> "stop12" @@ 13 :> "stop13" @@ 14 :> "stop14"
             @@ 15 :> "stop15" @@ 21 :> "route21"

\* The 48-bit hashes of Stops 11 and 12 collide.
CollidingLockKey == [MCLockKey EXCEPT ![12] = "stop11"]

ClustersOf ==
    [rows \in SUBSET Events |->
        {{e.id : e \in c} : c \in Creation!QualifyingClusters({Table[e] : e \in rows})}]

MCClusters(rows) == ClustersOf[rows]

\* For liveness and recomputes an event stands for all the evidence that justifies
\* a Stop, so that two events are enough for two transactions that insert at a time.
BundleClusters(rows) == IF rows = {} THEN {} ELSE {rows}
=============================================================================
