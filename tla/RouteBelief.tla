---------------------------- MODULE RouteBelief ----------------------------
(****************************************************************************)
(* The canonical truth of Routes: how route_aggregation.py groups the       *)
(* contributions about Routes and how RouteEvaluator decides, while         *)
(* contributions arrive and Stops are created.                              *)
(*                                                                          *)
(* An evaluation reads twice, the evidence first and the Stops it refers to *)
(* afterwards, each in a statement of its own (READ COMMITTED), and writes  *)
(* nothing.  The weights of Route evidence reach no decision; they are left *)
(* out.                                                                     *)
(****************************************************************************)
EXTENDS Naturals, FiniteSets

CONSTANTS
    Events,        \* ids of ContributionEvent rows about Routes
    Routes,        \* Route identities, as _extract_route_identity makes them
    NoRoute,       \* a subject_ref without any identity
    Stops,         \* UUIDs of Stops
    People,        \* contributor fingerprints
    Days,          \* calendar days of observation
    EventRoute,    \* the identity in the subject_ref of every event
    EventStops,    \* the well-formed Stop UUIDs in the payload of every event
    EventPerson,   \* contributor_fingerprint of every event
    EventDay,      \* the day of observed_at of every event
    Evaluators     \* database sessions that evaluate Routes

VARIABLES
    evidence,      \* committed events
    current,       \* Stops with a current row (valid_until IS NULL)
    eval           \* evaluator -> the evaluation it is in

vars == <<evidence, current, eval>>

ASSUME RouteAssumption ==
    /\ EventRoute \in [Events -> Routes \cup {NoRoute}] /\ NoRoute \notin Routes
    /\ EventStops \in [Events -> SUBSET Stops]
    /\ EventPerson \in [Events -> People]
    /\ EventDay \in [Events -> Days]
    /\ IsFiniteSet(Events)

\* The evaluation under way: its Route, the evidence it has read, the Stops it
\* has found current, and its decision.
Evaluation == [pc : {"idle", "gathered", "checked"}, route : Routes, rows : SUBSET Events,
               found : SUBSET Stops, canonical : BOOLEAN]

-----------------------------------------------------------------------------
(* Aggregation *)

\* MUTANT of Group: rows that are not committed are read.
GroupUncommitted(route, rows) == {e \in Events : EventRoute[e] = route}

\* _group_by_route_identity: events without an identity are in no group.
Group(route, rows) == {e \in rows : EventRoute[e] = route}

\* _process_group: the independent contributors, the days and the Stops of a group.
Contributors(route, rows) == {EventPerson[e] : e \in Group(route, rows)}
ObservedDays(route, rows) == {EventDay[e] : e \in Group(route, rows)}
References(route, rows) == UNION {EventStops[e] : e \in Group(route, rows)}

-----------------------------------------------------------------------------
(* Decision *)

MIN_INDEPENDENT_CONTRIBUTORS == 2
MIN_DISTINCT_DAYS == 2
MIN_EVIDENCE_COUNT == 3

\* MUTANT of ThresholdMet: exactly the minimum is asked for.
ThresholdHit(route, rows) ==
    /\ Cardinality(Contributors(route, rows)) >= MIN_INDEPENDENT_CONTRIBUTORS
    /\ Cardinality(ObservedDays(route, rows)) >= MIN_DISTINCT_DAYS
    /\ Cardinality(Group(route, rows)) = MIN_EVIDENCE_COUNT

ThresholdMet(route, rows) ==
    /\ Cardinality(Contributors(route, rows)) >= MIN_INDEPENDENT_CONTRIBUTORS
    /\ Cardinality(ObservedDays(route, rows)) >= MIN_DISTINCT_DAYS
    /\ Cardinality(Group(route, rows)) >= MIN_EVIDENCE_COUNT

\* MUTANT of StopsCanonical: one canonical Stop is enough.
SomeStopCanonical(route, rows, found) ==
    References(route, rows) = {} \/ References(route, rows) \cap found # {}

\* A Route without references depends on no Stop.
StopsCanonical(route, rows, found) == References(route, rows) \subseteq found

Canonical(route, rows, found) ==
    ThresholdMet(route, rows) /\ StopsCanonical(route, rows, found)

-----------------------------------------------------------------------------
(* The world around an evaluation *)

\* A contribution is committed; AccountSessions shows that this may happen even
\* after the deletion of its contributor.
Ingest(e) ==
    /\ e \notin evidence
    /\ evidence' = evidence \cup {e}
    /\ UNCHANGED <<current, eval>>

\* The Stop evaluator creates a Stop; no code takes one back.
CreateStop(i) ==
    /\ i \notin current
    /\ current' = current \cup {i}
    /\ UNCHANGED <<evidence, eval>>

-----------------------------------------------------------------------------
(* _execute_route_evaluation and evaluate_routes, for one Route *)

\* _get_route_evidence
Gather(v, route) ==
    /\ eval[v].pc = "idle"
    /\ eval' = [eval EXCEPT ![v].pc = "gathered", ![v].route = route,
                            ![v].rows = Group(route, evidence)]
    /\ UNCHANGED <<evidence, current>>

\* No evidence: no decision.
NothingToDecide(v) ==
    /\ eval[v].pc = "gathered" /\ eval[v].rows = {}
    /\ eval' = [eval EXCEPT ![v].pc = "idle"]
    /\ UNCHANGED <<evidence, current>>

\* _get_stop_canonical_status, then _evaluate_cluster on what was read.
Decide(v) ==
    LET found == References(eval[v].route, eval[v].rows) \cap current IN
    /\ eval[v].pc = "gathered" /\ eval[v].rows # {}
    /\ eval' = [eval EXCEPT ![v].pc = "checked", ![v].found = found,
                            ![v].canonical = Canonical(eval[v].route, eval[v].rows, found)]
    /\ UNCHANGED <<evidence, current>>

\* The executor drops the decision.
Finish(v) ==
    /\ eval[v].pc = "checked"
    /\ eval' = [eval EXCEPT ![v] = [@ EXCEPT !.pc = "idle", !.rows = {}, !.found = {},
                                             !.canonical = FALSE]]
    /\ UNCHANGED <<evidence, current>>

-----------------------------------------------------------------------------
(* Specification *)

Init ==
    /\ evidence = {} /\ current = {}
    /\ eval \in [Evaluators -> {[pc |-> "idle", route |-> r, rows |-> {}, found |-> {},
                                 canonical |-> FALSE] : r \in Routes}]

Next ==
    \/ \E e \in Events : Ingest(e)
    \/ \E i \in Stops : CreateStop(i)
    \/ \E v \in Evaluators : NothingToDecide(v) \/ Decide(v) \/ Finish(v)
    \/ \E v \in Evaluators, r \in Routes : Gather(v, r)

Spec == Init /\ [][Next]_vars

-----------------------------------------------------------------------------
(* Properties *)

\* Every variable has its type, and an evaluation knows only committed events.
TypeOK ==
    /\ evidence \subseteq Events
    /\ current \subseteq Stops
    /\ eval \in [Evaluators -> Evaluation]
    /\ \A v \in Evaluators : eval[v].rows \subseteq evidence

\* R-TRUTH-3 for the decision itself: a Route is called canonical only when all
\* Stops that the evidence behind the decision refers to are canonical, whatever
\* was created or committed between the two reads (route_evaluator.py:443-573).
CanonicalVerdictsAreTrue ==
    \A v \in Evaluators : eval[v].pc = "checked" /\ eval[v].canonical =>
        \A e \in eval[v].rows : EventStops[e] \subseteq current

\* A canonical verdict outlives what is committed after its reads: whatever
\* contributions and Stops arrive until it is used, an evaluation of the present
\* evidence would say the same, unless a later contribution refers to a Stop that
\* is not canonical (route_evaluator.py:430, evaluated from a snapshot).
StaleVerdictsHold ==
    \A v \in Evaluators : LET r == eval[v].route IN
        /\ eval[v].pc = "checked" /\ eval[v].canonical
        /\ References(r, evidence \ eval[v].rows) \subseteq current
        => Canonical(r, evidence, current)

\* Evidence never counts against its own Route, except by the Stops it adds: a
\* canonical Route stays canonical when more of the same is reported.
MoreEvidenceKeepsTruth ==
    [][\A r \in Routes :
          Canonical(r, evidence, current) /\ References(r, evidence') \subseteq current'
             => Canonical(r, evidence, current)']_vars
=============================================================================
