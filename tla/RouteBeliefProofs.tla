------------------------- MODULE RouteBeliefProofs -------------------------
(****************************************************************************)
(* Theorems about RouteBelief, for every finite set of events, whatever     *)
(* Routes, Stops, people and days they are about, and any number of         *)
(* evaluators.                                                              *)
(****************************************************************************)
EXTENDS RouteBelief, FiniteSetTheorems, TLAPS

(****************************************************************************)
(* Counting: finite sets of rows, people and days                           *)
(****************************************************************************)

\* A function maps a finite set to a finite set.
LEMMA ImageIsFinite ==
    ASSUME NEW S, IsFiniteSet(S), NEW f
    PROVE  IsFiniteSet({f[x] : x \in S})
<1> DEFINE g == [x \in S |-> f[x]]
<1>1. g \in Surjection(S, {f[x] : x \in S})
  BY DEF Surjection
<1> QED
  BY <1>1, FS_Surjection

\* What is counted of the evidence of a Route can be counted.
LEMMA CountsAreNumbers ==
    ASSUME NEW rows \in SUBSET Events, NEW r
    PROVE  /\ IsFiniteSet(Group(r, rows)) /\ Cardinality(Group(r, rows)) \in Nat
           /\ IsFiniteSet(Contributors(r, rows)) /\ Cardinality(Contributors(r, rows)) \in Nat
           /\ IsFiniteSet(ObservedDays(r, rows)) /\ Cardinality(ObservedDays(r, rows)) \in Nat
<1>1. IsFiniteSet(Group(r, rows))
  BY RouteAssumption, FS_Subset DEF Group
<1>2. IsFiniteSet(Contributors(r, rows))
  BY <1>1, ImageIsFinite DEF Contributors
<1>3. IsFiniteSet(ObservedDays(r, rows))
  BY <1>1, ImageIsFinite DEF ObservedDays
<1> QED
  BY <1>1, <1>2, <1>3, FS_CardinalityType

\* More evidence has no fewer rows, contributors and days.
LEMMA CountsGrow ==
    ASSUME NEW more \in SUBSET Events, NEW rows \in SUBSET more, NEW r
    PROVE  /\ Cardinality(Group(r, rows)) <= Cardinality(Group(r, more))
           /\ Cardinality(Contributors(r, rows)) <= Cardinality(Contributors(r, more))
           /\ Cardinality(ObservedDays(r, rows)) <= Cardinality(ObservedDays(r, more))
<1>1. Group(r, rows) \subseteq Group(r, more)
  BY DEF Group
<1>2. /\ Contributors(r, rows) \subseteq Contributors(r, more)
      /\ ObservedDays(r, rows) \subseteq ObservedDays(r, more)
  BY <1>1 DEF Contributors, ObservedDays
<1> QED
  BY <1>1, <1>2, CountsAreNumbers, FS_Subset

\* The threshold, once met, stays met.
LEMMA ThresholdStays ==
    ASSUME NEW more \in SUBSET Events, NEW rows \in SUBSET more, NEW r, ThresholdMet(r, rows)
    PROVE  ThresholdMet(r, more)
<1>1. rows \in SUBSET Events
  OBVIOUS
<1> QED
  BY <1>1, CountsGrow, CountsAreNumbers
     DEF ThresholdMet, MIN_INDEPENDENT_CONTRIBUTORS, MIN_DISTINCT_DAYS, MIN_EVIDENCE_COUNT

(****************************************************************************)
(* Type correctness                                                         *)
(****************************************************************************)

LEMMA InitType == Init => TypeOK
<1> SUFFICES ASSUME Init PROVE TypeOK
    OBVIOUS
<1> DEFINE Start == {[pc |-> "idle", route |-> r, rows |-> {}, found |-> {},
                      canonical |-> FALSE] : r \in Routes}
<1>1. \A r \in Routes : [pc |-> "idle", route |-> r, rows |-> {}, found |-> {},
                           canonical |-> FALSE] \in Evaluation
  BY DEF Evaluation
<1>2. eval \in [Evaluators -> Start]
  BY DEF Init
<1>3. \A v \in Evaluators : eval[v].rows = {}
  BY <1>2
<1>4. eval \in [Evaluators -> Evaluation]
  BY <1>1, <1>2
<1> QED
  BY <1>3, <1>4 DEF Init, TypeOK

\* A step of one evaluation.
LEMMA EvaluationStep ==
    ASSUME TypeOK, NEW v \in Evaluators, eval' = [eval EXCEPT ![v] = eval'[v]],
           eval'[v] \in Evaluation, eval'[v].rows \subseteq evidence,
           UNCHANGED <<evidence, current>>
    PROVE  TypeOK'
BY DEF TypeOK

LEMMA TypeStep == TypeOK /\ [Next]_vars => TypeOK'
<1> SUFFICES ASSUME TypeOK, [Next]_vars PROVE TypeOK'
    OBVIOUS
<1> USE DEF TypeOK
<1>1. ASSUME NEW e \in Events, Ingest(e) PROVE TypeOK'
  BY <1>1 DEF Ingest
<1>2. ASSUME NEW i \in Stops, CreateStop(i) PROVE TypeOK'
  BY <1>2 DEF CreateStop
<1>3. ASSUME NEW v \in Evaluators, NEW r \in Routes, Gather(v, r) PROVE TypeOK'
  <2>1. Group(r, evidence) \in SUBSET Events /\ Group(r, evidence) \subseteq evidence
    BY DEF Group
  <2>2. eval'[v] = [eval[v] EXCEPT !.pc = "gathered", !.route = r, !.rows = Group(r, evidence)]
    BY <1>3 DEF Gather
  <2>3. eval' = [eval EXCEPT ![v] = eval'[v]]
    BY <1>3 DEF Gather
  <2>4. eval[v] \in Evaluation
    OBVIOUS
  <2> HIDE DEF TypeOK
  <2>5. eval'[v] \in Evaluation
    BY <2>1, <2>2, <2>4 DEF Evaluation
  <2>6. eval'[v].rows = Group(r, evidence)
    BY <2>2, <2>4 DEF Evaluation
  <2> QED
    BY <1>3, <2>1, <2>3, <2>5, <2>6, EvaluationStep DEF Gather
<1>4. ASSUME NEW v \in Evaluators, NothingToDecide(v) PROVE TypeOK'
  <2>1. eval'[v] = [eval[v] EXCEPT !.pc = "idle"] /\ eval' = [eval EXCEPT ![v] = eval'[v]]
    BY <1>4 DEF NothingToDecide
  <2>2. eval[v] \in Evaluation /\ eval[v].rows \subseteq evidence
    OBVIOUS
  <2> HIDE DEF TypeOK
  <2>3. eval'[v] \in Evaluation /\ eval'[v].rows = eval[v].rows
    BY <2>1, <2>2 DEF Evaluation
  <2> QED
    BY <1>4, <2>1, <2>2, <2>3, EvaluationStep DEF NothingToDecide
<1>5. ASSUME NEW v \in Evaluators, Decide(v) PROVE TypeOK'
  <2> DEFINE found == References(eval[v].route, eval[v].rows) \cap current
             verdict == Canonical(eval[v].route, eval[v].rows, found)
  <2>1. found \in SUBSET Stops /\ verdict \in BOOLEAN
    BY DEF Canonical, ThresholdMet, StopsCanonical
  <2>2. eval' = [eval EXCEPT ![v] = [eval[v] EXCEPT !.pc = "checked", !.found = found,
                                                    !.canonical = verdict]]
    BY <1>5 DEF Decide
  <2>3. eval[v] \in Evaluation /\ eval[v].rows \subseteq evidence /\ v \in DOMAIN eval
    OBVIOUS
  <2> HIDE DEF TypeOK, found, verdict
  <2>4. eval'[v] = [eval[v] EXCEPT !.pc = "checked", !.found = found, !.canonical = verdict]
    BY <2>2, <2>3
  <2>5. eval'[v] \in Evaluation /\ eval'[v].rows = eval[v].rows
    BY <2>1, <2>3, <2>4 DEF Evaluation
  <2>6. eval' = [eval EXCEPT ![v] = eval'[v]]
    BY <2>2, <2>4
  <2> QED
    BY <1>5, <2>3, <2>5, <2>6, EvaluationStep DEF Decide
<1>6. ASSUME NEW v \in Evaluators, Finish(v) PROVE TypeOK'
  <2>1. eval'[v] = [eval[v] EXCEPT !.pc = "idle", !.rows = {}, !.found = {}, !.canonical = FALSE]
    BY <1>6 DEF Finish
  <2>2. eval' = [eval EXCEPT ![v] = eval'[v]]
    BY <1>6 DEF Finish
  <2>3. eval[v] \in Evaluation
    OBVIOUS
  <2> HIDE DEF TypeOK
  <2>4. eval'[v] \in Evaluation /\ eval'[v].rows = {}
    BY <2>1, <2>3 DEF Evaluation
  <2> QED
    BY <1>6, <2>2, <2>4, EvaluationStep DEF Finish
<1>7. CASE UNCHANGED vars
  BY <1>7 DEF vars
<1> QED
  BY <1>1, <1>2, <1>3, <1>4, <1>5, <1>6, <1>7 DEF Next

\* Every variable keeps its type (route_evaluator.py:430-573).
THEOREM RouteTypeCorrect == Spec => []TypeOK
BY InitType, TypeStep, PTL DEF Spec

(****************************************************************************)
(* A canonical verdict is true                                              *)
(****************************************************************************)

\* What an evaluation has read is evidence about its Route.
RowsAreOfRoute ==
    \A v \in Evaluators : \A e \in eval[v].rows : EventRoute[e] = eval[v].route

LEMMA RowsAreOfRouteInit == Init => RowsAreOfRoute /\ CanonicalVerdictsAreTrue
<1> SUFFICES ASSUME Init, NEW v \in Evaluators
             PROVE  eval[v].rows = {} /\ eval[v].pc = "idle"
    BY DEF RowsAreOfRoute, CanonicalVerdictsAreTrue
<1> QED
    BY DEF Init

LEMMA RowsAreOfRouteStep == TypeOK /\ RowsAreOfRoute /\ [Next]_vars => RowsAreOfRoute'
<1> SUFFICES ASSUME TypeOK, RowsAreOfRoute, [Next]_vars, NEW v \in Evaluators,
                    NEW e \in eval'[v].rows
             PROVE  EventRoute[e] = eval'[v].route
    BY DEF RowsAreOfRoute
<1> USE DEF TypeOK, Evaluation, RowsAreOfRoute
<1>1. ASSUME NEW w \in Evaluators, NEW r \in Routes, Gather(w, r)
      PROVE  EventRoute[e] = eval'[v].route
  BY <1>1 DEF Gather, Group
<1>2. ASSUME NEW w \in Evaluators, NothingToDecide(w) \/ Decide(w) \/ Finish(w)
      PROVE  EventRoute[e] = eval'[v].route
  <2>1. CASE NothingToDecide(w)
    BY <2>1 DEF NothingToDecide
  <2>2. CASE Decide(w)
    BY <2>2 DEF Decide
  <2>3. CASE Finish(w)
    BY <2>3 DEF Finish
  <2> QED
    BY <1>2, <2>1, <2>2, <2>3
<1>3. CASE UNCHANGED eval
  BY <1>3
<1> QED
  BY <1>1, <1>2, <1>3 DEF Next, vars, Ingest, CreateStop

\* Only a decision makes an evaluation one that has been decided.
LEMMA OnlyDecideChecks ==
    ASSUME TypeOK, [Next]_vars, NEW v \in Evaluators, eval'[v].pc = "checked", eval'[v] # eval[v]
    PROVE  Decide(v)
<1>1. ASSUME NEW w \in Evaluators, NEW r \in Routes, Gather(w, r) PROVE FALSE
  BY <1>1 DEF Gather, TypeOK, Evaluation
<1>2. ASSUME NEW w \in Evaluators, NothingToDecide(w) \/ Finish(w) PROVE FALSE
  BY <1>2 DEF NothingToDecide, Finish, TypeOK, Evaluation
<1>3. ASSUME NEW w \in Evaluators, Decide(w) PROVE w = v
  BY <1>3 DEF Decide, TypeOK
<1> QED
  BY <1>1, <1>2, <1>3 DEF Next, vars, Ingest, CreateStop

\* The decision looks at the Stops of everything it has read, and no Stop that
\* was found current ceases to be.
LEMMA VerdictStep ==
    TypeOK /\ RowsAreOfRoute /\ CanonicalVerdictsAreTrue /\ [Next]_vars => CanonicalVerdictsAreTrue'
<1> SUFFICES ASSUME TypeOK, RowsAreOfRoute, CanonicalVerdictsAreTrue, [Next]_vars,
                    NEW v \in Evaluators, eval'[v].pc = "checked", eval'[v].canonical,
                    NEW e \in eval'[v].rows
             PROVE  EventStops[e] \subseteq current'
    BY DEF CanonicalVerdictsAreTrue
<1>1. current \subseteq current'
  BY DEF Next, vars, Ingest, CreateStop, Gather, NothingToDecide, Decide, Finish
<1>2. CASE eval'[v] = eval[v]
  BY <1>1, <1>2 DEF CanonicalVerdictsAreTrue
<1>3. CASE Decide(v)
  <2>1. /\ eval'[v].rows = eval[v].rows
        /\ Canonical(eval[v].route, eval[v].rows,
                     References(eval[v].route, eval[v].rows) \cap current)
    BY <1>3 DEF Decide, TypeOK, Evaluation
  <2>2. e \in Group(eval[v].route, eval[v].rows)
    BY <2>1 DEF RowsAreOfRoute, Group
  <2>3. EventStops[e] \subseteq References(eval[v].route, eval[v].rows)
    BY <2>2 DEF References
  <2> QED
    BY <1>1, <2>1, <2>3 DEF Canonical, StopsCanonical
<1>4. ASSUME eval'[v] # eval[v] PROVE Decide(v)
  BY <1>4, OnlyDecideChecks
<1> QED
  BY <1>2, <1>3, <1>4

\* A Route is found canonical only when all Stops that the evidence behind the
\* decision refers to are (R-TRUTH-3, route_evaluator.py:443-573).
THEOREM VerdictsAreTrue == Spec => []CanonicalVerdictsAreTrue
BY RouteTypeCorrect, RowsAreOfRouteInit, RowsAreOfRouteStep, VerdictStep, PTL DEF Spec

\* The evidence behind a canonical verdict meets the threshold.
VerdictsMetThreshold ==
    \A v \in Evaluators : eval[v].pc = "checked" /\ eval[v].canonical =>
        ThresholdMet(eval[v].route, eval[v].rows)

LEMMA ThresholdStep == TypeOK /\ VerdictsMetThreshold /\ [Next]_vars => VerdictsMetThreshold'
<1> SUFFICES ASSUME TypeOK, VerdictsMetThreshold, [Next]_vars,
                    NEW v \in Evaluators, eval'[v].pc = "checked", eval'[v].canonical
             PROVE  ThresholdMet(eval'[v].route, eval'[v].rows)
    BY DEF VerdictsMetThreshold, ThresholdMet, Contributors, ObservedDays, Group
<1>1. CASE eval'[v] = eval[v]
  BY <1>1 DEF VerdictsMetThreshold
<1>2. CASE Decide(v)
  BY <1>2 DEF Decide, TypeOK, Evaluation, Canonical
<1>3. ASSUME eval'[v] # eval[v] PROVE Decide(v)
  BY <1>3, OnlyDecideChecks
<1> QED
  BY <1>1, <1>2, <1>3

LEMMA VerdictsMeetThreshold == Spec => []VerdictsMetThreshold
<1>1. Init => VerdictsMetThreshold
  <2> SUFFICES ASSUME Init, NEW v \in Evaluators PROVE eval[v].pc = "idle"
      BY DEF VerdictsMetThreshold
  <2> QED
      BY DEF Init
<1> QED
  BY <1>1, ThresholdStep, RouteTypeCorrect, PTL DEF Spec

(****************************************************************************)
(* What changes the truth of a Route                                        *)
(****************************************************************************)

LEMMA EvidenceGrows == [Next]_vars => evidence \subseteq evidence'
BY DEF Next, vars, Ingest, CreateStop, Gather, NothingToDecide, Decide, Finish

\* More of the same evidence keeps a Route canonical (route_evaluator.py:480-573).
THEOREM EvidenceIsMonotone == Spec => MoreEvidenceKeepsTruth
<1>1. ASSUME TypeOK, TypeOK', [Next]_vars, NEW r \in Routes,
             Canonical(r, evidence, current), References(r, evidence') \subseteq current'
      PROVE  Canonical(r, evidence', current')
  <2>1. ThresholdMet(r, evidence')
    BY <1>1, EvidenceGrows, ThresholdStays DEF TypeOK, Canonical
  <2> QED
    BY <1>1, <2>1 DEF Canonical, StopsCanonical
<1>2. TypeOK /\ TypeOK' /\ [Next]_vars =>
         [\A r \in Routes :
             Canonical(r, evidence, current) /\ References(r, evidence') \subseteq current'
                => Canonical(r, evidence, current)']_vars
  BY <1>1 DEF Canonical
<1> QED
  BY <1>2, RouteTypeCorrect, PTL DEF Spec, MoreEvidenceKeepsTruth

\* A canonical verdict is the verdict of the present evidence too, unless later
\* contributions refer to Stops that are not current (route_evaluator.py:430).
THEOREM VerdictsOutliveReads == Spec => []StaleVerdictsHold
<1>1. TypeOK /\ CanonicalVerdictsAreTrue /\ VerdictsMetThreshold => StaleVerdictsHold
  <2> SUFFICES ASSUME TypeOK, CanonicalVerdictsAreTrue, VerdictsMetThreshold,
                      NEW v \in Evaluators, eval[v].pc = "checked", eval[v].canonical,
                      References(eval[v].route, evidence \ eval[v].rows) \subseteq current
               PROVE  Canonical(eval[v].route, evidence, current)
      BY DEF StaleVerdictsHold
  <2>1. ThresholdMet(eval[v].route, evidence)
    BY ThresholdStays DEF TypeOK, VerdictsMetThreshold
  <2>2. References(eval[v].route, evidence) \subseteq current
    <3> SUFFICES ASSUME NEW e \in Group(eval[v].route, evidence) PROVE EventStops[e] \subseteq current
        BY DEF References
    <3>1. CASE e \in eval[v].rows
      BY <3>1 DEF CanonicalVerdictsAreTrue
    <3>2. CASE e \notin eval[v].rows
      BY <3>2 DEF References, Group
    <3> QED
      BY <3>1, <3>2
  <2> QED
    BY <2>1, <2>2 DEF Canonical, StopsCanonical
<1> QED
  BY <1>1, RouteTypeCorrect, VerdictsAreTrue, VerdictsMeetThreshold, PTL
=============================================================================
