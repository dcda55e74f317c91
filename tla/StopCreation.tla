---------------------------- MODULE StopCreation ----------------------------
(***************************************************************************)
(* How a set of Stop contributions becomes Stops: the weights and spatial  *)
(* clusters of stop_aggregation.py and the gates and threshold of          *)
(* stop_creation.py, as operators on a set of event records                *)
(*   [id, type, who, time, pos, accuracy]                                  *)
(* time is in hours, pos in metres along a line (NoPos: no location in the *)
(* event), accuracy in metres.  Factors are in thousandths, weights and    *)
(* scores in hundred-thousandths, rounded down.  Sorting by (observed_at,  *)
(* submitted_at, id) is sorting by (time, id).                             *)
(***************************************************************************)
EXTENDS Integers, SequencesExt

NoPos == -1000000
NoAccuracy == -1000000

PositiveTypes == {"stop_exists", "stop_name", "stop_location"}

-----------------------------------------------------------------------------
(* Weights *)

\* Straight line from (x0, y0) to (x1, y1) at x.
Between(x, x0, y0, x1, y1) == y0 - ((x - x0) * (y0 - y1)) \div (x1 - x0)

AccuracyWeight(acc) ==
    CASE acc = NoAccuracy -> 500
      [] acc # NoAccuracy /\ acc <= 0 -> 10
      [] acc > 0 /\ acc <= 5 -> 1000
      [] acc > 5 /\ acc <= 15 -> Between(acc, 5, 1000, 15, 800)
      [] acc > 15 /\ acc <= 50 -> Between(acc, 15, 800, 50, 500)
      [] acc > 50 /\ acc <= 100 -> Between(acc, 50, 500, 100, 200)
      [] acc > 100 -> Max({10, 20000 \div acc})

\* MUTANT of UserDampening: a repetition counts like the first contribution.
Undampened(n) == 1000

\* The n-th contribution of one contributor, counted from 0.  The fourth power of
\* a half is below the floor.
UserDampening(n) ==
    CASE n <= 0 -> 1000
      [] n \in 1..3 -> 1000 \div 2^n
      [] n > 3 -> 100

TemporalWeight(t, earliest, latest) ==
    LET span == latest - earliest
        edge == Min({t - earliest, latest - t})
    IN  IF span <= 0 THEN 750 ELSE 500 + (500 * (span - edge)) \div span

Before(f, e) == f.time < e.time \/ (f.time = e.time /\ f.id < e.id)

Sorted(rows) ==
    [i \in 1..Cardinality(rows) |->
        CHOOSE e \in rows : Cardinality({f \in rows : Before(f, e)}) = i - 1]

Times(rows) == {e.time : e \in rows}

\* _calculate_evidence_weight: earlier events of the same contributor dampen.
EvidenceWeight(e, rows) ==
    LET before == {f \in rows : f.who = e.who /\ Before(f, e)}
    IN  (AccuracyWeight(e.accuracy) * UserDampening(Cardinality(before))
          * TemporalWeight(e.time, Min(Times(rows)), Max(Times(rows)))) \div 10000

-----------------------------------------------------------------------------
(* Spatial clusters *)

CLUSTER_RADIUS == 50

SumOfPos(cluster) == MapThenSumSet(LAMBDA e : e.pos, cluster)

\* The distance to the centroid, times the size of the cluster.
ScaledDistance(e, cluster) ==
    LET d == e.pos * Cardinality(cluster) - SumOfPos(cluster) IN IF d < 0 THEN -d ELSE d

\* MUTANT of Assign: the search goes on after the first near cluster.
AssignToAll(clusters, e) ==
    LET near == {i \in DOMAIN clusters :
                    ScaledDistance(e, clusters[i]) <= CLUSTER_RADIUS * Cardinality(clusters[i])}
    IN  IF near = {} THEN Append(clusters, {e})
        ELSE [i \in DOMAIN clusters |-> IF i \in near THEN clusters[i] \cup {e} ELSE clusters[i]]

\* An event joins the first cluster whose running centroid is near, or opens one.
Assign(clusters, e) ==
    LET near == {i \in DOMAIN clusters :
                    ScaledDistance(e, clusters[i]) <= CLUSTER_RADIUS * Cardinality(clusters[i])}
    IN  IF near = {} THEN Append(clusters, {e})
        ELSE [clusters EXCEPT ![Min(near)] = @ \cup {e}]

\* Events without a location are in no cluster.
ClusterEvidence(rows) ==
    ToSet(FoldLeft(Assign, <<>>, Sorted({e \in rows : e.pos # NoPos})))

\* weighted_evidence_score: contributions of every type count, over the weights
\* of the whole evidence.
WeightedScore(cluster, rows) ==
    MapThenSumSet(LAMBDA e : EvidenceWeight(e, rows), cluster)

-----------------------------------------------------------------------------
(* Structural gates and threshold *)

MIN_INDEPENDENT_CONTRIBUTORS == 2
MIN_DISTINCT_DAYS == 2
MIN_EVIDENCE_TYPES == 2
MAX_CLUSTER_RADIUS_METERS == 100
MIN_PLAUSIBLE_HOUR == 4
BASE_CREATION_THRESHOLD == 200000
MAX_NEGATIVE_ADJUSTMENT == 100000

\* MUTANT of Contributors: contributions are counted, not contributors.
ContributionsOf(cluster) == {e.id : e \in cluster}

Contributors(cluster) == {e.who : e \in cluster}
Days(cluster) == {e.time \div 24 : e \in cluster}
EvidenceTypes(cluster) == {e.type : e \in cluster} \cap PositiveTypes
Plausible(time) == time % 24 >= MIN_PLAUSIBLE_HOUR
Coherent(cluster) ==
    \A e \in cluster :
        ScaledDistance(e, cluster) <= MAX_CLUSTER_RADIUS_METERS * Cardinality(cluster)

AllGatesPass(cluster) ==
    /\ Cardinality(Contributors(cluster)) >= MIN_INDEPENDENT_CONTRIBUTORS
    /\ Cardinality(Days(cluster)) >= MIN_DISTINCT_DAYS
    /\ Cardinality(EvidenceTypes(cluster)) >= MIN_EVIDENCE_TYPES
    /\ Coherent(cluster)
    /\ Plausible(Min(Times(cluster))) \/ Plausible(Max(Times(cluster)))

\* MUTANT of AdjustedThreshold: the cap is missing.
UncappedThreshold(negative) == BASE_CREATION_THRESHOLD + negative \div 2

\* Negative evidence raises the threshold, up to a cap.
AdjustedThreshold(negative) ==
    IF negative <= 0 THEN BASE_CREATION_THRESHOLD
    ELSE BASE_CREATION_THRESHOLD + Min({negative \div 2, MAX_NEGATIVE_ADJUSTMENT})

ShouldCreate(cluster, rows, negative) ==
    AllGatesPass(cluster) /\ WeightedScore(cluster, rows) >= AdjustedThreshold(negative)

\* evaluate_with_creation: no negative score is passed to the pipeline.
QualifyingClusters(rows) ==
    {c \in ClusterEvidence(rows) : ShouldCreate(c, rows, 0)}
=============================================================================
