---------------------------- MODULE StopPressure ----------------------------
(*****************************************************************************)
(* Negative evidence against one Stop over many evaluation cycles: the       *)
(* analyzer and the confidence adjuster of stop_negative_evidence.py and     *)
(* the raised threshold of StopCreationPipeline when it is given negative    *)
(* contributions.  Nothing in the repository but its tests drives these      *)
(* parts; as there, the new confidence of one cycle is the current           *)
(* confidence of the next.                                                   *)
(*                                                                           *)
(* Confidence is in ten-thousandths, the precision of its column, with       *)
(* reductions rounded down; scores are in hundred-thousandths, time in days. *)
(*****************************************************************************)
EXTENDS StopBelief

CONSTANTS
    Contested,     \* bound: the part of Pool beside which there are reports
    Places,        \* positions of reports against the Stop
    Seeds,         \* confidence the Stop's row may have from the start
    MaxReports,    \* bound: reports against the Stop
    Calendar       \* bound: the days on which anything happens

VARIABLES
    reports,       \* reports against the Stop, each its place and day
    today,         \* the day of the next evaluation
    confidence     \* structural_confidence of the Stop, or NoStop

vars == <<rows, reports, today, confidence>>

NoStop == -1

ASSUME PressureAssumption ==
    /\ Contested \subseteq Pool
    /\ Seeds \subseteq 0..10000 \cup {NoStop} /\ MaxReports \in Nat
    /\ 0 \in Calendar /\ Calendar \subseteq Nat

-----------------------------------------------------------------------------
(* NegativeEvidenceAnalyzer *)

RADIUS == 50
WINDOW_DAYS == 7
REPORT_WEIGHT == 50000
CREDIBILITY_THRESHOLD == 30000

\* Near the centroid of the cluster, and within the window.
InScope(n, cluster) ==
    /\ n.pos # NoPos
    /\ ScaledDistance(n, cluster) <= RADIUS * Cardinality(cluster)
    /\ today - n.day <= WINDOW_DAYS

Against(cluster) == {i \in DOMAIN reports : InScope(reports[i], cluster)}

NegativeScore(cluster) == REPORT_WEIGHT * Cardinality(Against(cluster))
Credible(cluster) == NegativeScore(cluster) >= CREDIBILITY_THRESHOLD

-----------------------------------------------------------------------------
(* ConfidenceAdjuster *)

MAX_PROPOSAL == 2500
MAX_REDUCTION_PER_CYCLE == 1500
MINIMUM_CONFIDENCE_FLOOR == 500

\* A tenth of the ratio of negative to positive evidence; no positive evidence
\* is an infinite ratio.
Proposal(cluster) ==
    LET positive == WeightedScore(cluster, rows) IN
    IF positive = 0 THEN MAX_PROPOSAL
    ELSE Min({(1000 * NegativeScore(cluster)) \div positive, MAX_PROPOSAL})

\* MUTANT of Reduction: the cap of the cycle is missing.
UncappedReduction(cluster) == IF Credible(cluster) THEN Proposal(cluster) ELSE 0

Reduction(cluster) ==
    IF Credible(cluster) THEN Min({Proposal(cluster), MAX_REDUCTION_PER_CYCLE}) ELSE 0

Adjusted(cluster) ==
    IF Credible(cluster) THEN Max({confidence - Reduction(cluster), MINIMUM_CONFIDENCE_FLOOR})
    ELSE confidence

-----------------------------------------------------------------------------
(* ContestedStateEvaluator *)

MIN_ESTABLISHED_CONFIDENCE == 3000
RECENT_POSITIVE_WINDOW_HOURS == 168
MIN_RECENT_POSITIVE_WEIGHT == 50000

\* An evaluation is at the start of its day.
Recent(time) == 24 * today - time <= RECENT_POSITIVE_WINDOW_HOURS

\* The latest observation must be recent; the weight is that of all of them.
HasRecentPositive(cluster) ==
    /\ Recent(Max(Times(cluster)))
    /\ WeightedScore(cluster, rows) >= MIN_RECENT_POSITIVE_WEIGHT

MarkedContested(cluster) ==
    /\ confidence >= MIN_ESTABLISHED_CONFIDENCE
    /\ Credible(cluster)
    /\ HasRecentPositive(cluster)

-----------------------------------------------------------------------------
(* Steps *)

\* Bound: the events of Pool that are not in Contested come only where nothing
\* is reported, and nothing but evidence comes after them.
Quiet == reports = <<>> /\ today = 0 /\ confidence = NoStop

Ingest(e) ==
    /\ Commits(e)
    /\ e \in Contested \/ Quiet
    /\ UNCHANGED <<reports, today, confidence>>

Report(pos) ==
    /\ rows \subseteq Contested
    /\ Len(reports) < MaxReports
    /\ reports' = Append(reports, [pos |-> pos, day |-> today])
    /\ UNCHANGED <<rows, today, confidence>>

NextDay ==
    /\ rows \subseteq Contested
    /\ \E day \in Calendar : day > today /\ today' = day
    /\ UNCHANGED <<rows, reports, confidence>>

\* process_aggregation_result with the reports as negative contributions.
Create(cluster) ==
    /\ rows \subseteq Contested
    /\ confidence = NoStop
    /\ ShouldCreate(cluster, rows, NegativeScore(cluster))
    /\ confidence' = 3000
    /\ UNCHANGED <<rows, reports, today>>

\* compute_confidence_adjustment returns an adjustment.  Below the floor it
\* would be negative: ConfidenceAdjustment raises, and nothing changes.
Cycle(cluster) ==
    /\ confidence # NoStop
    /\ Adjusted(cluster) <= confidence
    /\ confidence' = Adjusted(cluster)
    /\ UNCHANGED <<rows, reports, today>>

Init ==
    /\ rows = {} /\ reports = <<>> /\ today = 0
    /\ confidence \in Seeds

Next ==
    \/ \E e \in Pool : Ingest(e)
    \/ \E pos \in Places : Report(pos)
    \/ NextDay
    \/ \E c \in ClusterEvidence(rows) : Create(c) \/ Cycle(c)

Spec == Init /\ [][Next]_vars

-----------------------------------------------------------------------------
(* Properties *)

\* Negative evidence raises the threshold but never blocks creation (INV-E3,
\* rules_v0.md:121): evidence of weight three that passes the gates creates its
\* Stop, however many reports there are against it.
CreationIsNeverBlocked ==
    \A c \in ClusterEvidence(rows) :
        AllGatesPass(c) /\ WeightedScore(c, rows) >= 300000
            => ShouldCreate(c, rows, NegativeScore(c))

\* Reports wear a Stop down, and never delete it (INV-E1, INV-F1): one cycle takes
\* at most 0.15, whatever the ratio of the evidence, positive evidence of weight
\* zero included; no number of cycles brings the Stop below the floor; and it
\* loses only on days that have a report from the last week.
LossIsGradual ==
    [][/\ confidence - confidence' <= 1500
       /\ confidence >= 500 => confidence' >= 500
       /\ confidence' < confidence => \E i \in DOMAIN reports : today - reports[i].day <= 7]_vars

-----------------------------------------------------------------------------
(* What the documentation says and the code does not do *)

\* "Minimum recent positive weight to qualify": a Stop is contested only if its
\* recent evidence has that weight.
ContestedByRecentEvidence ==
    \A c \in ClusterEvidence(rows) : MarkedContested(c) =>
        WeightedScore({e \in c : Recent(e.time)}, rows) >= MIN_RECENT_POSITIVE_WEIGHT
=============================================================================
