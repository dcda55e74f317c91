----------------------------- MODULE StopBelief -----------------------------
(***************************************************************************)
(* The evidence of one entity growing event by event, and what the         *)
(* evaluation of StopCreation makes of it at every point.  StopPressure    *)
(* adds what is reported against the Stop, and the steps.                  *)
(***************************************************************************)
EXTENDS StopCreation

CONSTANT Pool    \* event records that may be submitted, in any order

\* The id is the primary key.
ASSUME PoolAssumption ==
    /\ \A e \in Pool : e.id \in Int /\ e.time \in Int /\ e.pos \in Int /\ e.accuracy \in Int
    /\ \A e, f \in Pool : e.id = f.id => e = f

VARIABLE rows    \* the evidence committed so far

\* create_or_get_idempotent commits one more event.
Commits(e) == e \in Pool \ rows /\ rows' = rows \cup {e}

-----------------------------------------------------------------------------

\* Clustering neither loses nor repeats evidence (INV-A1, cluster_evidence):
\* every event with a location is in exactly one cluster.
ClustersPartitionEvidence ==
    LET clusters == ClusterEvidence(rows) IN
    \A e \in rows : e.pos # NoPos => Cardinality({c \in clusters : e \in c}) = 1

\* No contributor creates a Stop alone (INV-C2), however many events of
\* however many types and days that contributor submits.
NoLoneContributor ==
    \A who \in Contributors(rows) : QualifyingClusters({e \in rows : e.who = who}) = {}

\* Accuracy, repetition and time are weights and never gates (INV-D1): no event is
\* weighed down to nothing.  And one contributor's repeated events add less than
\* a second contributor would: the score of a cluster never exceeds one and a
\* half full weights of each distinct contributor, the half being all that
\* repeating is worth above its floor, a tenth of a weight for each event
\* (calculate_user_dampening).
RepeatsAreDampened ==
    /\ \A e \in rows : EvidenceWeight(e, rows) > 0
    /\ \A c \in ClusterEvidence(rows) :
          WeightedScore(c, rows)
              <= 150000 * Cardinality(Contributors(c)) + 10000 * Cardinality(c)

-----------------------------------------------------------------------------
(* What the documentation says and the code does not do *)

\* "Negative Evidence Modulates Thresholds Only" (INV-E3): a non-existence
\* report never turns evidence that creates no Stop into evidence that does.
NegativeNeverCreates ==
    [][\A e \in rows' \ rows :
          e.type = "stop_not_exists" /\ QualifyingClusters(rows) = {}
             => QualifyingClusters(rows') = {}]_rows
=============================================================================
