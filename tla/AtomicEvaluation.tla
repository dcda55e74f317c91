-------------------------- MODULE AtomicEvaluation --------------------------
(****************************************************************************)
(* What the evaluation subsystem promises to the rest of the backend.       *)
(*                                                                          *)
(* ContributionEvent rows are only ever added.  An evaluation reads the     *)
(* evidence about one entity once; either it is abandoned, or all canonical *)
(* Stops that this evidence justifies appear in a single step, supported by *)
(* exactly this evidence.  Jobs, locks, sessions and failures are invisible *)
(* here: EvaluationExecutor implements this.                                *)
(****************************************************************************)
EXTENDS Naturals

CONSTANTS
    Events,        \* ids of ContributionEvent rows
    StopIds,       \* UUIDs a Stop row, or an event's subject, may carry
    EventType,     \* contribution_type of every event
    EventSubject,  \* the UUID in subject_ref of every event
    Spelling,      \* how subject_ref spells it: only one way is found by a query
    SeedStops,     \* Stop rows present before the first evaluation
    Clusters(_)    \* evidence -> the evidence sets of its qualifying clusters

VARIABLES
    evidence,      \* committed ContributionEvent rows
    stops,         \* committed Stop rows
    readings       \* <<UUID, evidence read about it>> of evaluations under way

\* contribution_type values that the Stop evaluator understands.
StopTypes == {"stop_exists", "stop_not_exists", "stop_name", "stop_location"}

\* A Stop row: the columns evaluation sets and the constraint it must respect.
StopRow == [id : StopIds, public_id : Nat, refs : SUBSET Events, current : BOOLEAN]

\* The JSON text of subject_ref is compared with str() of the UUID.
Names(e, id) == EventSubject[e] = id /\ Spelling[e] = "canonical"

\* InlineExecutor._get_stop_evidence over the committed rows.
StopEvidence(id, rows) ==
    {e \in rows : EventType[e] \in StopTypes /\ Names(e, id)}

Init == evidence = {} /\ stops = SeedStops /\ readings = {}

\* A contribution is committed; nothing else changes.
Ingest(e) ==
    /\ evidence' = evidence \cup {e}
    /\ UNCHANGED <<stops, readings>>

\* An evaluation of an entity reads what is committed about it.
Read(id) ==
    /\ readings' = readings \cup {<<id, StopEvidence(id, evidence)>>}
    /\ UNCHANGED <<evidence, stops>>

\* Evaluations fail and leave nothing behind.
Abandon ==
    /\ readings' \subseteq readings
    /\ UNCHANGED <<evidence, stops>>

\* An evaluation creates one Stop per qualifying cluster of what it has read,
\* all or none, under identifiers that no other row carries.
Evaluate(id, rows) ==
    LET new == stops' \ stops IN
    /\ <<id, rows>> \in readings
    /\ readings' \subseteq readings
    /\ stops \subseteq stops'
    /\ {r.refs : r \in new} = Clusters(rows)
    /\ \A r \in new, q \in stops' : r # q =>
          r.id # q.id /\ r.public_id # q.public_id /\ (q \in new => r.refs # q.refs)
    /\ evidence' = evidence

Next ==
    \/ \E e \in Events : Ingest(e)
    \/ \E id \in StopIds : Read(id)
    \/ \E reading \in readings : Evaluate(reading[1], reading[2])
    \/ Abandon

Spec == Init /\ [][Next]_<<evidence, stops, readings>>
=============================================================================
