------------------------- MODULE EvaluationExecutor -------------------------
(***************************************************************************)
(* The inline evaluation executor of transit/evaluation: database sessions *)
(* that run evaluation jobs entity by entity, each entity under its own    *)
(* PostgreSQL advisory lock and inside its own transaction, started either *)
(* by the on_commit callback of a contribution or by the recompute         *)
(* management command, which for "all" runs Stops first and Routes after.  *)
(*                                                                         *)
(* Every database statement is a step of its own, so the sessions          *)
(* interleave between any two statements.  A session may lose its          *)
(* connection, or its process may die, at any statement.                   *)
(***************************************************************************)
EXTENDS Naturals, FiniteSets

CONSTANTS
    Sessions,      \* database sessions: web workers and management commands
    NoSession,     \* the holder of a free lock
    StopIds,       \* UUIDs of Stops; UUIDs are ordered, so they are numbers
    RouteIds,      \* UUIDs of Routes
    NoSubject,     \* a subject_ref without a well-formed stop_id or route_id
    Events,        \* ids of ContributionEvent rows
    NoEvent,       \* the cause of a job that no contribution triggered
    EventType,     \* contribution_type of every event
    EventSubject,  \* the UUID in subject_ref of every event, or NoSubject
    Spelling,      \* how subject_ref writes it
    Malformed,     \* events whose payload makes an evaluator raise
    SeedStops,     \* Stop rows present before the first evaluation
    Routes,        \* Route rows: no code of the repository writes one
    LockKeys,      \* 64-bit advisory lock keys
    LockKey,       \* the key derived from every UUID
    Clusters(_),   \* evidence -> the evidence sets of its qualifying clusters
    MaxRuns,       \* bound: recompute commands that are started
    MaxFaults      \* bound: lost connections and crashed processes

VARIABLES
    evidence,      \* committed ContributionEvent rows
    stops,         \* committed Stop rows
    lock,          \* advisory lock key -> the session that holds it
    pc,            \* session -> the statement it runs next
    job,           \* session -> its EvaluationJob
    todo,          \* session -> UUIDs its loop has not finished yet
    at,            \* session -> the UUID its loop is at
    snap,          \* session -> the evidence it gathered for that UUID
    plan,          \* session -> qualifying clusters it has still to write
    ins,           \* session -> Stop rows inserted by its open transaction
    conn,          \* session -> whether the server still knows its connection
    tally,         \* session -> the counters of its ExecutionResult
    resolved,      \* history: UUIDs this run resolved
    done,          \* history: UUIDs this run evaluated and committed
    wrote,         \* history: ids of the Stop rows this run's job committed
    evaluations,   \* history: <<UUID, evidence>> of every committed evaluation
    runs,          \* recompute commands started so far
    faults         \* lost connections and crashes so far

store == <<evidence, stops, evaluations>>
work == <<at, snap, plan, ins>>
history == <<resolved, done, wrote>>
bounds == <<runs, faults>>
vars == <<evidence, stops, evaluations, lock, pc, job, todo, at, snap, plan,
          ins, conn, tally, resolved, done, wrote, runs, faults>>

-----------------------------------------------------------------------------
(* Data *)

\* Of the evaluations under way, the abstract store sees what they have read.
Readings ==
    {<<at[s], snap[s]>> :
        s \in {x \in Sessions : pc[x] \in {"evaluate", "insert", "commit"}
                                /\ job[x].target = "stop"}}

Store == INSTANCE AtomicEvaluation WITH readings <- Readings

Ids == StopIds \cup RouteIds
NoId == 0

StopTypes == Store!StopTypes
RouteTypes == {"route_exists", "route_traversal"}
OtherTypes == {"stop_sequence", "service_time"}

\* Nothing normalises a subject_ref.  "canonical" is the text that str() gives,
\* "variant" another one that UUID() reads (capitals, no dashes, braces, urn:),
\* "not_text" a JSON number, list or object, on which UUID() raises AttributeError.
Spellings == {"canonical", "variant", "not_text"}

\* What is assumed of the identifiers and of the clustering: UUIDs are numbers
\* other than NoId, the namespace keeps Stop and Route keys apart, rows present
\* at the start are finitely many, with distinct non-empty public ids and no
\* evidence, and clusters are disjoint sets of the evidence they are computed from.
ASSUME ExecutorAssumption ==
    /\ Ids \subseteq Nat \ {NoId}
    /\ NoSession \notin Sessions /\ NoEvent \notin Events /\ NoSubject \notin Ids
    /\ EventType \in [Events -> StopTypes \cup RouteTypes \cup OtherTypes]
    /\ EventSubject \in [Events -> Ids \cup {NoSubject}]
    /\ Spelling \in [Events -> Spellings]
    /\ \A e \in Events : Spelling[e] = "not_text" => EventSubject[e] = NoSubject
    /\ LockKey \in [Ids -> LockKeys]
    /\ \A i \in StopIds, r \in RouteIds : LockKey[i] # LockKey[r]
    /\ SeedStops \subseteq Store!StopRow
    /\ \A r \in SeedStops : r.public_id # 0 /\ r.refs = {}
    /\ \A r, q \in SeedStops : r # q => r.id # q.id /\ r.public_id # q.public_id
    /\ \A r \in Routes : r.id \in RouteIds
    /\ IsFiniteSet(SeedStops) /\ IsFiniteSet(Routes)
    /\ \A rows \in SUBSET Events :
         /\ Clusters(rows) \subseteq SUBSET rows
         /\ IsFiniteSet(Clusters(rows))
         /\ \A c, d \in Clusters(rows) : c # d => c \cap d = {}
    /\ MaxRuns \in Nat /\ MaxFaults \in Nat

\* EvaluationJob: full means target_ids is None; run says whether recompute_all
\* waits for the result; cause is the contribution behind the job.
Job == [target : {"stop", "route"}, trigger : {"contribution", "admin"},
        full : BOOLEAN, ids : SUBSET Ids, run : {"single", "all"},
        cause : Events \cup {NoEvent}]

NoJob == [target |-> "stop", trigger |-> "admin", full |-> TRUE, ids |-> {},
          run |-> "single", cause |-> NoEvent]

\* ExecutionResult: success is the absence of errors.
Tally == [evaluated : Nat, writes : Nat, skipped : Nat, failed : BOOLEAN]
NoTally == [evaluated |-> 0, writes |-> 0, skipped |-> 0, failed |-> FALSE]
AbortTally == [NoTally EXCEPT !.failed = TRUE]

\* MUTANT of Skipped: an entity skipped in silence is not counted.
SkippedUncounted(t, isError) == IF isError THEN [t EXCEPT !.failed = TRUE] ELSE t

\* One entity more is skipped; whether that is an error depends on the trigger.
Skipped(t, isError) ==
    LET counted == [t EXCEPT !.skipped = @ + 1]
    IN  IF isError THEN [counted EXCEPT !.failed = TRUE] ELSE counted

IdsOf(target) == IF target = "stop" THEN StopIds ELSE RouteIds

\* MUTANT of EvidenceFor: one Stop type is missing from the query.
EvidenceWithoutSightings(target, id) ==
    {e \in evidence :
        /\ Store!Names(e, id)
        /\ EventType[e] \in IF target = "stop" THEN StopTypes \ {"stop_exists"} ELSE RouteTypes}

\* _get_stop_evidence and _get_route_evidence: subject_ref must name the UUID, in
\* its canonical spelling.
EvidenceFor(target, id) ==
    IF target = "stop"
    THEN Store!StopEvidence(id, evidence)
    ELSE {e \in evidence : EventType[e] \in RouteTypes /\ Store!Names(e, id)}

\* _resolve_stop_ids and _resolve_route_ids.
ResolvedIds(j) ==
    IF ~j.full THEN j.ids
    ELSE IF j.target = "stop" THEN {r.id : r \in {x \in stops : x.current}}
    ELSE {r.id : r \in {x \in Routes : x.current}}

\* create_evaluation_job_for_contribution makes no job for a type without an
\* evaluator, and the exception of a subject that is not text ends it.
Scheduled(e) == EventType[e] \notin OtherTypes /\ Spelling[e] # "not_text"

\* Its job for the others: UUID() reads any spelling; a subject_ref without the
\* UUID of the right kind makes a full-scope job.
ContributionJob(e) ==
    LET target == IF EventType[e] \in StopTypes THEN "stop" ELSE "route"
        ids == {EventSubject[e]} \cap IdsOf(target)
    IN  [target |-> target, trigger |-> "contribution", full |-> ids = {},
         ids |-> ids, run |-> "single", cause |-> e]

AdminJob(target, run) ==
    [NoJob EXCEPT !.target = target, !.run = run]

\* MUTANT of CreatedPublicId: every created Stop has a public_id of its own.
OwnPublicId(id) == id

\* StopCreator.create_stop never sets public_id: the column gets '', here 0.
CreatedPublicId(id) == 0

NewStop(id, cluster) ==
    [id |-> id, public_id |-> CreatedPublicId(id), refs |-> cluster, current |-> TRUE]

\* uuid4(): an id that no row and no submitted subject_ref carries.
FreshIds ==
    {i \in StopIds :
        /\ \A r \in stops \cup UNION {ins[s] : s \in Sessions} : r.id # i
        /\ \A e \in evidence : EventSubject[e] # i}

\* The sessions that are evaluating an entity over a live connection.
Evaluating(s) ==
    pc[s] \in {"gather", "evaluate", "insert", "commit"} /\ conn[s] = "up"

-----------------------------------------------------------------------------
(* Starting a run *)

Begin(s, j) ==
    /\ pc' = [pc EXCEPT ![s] = "resolve"]
    /\ job' = [job EXCEPT ![s] = j]
    /\ conn' = [conn EXCEPT ![s] = "up"]
    /\ tally' = [tally EXCEPT ![s] = NoTally]
    /\ resolved' = [resolved EXCEPT ![s] = {}]
    /\ done' = [done EXCEPT ![s] = {}]
    /\ wrote' = [wrote EXCEPT ![s] = {}]
    /\ UNCHANGED <<stops, evaluations, lock, todo, work, faults>>

\* A contribution commits and, on commit, its job runs on the same session.
Submit(s, e) ==
    /\ pc[s] = "idle"
    /\ e \notin evidence
    /\ Scheduled(e)
    /\ evidence' = evidence \cup {e}
    /\ Begin(s, ContributionJob(e))
    /\ UNCHANGED runs

\* A contribution without a job.
SubmitUnhandled(s, e) ==
    /\ pc[s] = "idle"
    /\ e \notin evidence
    /\ ~Scheduled(e)
    /\ evidence' = evidence \cup {e}
    /\ UNCHANGED <<stops, evaluations, lock, pc, job, todo, work, conn, tally,
                   history, bounds>>

\* manage.py recompute stops | routes | all.
Recompute(s, target, run) ==
    /\ pc[s] = "idle"
    /\ runs < MaxRuns
    /\ run = "all" => target = "stop"
    /\ runs' = runs + 1
    /\ Begin(s, AdminJob(target, run))
    /\ UNCHANGED evidence

-----------------------------------------------------------------------------
(* The loop of _execute_stop_evaluation and _execute_route_evaluation *)

Resolve(s) ==
    /\ pc[s] = "resolve" /\ conn[s] = "up"
    /\ todo' = [todo EXCEPT ![s] = ResolvedIds(job[s])]
    /\ resolved' = [resolved EXCEPT ![s] = @ \cup ResolvedIds(job[s])]
    /\ pc' = [pc EXCEPT ![s] = "lock"]
    /\ UNCHANGED <<store, lock, job, work, conn, tally, done, wrote, bounds>>

\* The loop takes UUIDs in ascending order.
NextInLoop(s, id) == id \in todo[s] /\ \A other \in todo[s] : id <= other

\* MUTANT of LockFree: the result of pg_try_advisory_lock is ignored.
LockIgnored(s, id) == TRUE

LockFree(s, id) == lock[LockKey[id]] \in {NoSession, s}

\* pg_try_advisory_lock returns true: free, or held by this very session.
AcquireLock(s, id) ==
    /\ pc[s] = "lock" /\ conn[s] = "up"
    /\ NextInLoop(s, id)
    /\ LockFree(s, id)
    /\ lock' = [lock EXCEPT ![LockKey[id]] = s]
    /\ at' = [at EXCEPT ![s] = id]
    /\ pc' = [pc EXCEPT ![s] = "gather"]
    /\ UNCHANGED <<store, job, todo, snap, plan, ins, conn, tally, history, bounds>>

\* pg_try_advisory_lock returns false: skip, and an error unless the job came
\* from a contribution.
SkipLocked(s, id) ==
    /\ pc[s] = "lock" /\ conn[s] = "up"
    /\ NextInLoop(s, id)
    /\ ~LockFree(s, id)
    /\ tally' = [tally EXCEPT ![s] = Skipped(@, job[s].trigger # "contribution")]
    /\ todo' = [todo EXCEPT ![s] = @ \ {id}]
    /\ UNCHANGED <<store, lock, pc, job, work, conn, history, bounds>>

Gather(s) ==
    /\ pc[s] = "gather" /\ conn[s] = "up"
    /\ snap' = [snap EXCEPT ![s] = EvidenceFor(job[s].target, at[s])]
    /\ pc' = [pc EXCEPT ![s] = "evaluate"]
    /\ UNCHANGED <<store, lock, job, todo, at, plan, ins, conn, tally, history, bounds>>

\* MUTANT of Raise: the exception goes past the release of the lock.
RaiseWithoutRelease(s) ==
    /\ tally' = [tally EXCEPT ![s].failed = TRUE]
    /\ plan' = [plan EXCEPT ![s] = {}]
    /\ ins' = [ins EXCEPT ![s] = {}]
    /\ todo' = [todo EXCEPT ![s] = @ \ {at[s]}]
    /\ pc' = [pc EXCEPT ![s] = "lock"]
    /\ UNCHANGED <<store, lock, job, at, snap, history, bounds>>

\* The exception that the except clauses catch: transaction.atomic rolls back,
\* the error is recorded and the finally clause releases the lock.
Raise(s) ==
    /\ tally' = [tally EXCEPT ![s].failed = TRUE]
    /\ plan' = [plan EXCEPT ![s] = {}]
    /\ ins' = [ins EXCEPT ![s] = {}]
    /\ pc' = [pc EXCEPT ![s] = "release"]
    /\ UNCHANGED <<store, lock, job, todo, at, snap, history, bounds>>

EvaluatorRaises(s) ==
    /\ pc[s] = "evaluate"
    /\ snap[s] \cap Malformed # {}
    /\ Raise(s)
    /\ UNCHANGED conn

\* evaluate_with_creation: aggregate, decide, and list the Stops to create.
EvaluateStop(s) ==
    /\ pc[s] = "evaluate" /\ job[s].target = "stop"
    /\ snap[s] \cap Malformed = {}
    /\ plan' = [plan EXCEPT ![s] = Clusters(snap[s])]
    /\ pc' = [pc EXCEPT ![s] = "insert"]
    /\ UNCHANGED <<store, lock, job, todo, at, snap, ins, conn, tally, history, bounds>>

\* evaluate_routes reads canonical Stops and writes nothing.
EvaluateRoute(s) ==
    /\ pc[s] = "evaluate" /\ job[s].target = "route" /\ conn[s] = "up"
    /\ snap[s] \cap Malformed = {}
    /\ pc' = [pc EXCEPT ![s] = "commit"]
    /\ UNCHANGED <<store, lock, job, todo, work, conn, tally, history, bounds>>

\* An INSERT waits while another transaction holds an uncommitted row with the
\* same public_id in the unique index.
IndexWaits(s, row) == \E t \in Sessions \ {s} : \E r \in ins[t] : r.public_id = row.public_id
IndexRefuses(s, row) == \E r \in stops \cup ins[s] : r.public_id = row.public_id

\* MUTANT of InsertStop: without transaction.atomic every INSERT commits.
InsertStopAutocommit(s, cluster, id) ==
    /\ pc[s] = "insert" /\ conn[s] = "up"
    /\ cluster \in plan[s] /\ id \in FreshIds
    /\ ~IndexRefuses(s, NewStop(id, cluster))
    /\ stops' = stops \cup {NewStop(id, cluster)}
    /\ plan' = [plan EXCEPT ![s] = @ \ {cluster}]
    /\ UNCHANGED <<evidence, evaluations, lock, pc, job, todo, at, snap, ins, conn, tally,
                   history, bounds>>

\* StopWriteGateway.write_stop: one INSERT per qualifying cluster.
InsertStop(s, cluster, id) ==
    /\ pc[s] = "insert" /\ conn[s] = "up"
    /\ cluster \in plan[s] /\ id \in FreshIds
    /\ ~IndexWaits(s, NewStop(id, cluster)) /\ ~IndexRefuses(s, NewStop(id, cluster))
    /\ ins' = [ins EXCEPT ![s] = @ \cup {NewStop(id, cluster)}]
    /\ plan' = [plan EXCEPT ![s] = @ \ {cluster}]
    /\ UNCHANGED <<store, lock, pc, job, todo, at, snap, conn, tally, history, bounds>>

\* MUTANT of InsertRefused: an INSERT that is refused is tried again.
InsertRetried(s, cluster, id) ==
    /\ pc[s] = "insert" /\ conn[s] = "up"
    /\ cluster \in plan[s] /\ id \in FreshIds
    /\ ~IndexWaits(s, NewStop(id, cluster)) /\ IndexRefuses(s, NewStop(id, cluster))
    /\ UNCHANGED vars

\* IntegrityError.
InsertRefused(s, cluster, id) ==
    /\ pc[s] = "insert" /\ conn[s] = "up"
    /\ cluster \in plan[s] /\ id \in FreshIds
    /\ ~IndexWaits(s, NewStop(id, cluster)) /\ IndexRefuses(s, NewStop(id, cluster))
    /\ Raise(s)
    /\ UNCHANGED conn

\* canonical_writes is added to the job's counter inside the transaction.
CountWrites(s) ==
    /\ pc[s] = "insert" /\ plan[s] = {}
    /\ tally' = [tally EXCEPT ![s].writes = @ + Cardinality(Clusters(snap[s]))]
    /\ pc' = [pc EXCEPT ![s] = "commit"]
    /\ UNCHANGED <<store, lock, job, todo, work, conn, history, bounds>>

\* What the server does with COMMIT.
ServerCommits(s) ==
    /\ stops' = stops \cup ins[s]
    /\ evaluations' = evaluations \cup {<<at[s], snap[s]>>}
    /\ wrote' = [wrote EXCEPT ![s] = @ \cup {r.id : r \in ins[s]}]

\* A transaction that issued no statement commits without reaching the server.
NoStatement(s) == job[s].target = "stop" /\ Clusters(snap[s]) = {}

Commit(s) ==
    /\ pc[s] = "commit" /\ (conn[s] = "up" \/ NoStatement(s))
    /\ ServerCommits(s)
    /\ done' = [done EXCEPT ![s] = @ \cup {at[s]}]
    /\ tally' = [tally EXCEPT ![s].evaluated = @ + 1]
    /\ ins' = [ins EXCEPT ![s] = {}]
    /\ pc' = [pc EXCEPT ![s] = "release"]
    /\ UNCHANGED <<evidence, lock, job, todo, at, snap, plan, conn, resolved, bounds>>

\* pg_advisory_unlock frees the lock only if this connection still owns it.
Release(s) ==
    /\ pc[s] = "release" /\ conn[s] = "up"
    /\ lock' = IF lock[LockKey[at[s]]] = s
               THEN [lock EXCEPT ![LockKey[at[s]]] = NoSession] ELSE lock
    /\ todo' = [todo EXCEPT ![s] = @ \ {at[s]}]
    /\ at' = [at EXCEPT ![s] = NoId]
    /\ snap' = [snap EXCEPT ![s] = {}]
    /\ pc' = [pc EXCEPT ![s] = "lock"]
    /\ UNCHANGED <<store, job, plan, ins, conn, tally, history, bounds>>

\* MUTANT of FinishJob: the loop is left before its last UUID.
FinishJobEarly(s) ==
    /\ pc[s] = "lock"
    /\ pc' = [pc EXCEPT ![s] = "end"]
    /\ UNCHANGED <<store, lock, job, todo, work, conn, tally, history, bounds>>

\* The loop is over: execute() builds the ExecutionResult from the counters.
FinishJob(s) ==
    /\ pc[s] = "lock" /\ todo[s] = {}
    /\ pc' = [pc EXCEPT ![s] = "end"]
    /\ UNCHANGED <<store, lock, job, todo, work, conn, tally, history, bounds>>

-----------------------------------------------------------------------------
(* The orchestration around execute() *)

\* MUTANT of StopPhaseComplete: errors of the Stop phase do not matter.
StopPhaseOver(s) == job[s].run = "all" /\ job[s].target = "stop" /\ tally[s].skipped = 0

StopPhaseComplete(s) ==
    /\ job[s].run = "all" /\ job[s].target = "stop"
    /\ ~tally[s].failed /\ tally[s].skipped = 0

\* recompute_all goes on to Routes only after a complete Stop phase.
StartRoutePhase(s) ==
    /\ pc[s] = "end"
    /\ StopPhaseComplete(s)
    /\ job' = [job EXCEPT ![s] = AdminJob("route", "all")]
    /\ tally' = [tally EXCEPT ![s] = NoTally]
    /\ pc' = [pc EXCEPT ![s] = "resolve"]
    /\ UNCHANGED <<store, lock, todo, work, conn, history, bounds>>

\* What a session that is done, or dead, leaves behind.
Forget(s) ==
    /\ pc' = [pc EXCEPT ![s] = "idle"]
    /\ job' = [job EXCEPT ![s] = NoJob]
    /\ todo' = [todo EXCEPT ![s] = {}]
    /\ at' = [at EXCEPT ![s] = NoId]
    /\ snap' = [snap EXCEPT ![s] = {}]
    /\ plan' = [plan EXCEPT ![s] = {}]
    /\ conn' = [conn EXCEPT ![s] = "up"]
    /\ tally' = [tally EXCEPT ![s] = NoTally]
    /\ resolved' = [resolved EXCEPT ![s] = {}]
    /\ done' = [done EXCEPT ![s] = {}]

\* The command or the callback returns.
Return(s) ==
    /\ pc[s] = "end"
    /\ ~StopPhaseComplete(s)
    /\ Forget(s)
    /\ wrote' = [wrote EXCEPT ![s] = {}]
    /\ UNCHANGED <<store, lock, ins, bounds>>

-----------------------------------------------------------------------------
(* Failures *)

\* The server ends a session: it frees the session's locks and rolls back its
\* transaction, unless it had already received the COMMIT.
ServerEndsSession(s) ==
    /\ faults < MaxFaults
    /\ faults' = faults + 1
    /\ lock' = [k \in LockKeys |-> IF lock[k] = s THEN NoSession ELSE lock[k]]
    /\ ins' = [ins EXCEPT ![s] = {}]

LoseConnection(s) ==
    /\ pc[s] \notin {"idle", "end"} /\ conn[s] = "up"
    /\ ServerEndsSession(s)
    /\ conn' = [conn EXCEPT ![s] = "lost"]
    /\ \/ UNCHANGED <<stops, evaluations, wrote>>
       \/ pc[s] = "commit" /\ ServerCommits(s)
    /\ UNCHANGED <<evidence, pc, job, todo, at, snap, plan, tally, resolved, done, runs>>

\* The process dies: nothing of the run remains.
Crash(s) ==
    /\ pc[s] # "idle"
    /\ ServerEndsSession(s)
    /\ Forget(s)
    /\ \/ UNCHANGED <<stops, evaluations>>
       \/ /\ pc[s] = "commit" /\ conn[s] = "up"
          /\ stops' = stops \cup ins[s]
          /\ evaluations' = evaluations \cup {<<at[s], snap[s]>>}
    /\ wrote' = [wrote EXCEPT ![s] = {}]
    /\ UNCHANGED <<evidence, runs>>

\* A statement outside the try block, or the unlock in the finally block,
\* raises: execute() catches it and reports zero counters and the error.
JobAborts(s) ==
    /\ conn[s] = "lost"
    /\ \/ pc[s] \in {"resolve", "release"}
       \/ pc[s] = "lock" /\ todo[s] # {}
    /\ tally' = [tally EXCEPT ![s] = AbortTally]
    /\ todo' = [todo EXCEPT ![s] = {}]
    /\ at' = [at EXCEPT ![s] = NoId]
    /\ snap' = [snap EXCEPT ![s] = {}]
    /\ pc' = [pc EXCEPT ![s] = "end"]
    /\ UNCHANGED <<store, lock, job, plan, ins, conn, history, bounds>>

GatherFails(s) ==
    /\ pc[s] = "gather" /\ conn[s] = "lost"
    /\ Raise(s)
    /\ UNCHANGED conn

\* A statement of the transaction fails.  Leaving the atomic block, Django may
\* have opened a new connection: the old one's lock is gone either way.
TransactionFails(s) ==
    /\ conn[s] = "lost"
    /\ \/ pc[s] \in {"evaluate", "commit"}
       \/ pc[s] = "insert" /\ plan[s] # {}
    /\ Raise(s)
    /\ \E c \in {"up", "lost"} : conn' = [conn EXCEPT ![s] = c]

-----------------------------------------------------------------------------
(* Specification *)

Init ==
    /\ evidence = {}
    /\ stops = SeedStops
    /\ lock = [k \in LockKeys |-> NoSession]
    /\ pc = [s \in Sessions |-> "idle"]
    /\ job = [s \in Sessions |-> NoJob]
    /\ todo = [s \in Sessions |-> {}]
    /\ at = [s \in Sessions |-> NoId]
    /\ snap = [s \in Sessions |-> {}]
    /\ plan = [s \in Sessions |-> {}]
    /\ ins = [s \in Sessions |-> {}]
    /\ conn = [s \in Sessions |-> "up"]
    /\ tally = [s \in Sessions |-> NoTally]
    /\ resolved = [s \in Sessions |-> {}]
    /\ done = [s \in Sessions |-> {}]
    /\ wrote = [s \in Sessions |-> {}]
    /\ evaluations = {}
    /\ runs = 0
    /\ faults = 0

\* The steps a session takes by itself once a run has begun.
SessionStep(s) ==
    \/ Resolve(s) \/ Gather(s)
    \/ \E id \in Ids : AcquireLock(s, id) \/ SkipLocked(s, id)
    \/ EvaluatorRaises(s) \/ EvaluateStop(s) \/ EvaluateRoute(s)
    \/ \E c \in plan[s], id \in StopIds : InsertStop(s, c, id) \/ InsertRefused(s, c, id)
    \/ CountWrites(s) \/ Commit(s) \/ Release(s) \/ FinishJob(s)
    \/ StartRoutePhase(s) \/ Return(s)
    \/ JobAborts(s) \/ GatherFails(s) \/ TransactionFails(s)

Start(s) ==
    \/ \E e \in Events : Submit(s, e) \/ SubmitUnhandled(s, e)
    \/ \E target \in {"stop", "route"}, run \in {"single", "all"} : Recompute(s, target, run)

Next == \E s \in Sessions : Start(s) \/ SessionStep(s) \/ LoseConnection(s) \/ Crash(s)

Spec == Init /\ [][Next]_vars

\* A worker that has started a run keeps executing it.
FairSpec == Spec /\ \A s \in Sessions : WF_vars(SessionStep(s))

-----------------------------------------------------------------------------
(* Properties *)

SessionTypeOK ==
    /\ pc \in [Sessions -> {"idle", "resolve", "lock", "gather", "evaluate",
                            "insert", "commit", "release", "end"}]
    /\ job \in [Sessions -> Job]
    /\ todo \in [Sessions -> SUBSET Ids]
    /\ at \in [Sessions -> Ids \cup {NoId}]
    /\ conn \in [Sessions -> {"up", "lost"}]
    /\ tally \in [Sessions -> Tally]

WorkTypeOK ==
    /\ snap \in [Sessions -> SUBSET Events]
    /\ plan \in [Sessions -> SUBSET SUBSET Events]
    /\ ins \in [Sessions -> SUBSET Store!StopRow]
    /\ resolved \in [Sessions -> SUBSET Ids]
    /\ done \in [Sessions -> SUBSET Ids]
    /\ wrote \in [Sessions -> SUBSET StopIds]

LoopTypeOK ==
    \A s \in Sessions :
        /\ job[s].ids \subseteq IdsOf(job[s].target)
        /\ todo[s] \subseteq IdsOf(job[s].target)
        /\ pc[s] \in {"idle", "resolve", "end"} => todo[s] = {}
        /\ pc[s] \in {"gather", "evaluate", "insert", "commit", "release"}
              => at[s] \in IdsOf(job[s].target)

\* Every variable has its type, and a session inside the loop body is at a UUID
\* of the kind its job targets.
TypeOK ==
    /\ evidence \subseteq Events
    /\ stops \subseteq Store!StopRow
    /\ lock \in [LockKeys -> Sessions \cup {NoSession}]
    /\ SessionTypeOK
    /\ WorkTypeOK
    /\ evaluations \subseteq (Ids \X SUBSET Events)
    /\ runs \in Nat /\ faults \in Nat
    /\ LoopTypeOK

\* Advisory locks prevent concurrent evaluation of the same entity
\* (executor.py:27): two live sessions are never both between taking the lock
\* and committing for one entity, whatever was skipped, failed or lost before.
ExclusiveEvaluation ==
    \A s, t \in Sessions :
        s # t /\ Evaluating(s) /\ Evaluating(t) => LockKey[at[s]] # LockKey[at[t]]

\* The lock is held only during evaluation execution (locking.py:23-24): no
\* error path, skip, abort or lost connection leaves a lock behind that would
\* make every later evaluation of the entity be skipped.
NoLeakedLock ==
    \A k \in LockKeys : lock[k] # NoSession =>
        LET s == lock[k] IN
        /\ pc[s] \in {"gather", "evaluate", "insert", "commit", "release"}
        /\ conn[s] = "up"
        /\ LockKey[at[s]] = k

\* Canonical Stops are never created twice from the same evidence: no event
\* supports two rows, however often and by however many sessions the entity is
\* evaluated again (executor.py:26, write_stop in stop_evaluator.py).
NoDuplicateStop ==
    \A r, q \in stops : r # q => r.refs \cap q.refs = {}

\* A job that reports success has evaluated every UUID it resolved, apart from
\* those it counts as skipped, and its canonical_writes is the number of rows
\* it really committed (ExecutionResult, executor.py:66-88).
SuccessIsComplete ==
    \A s \in Sessions :
        LET mine == IdsOf(job[s].target) IN
        pc[s] = "end" /\ ~tally[s].failed =>
            /\ tally[s].evaluated = Cardinality(done[s] \cap mine)
            /\ tally[s].evaluated + tally[s].skipped = Cardinality(resolved[s] \cap mine)
            /\ job[s].target = "stop" => tally[s].writes = Cardinality(wrote[s])

\* The Route phase of recompute_all runs only when this run has evaluated and
\* committed every Stop it resolved (orchestration.py:198-213).
RoutesAfterAllStops ==
    \A s \in Sessions :
        pc[s] # "idle" /\ job[s].run = "all" /\ job[s].target = "route" =>
            resolved[s] \cap StopIds = done[s] \cap StopIds

\* The job of a contribution that names an entity, over and without an error or
\* a skip.
JobSucceeded(s) ==
    /\ pc[s] = "end" /\ job[s].cause # NoEvent /\ ~job[s].full
    /\ ~tally[s].failed /\ tally[s].skipped = 0

\* A contribution's own job, when it took the lock and did not fail, evaluated the
\* entity, and read the contribution provided that it spells the UUID like str():
\* the evidence is committed before the job reads, and read only under the lock
\* (enqueue_evaluation_for_contribution, executor.py:231-234 and 368).
JobReadsItsCause ==
    \A s \in Sessions : JobSucceeded(s) =>
        \E ev \in evaluations :
            /\ ev[1] = EventSubject[job[s].cause]
            /\ Spelling[job[s].cause] = "canonical" => job[s].cause \in ev[2]

\* Execution is atomic (executor.py:25) and a failed evaluation leaves canonical
\* state unchanged (executor.py:143): what any reader of the database sees of a
\* run is a step of AtomicEvaluation, never some of the Stops of what it read.
Atomicity == Store!Spec

\* Every run ends, also when its Stop inserts wait for other transactions and
\* when connections are lost.
RunsEnd == \A s \in Sessions : pc[s] # "idle" ~> pc[s] = "idle"

-----------------------------------------------------------------------------
(* Inductive strengthenings, for the proofs *)

\* A session that evaluates over a live connection owns the entity's lock, and
\* nobody owns a lock otherwise.
LockInvariant ==
    /\ \A s \in Sessions : Evaluating(s) => lock[LockKey[at[s]]] = s
    /\ NoLeakedLock

\* The identifiers of committed and uncommitted rows are all different, and a
\* row that evaluation creates has the public_id that create_stop gives it.
RowsUnique ==
    /\ \A r, q \in stops : r # q => r.id # q.id /\ r.public_id # q.public_id
    /\ \A s \in Sessions : \A r \in ins[s], q \in stops :
          r.id # q.id /\ r.public_id # q.public_id
    /\ \A s, t \in Sessions : \A r \in ins[s], q \in ins[t] :
          r # q \/ s # t => r.id # q.id /\ r.public_id # q.public_id
    /\ \A s \in Sessions : \A r \in ins[s] : r.public_id = CreatedPublicId(r.id)
    /\ \A r \in stops : r.refs # {} => r.public_id = CreatedPublicId(r.id)

\* What a session has inserted, and has still to insert, is one row per cluster
\* of the evidence it gathered about its entity.
Batch(s) ==
    /\ pc[s] \notin {"insert", "commit"} => ins[s] = {}
    /\ pc[s] # "insert" => plan[s] = {}
    /\ pc[s] \in {"evaluate", "insert", "commit"} =>
          snap[s] \subseteq EvidenceFor(job[s].target, at[s])
    /\ pc[s] = "insert" => job[s].target = "stop"
    /\ plan[s] \subseteq Clusters(snap[s])
    /\ \A r, q \in ins[s] : r # q => r.refs # q.refs
    /\ conn[s] = "up" /\ pc[s] \in {"insert", "commit"} /\ job[s].target = "stop" =>
          {r.refs : r \in ins[s]} = Clusters(snap[s]) \ plan[s]
    /\ conn[s] = "lost" \/ job[s].target = "route" => ins[s] = {}

BatchInvariant == \A s \in Sessions : Batch(s)

-----------------------------------------------------------------------------
(* What the documentation says and the code does not do *)

\* "Execution is idempotent and replay-safe" (executor.py:26): evaluating again
\* an entity whose evidence did not change, over a live connection, does not
\* fail where it succeeded before.
ReplaySucceeds ==
    [][\A s \in Sessions :
        /\ pc[s] = "insert" /\ pc'[s] # "idle" /\ <<at[s], snap[s]>> \in evaluations
        /\ tally'[s].failed
        => tally[s].failed \/ conn[s] = "lost"]_vars

\* "Gather all evidence relevant to a specific stop" (executor.py:358): the job of
\* a contribution reads the contribution, however it spells the UUID.
AnySpellingIsRead ==
    \A s \in Sessions : JobSucceeded(s) =>
        \E ev \in evaluations : job[s].cause \in ev[2]

Quiet == \A s \in Sessions : pc[s] = "idle"

Evaluated(e) == \E ev \in evaluations : e \in ev[2]

\* "No evaluation step may discard, ignore, or permanently exclude any
\* ContributionEvent": once all jobs are over, a Stop contribution that names
\* its Stop has been part of an evaluation.
NoEvidenceSkipped ==
    Quiet => \A e \in evidence : EventSubject[e] \in StopIds => Evaluated(e)

\* The same for every Stop contribution, named Stop or not.
NoEvidenceExcluded ==
    Quiet => \A e \in evidence : EventType[e] \in StopTypes => Evaluated(e)

\* "Routes MUST NOT evaluate against partially recomputed Stops": a Route of
\* recompute_all is not evaluated while a Stop recompute is under way.
NoPartialStopsUnderRoutes ==
    \A s, t \in Sessions :
        /\ pc[s] = "evaluate" /\ job[s].run = "all" /\ job[s].target = "route"
        /\ pc[t] \notin {"idle", "end"} /\ job[t].target = "stop"
        /\ job[t].trigger = "admin"
        => done[t] = {}

\* "canonical_writes: Number of canonical writes performed": also of a job
\* that failed.
WritesAreReported ==
    \A s \in Sessions :
        pc[s] = "end" /\ job[s].target = "stop" => tally[s].writes = Cardinality(wrote[s])
=============================================================================
