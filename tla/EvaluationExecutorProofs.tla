---------------------- MODULE EvaluationExecutorProofs ----------------------
(***************************************************************************)
(* Theorems about EvaluationExecutor, for every set of sessions, events    *)
(* and UUIDs, every clustering and every number of faults that             *)
(* ExecutorAssumption allows.                                              *)
(***************************************************************************)
EXTENDS EvaluationExecutor, FiniteSetTheorems, TLAPS

(***************************************************************************)
(* Type correctness                                                        *)
(***************************************************************************)

LEMMA ResolvedIdsType ==
    ASSUME stops \subseteq Store!StopRow, NEW j \in Job, j.full \/ j.ids \subseteq IdsOf(j.target)
    PROVE  ResolvedIds(j) \subseteq IdsOf(j.target)
BY ExecutorAssumption DEF ResolvedIds, IdsOf, Job, Store!StopRow

LEMMA ContributionJobType ==
    ASSUME NEW e \in Events
    PROVE  /\ ContributionJob(e) \in Job
           /\ ContributionJob(e).ids \subseteq IdsOf(ContributionJob(e).target)
BY ExecutorAssumption DEF ContributionJob, Job, IdsOf, Ids

LEMMA AdminJobType ==
    ASSUME NEW target \in {"stop", "route"}, NEW run \in {"single", "all"}
    PROVE  AdminJob(target, run) \in Job /\ AdminJob(target, run).full
                /\ AdminJob(target, run).target = target
BY DEF AdminJob, NoJob, Job

LEMMA EvidenceForType ==
    ASSUME evidence \subseteq Events, NEW target, NEW id
    PROVE  EvidenceFor(target, id) \subseteq Events
BY DEF EvidenceFor, Store!StopEvidence, Store!Names

LEMMA InitType == Init => TypeOK
<1> SUFFICES ASSUME Init PROVE TypeOK
    OBVIOUS
<1>1. SessionTypeOK
  BY DEF Init, SessionTypeOK, NoJob, Job, NoTally, Tally, NoId
<1>2. WorkTypeOK
  BY DEF Init, WorkTypeOK
<1>3. LoopTypeOK
  BY DEF Init, LoopTypeOK, NoJob
<1> QED
  BY <1>1, <1>2, <1>3, ExecutorAssumption DEF Init, TypeOK

\* Each counter of an ExecutionResult grows inside its type.
LEMMA TallyType ==
    ASSUME NEW t \in Tally
    PROVE  /\ [t EXCEPT !.evaluated = @ + 1] \in Tally
           /\ \A n \in Nat : [t EXCEPT !.writes = @ + n] \in Tally
           /\ [t EXCEPT !.failed = TRUE] \in Tally
           /\ \A isError \in BOOLEAN : Skipped(t, isError) \in Tally
           /\ NoTally \in Tally /\ AbortTally \in Tally
<1>1. [t EXCEPT !.evaluated = @ + 1] \in Tally
  BY DEF Tally
<1>2. \A n \in Nat : [t EXCEPT !.writes = @ + n] \in Tally
  BY DEF Tally
<1>3. \A u \in Tally : [u EXCEPT !.failed = TRUE] \in Tally
  BY DEF Tally
<1>4. [t EXCEPT !.skipped = @ + 1] \in Tally
  BY DEF Tally
<1>5. NoTally \in Tally
  BY DEF Tally, NoTally
<1>6. AbortTally \in Tally
  BY <1>5, <1>3 DEF AbortTally
<1> QED
  BY <1>1, <1>2, <1>3, <1>4, <1>5, <1>6 DEF Skipped

\* What starting a run does to the session's variables keeps their types.
LEMMA BeginType ==
    ASSUME TypeOK, NEW s \in Sessions, pc[s] = "idle", NEW j \in Job,
           j.ids \subseteq IdsOf(j.target), Begin(s, j),
           evidence' \subseteq Events, runs' \in Nat
    PROVE  TypeOK'
<1> USE DEF work, TypeOK, Begin
<1>1. SessionTypeOK'
  BY TallyType DEF SessionTypeOK, NoTally, Tally
<1>2. WorkTypeOK'
  BY DEF WorkTypeOK
<1>3. LoopTypeOK'
  BY DEF LoopTypeOK, SessionTypeOK
<1> QED
  BY <1>1, <1>2, <1>3

\* An error that is recorded and leads to the release of the lock.
LEMMA RaiseType ==
    ASSUME TypeOK, NEW s \in Sessions, Raise(s), conn' \in [Sessions -> {"up", "lost"}],
           pc[s] \in {"gather", "evaluate", "insert", "commit"}
    PROVE  TypeOK'
<1> USE DEF store, history, bounds, TypeOK, Raise
<1>1. [tally[s] EXCEPT !.failed = TRUE] \in Tally
  BY TallyType DEF SessionTypeOK
<1>2. SessionTypeOK'
  BY <1>1 DEF SessionTypeOK
<1>3. WorkTypeOK'
  BY DEF WorkTypeOK
<1>4. LoopTypeOK'
  BY DEF LoopTypeOK, SessionTypeOK
<1> QED
  BY <1>2, <1>3, <1>4

\* What the server commits for a session is typed.
LEMMA ServerCommitsType ==
    ASSUME TypeOK, NEW s \in Sessions, ServerCommits(s), pc[s] = "commit"
    PROVE  /\ stops' \subseteq Store!StopRow
           /\ evaluations' \subseteq (Ids \X SUBSET Events)
           /\ wrote' \in [Sessions -> SUBSET StopIds]
<1> USE DEF TypeOK, ServerCommits
<1>1. at[s] \in Ids /\ snap[s] \in SUBSET Events
  BY DEF LoopTypeOK, WorkTypeOK, IdsOf, Ids
<1>2. {r.id : r \in ins[s]} \subseteq StopIds
  BY DEF WorkTypeOK, Store!StopRow
<1> QED
  BY <1>1, <1>2 DEF WorkTypeOK

\* A session that forgets its run is back in its initial state.
LEMMA ForgetType ==
    ASSUME SessionTypeOK, LoopTypeOK, NEW s \in Sessions, Forget(s)
    PROVE  SessionTypeOK' /\ LoopTypeOK'
<1>1. NoJob \in Job /\ NoJob.ids = {} /\ NoTally \in Tally
  BY DEF NoJob, Job, NoTally, Tally
<1>2. SessionTypeOK'
  BY <1>1 DEF Forget, SessionTypeOK
<1>3. LoopTypeOK'
  BY <1>1 DEF Forget, SessionTypeOK, LoopTypeOK
<1> QED
  BY <1>2, <1>3

LEMMA StepType == TypeOK /\ [Next]_vars => TypeOK'
<1> SUFFICES ASSUME TypeOK, [Next]_vars PROVE TypeOK'
    OBVIOUS
<1> USE DEF store, work, history, bounds
<1>u. CASE UNCHANGED vars
  BY <1>u DEF vars, TypeOK, SessionTypeOK, WorkTypeOK, LoopTypeOK
<1>1. ASSUME NEW s \in Sessions, Resolve(s) PROVE TypeOK'
  <2>1. ResolvedIds(job[s]) \subseteq IdsOf(job[s].target)
    BY ResolvedIdsType DEF TypeOK, SessionTypeOK, LoopTypeOK
  <2> QED
    BY <2>1, <1>1 DEF Resolve, TypeOK, SessionTypeOK, WorkTypeOK, LoopTypeOK, Ids, IdsOf
<1>2. ASSUME NEW s \in Sessions, NEW id \in Ids, AcquireLock(s, id) PROVE TypeOK'
  BY <1>2, ExecutorAssumption DEF AcquireLock, NextInLoop, TypeOK, SessionTypeOK, WorkTypeOK, LoopTypeOK
<1>3. ASSUME NEW s \in Sessions, NEW id \in Ids, SkipLocked(s, id) PROVE TypeOK'
  <2>1. Skipped(tally[s], job[s].trigger # "contribution") \in Tally
    BY TallyType DEF TypeOK, SessionTypeOK
  <2> QED
    BY <1>3, <2>1 DEF SkipLocked, TypeOK, SessionTypeOK, WorkTypeOK, LoopTypeOK
<1>4. ASSUME NEW s \in Sessions, Commit(s) PROVE TypeOK'
  <2>1. [tally[s] EXCEPT !.evaluated = @ + 1] \in Tally
    BY TallyType DEF TypeOK, SessionTypeOK
  <2>2. /\ stops' \subseteq Store!StopRow /\ evaluations' \subseteq (Ids \X SUBSET Events)
        /\ wrote' \in [Sessions -> SUBSET StopIds]
    BY <1>4, ServerCommitsType DEF Commit
  <2>3. at[s] \in Ids
    BY <1>4 DEF Commit, TypeOK, LoopTypeOK, IdsOf, Ids
  <2>4. SessionTypeOK'
    BY <1>4, <2>1 DEF Commit, TypeOK, SessionTypeOK
  <2>5. WorkTypeOK'
    BY <1>4, <2>2, <2>3 DEF Commit, TypeOK, WorkTypeOK
  <2>6. LoopTypeOK'
    BY <1>4 DEF Commit, TypeOK, LoopTypeOK, SessionTypeOK
  <2> QED
    BY <1>4, <2>2, <2>4, <2>5, <2>6 DEF Commit, TypeOK
<1>5. ASSUME NEW s \in Sessions, LoseConnection(s) PROVE TypeOK'
  <2>1. /\ stops' \subseteq Store!StopRow /\ evaluations' \subseteq (Ids \X SUBSET Events)
        /\ wrote' \in [Sessions -> SUBSET StopIds]
    BY <1>5, ServerCommitsType DEF LoseConnection, TypeOK, WorkTypeOK
  <2>2. /\ lock' \in [LockKeys -> Sessions \cup {NoSession}]
        /\ ins' \in [Sessions -> SUBSET Store!StopRow] /\ faults' \in Nat
    BY <1>5 DEF LoseConnection, ServerEndsSession, TypeOK, WorkTypeOK
  <2>3. SessionTypeOK'
    BY <1>5 DEF LoseConnection, TypeOK, SessionTypeOK
  <2>4. WorkTypeOK'
    BY <1>5, <2>1, <2>2 DEF LoseConnection, TypeOK, WorkTypeOK
  <2>5. LoopTypeOK'
    BY <1>5 DEF LoseConnection, TypeOK, LoopTypeOK
  <2> QED
    BY <1>5, <2>1, <2>2, <2>3, <2>4, <2>5 DEF LoseConnection, TypeOK
<1>6. ASSUME NEW s \in Sessions, NEW e \in Events, Submit(s, e) PROVE TypeOK'
  BY <1>6, ContributionJobType, BeginType DEF Submit, TypeOK
<1>7. ASSUME NEW s \in Sessions, NEW e \in Events, SubmitUnhandled(s, e) PROVE TypeOK'
  BY <1>7 DEF SubmitUnhandled, TypeOK, SessionTypeOK, WorkTypeOK, LoopTypeOK
<1>8. ASSUME NEW s \in Sessions, NEW target \in {"stop", "route"}, NEW run \in {"single", "all"},
             Recompute(s, target, run)
      PROVE  TypeOK'
  <2>1. AdminJob(target, run) \in Job /\ AdminJob(target, run).ids = {}
    BY AdminJobType DEF AdminJob, NoJob
  <2> QED
    BY <1>8, <2>1, BeginType DEF Recompute, TypeOK
<1>9. ASSUME NEW s \in Sessions, Gather(s) PROVE TypeOK'
  <2>1. EvidenceFor(job[s].target, at[s]) \subseteq Events
    BY EvidenceForType DEF TypeOK
  <2> QED
    BY <1>9, <2>1 DEF Gather, TypeOK, SessionTypeOK, WorkTypeOK, LoopTypeOK
<1>10. ASSUME NEW s \in Sessions, EvaluatorRaises(s) PROVE TypeOK'
  BY <1>10, RaiseType DEF EvaluatorRaises, TypeOK, SessionTypeOK
<1>11. ASSUME NEW s \in Sessions, EvaluateStop(s) PROVE TypeOK'
  <2>1. Clusters(snap[s]) \subseteq SUBSET Events
    BY ExecutorAssumption DEF TypeOK, WorkTypeOK
  <2> QED
    BY <1>11, <2>1 DEF EvaluateStop, TypeOK, SessionTypeOK, WorkTypeOK, LoopTypeOK
<1>12. ASSUME NEW s \in Sessions, EvaluateRoute(s) PROVE TypeOK'
  BY <1>12 DEF EvaluateRoute, TypeOK, SessionTypeOK, WorkTypeOK, LoopTypeOK
<1>13. ASSUME NEW s \in Sessions, NEW c \in plan[s], NEW id \in StopIds, InsertStop(s, c, id)
       PROVE  TypeOK'
  <2>1. NewStop(id, c) \in Store!StopRow
    BY DEF NewStop, CreatedPublicId, Store!StopRow, TypeOK, WorkTypeOK
  <2> QED
    BY <1>13, <2>1 DEF InsertStop, TypeOK, SessionTypeOK, WorkTypeOK, LoopTypeOK
<1>14. ASSUME NEW s \in Sessions, NEW c \in plan[s], NEW id \in StopIds, InsertRefused(s, c, id)
       PROVE  TypeOK'
  BY <1>14, RaiseType DEF InsertRefused, TypeOK, SessionTypeOK
<1>15. ASSUME NEW s \in Sessions, CountWrites(s) PROVE TypeOK'
  <2>1. Cardinality(Clusters(snap[s])) \in Nat
    BY ExecutorAssumption, FS_CardinalityType DEF TypeOK, WorkTypeOK
  <2>2. [tally[s] EXCEPT !.writes = @ + Cardinality(Clusters(snap[s]))] \in Tally
    BY <2>1, TallyType DEF TypeOK, SessionTypeOK
  <2> QED
    BY <1>15, <2>2 DEF CountWrites, TypeOK, SessionTypeOK, WorkTypeOK, LoopTypeOK
<1>16. ASSUME NEW s \in Sessions, Release(s) PROVE TypeOK'
  <2>1. LockKey[at[s]] \in LockKeys
    BY <1>16, ExecutorAssumption DEF Release, TypeOK, LoopTypeOK, IdsOf, Ids
  <2> QED
    BY <1>16, <2>1 DEF Release, TypeOK, SessionTypeOK, WorkTypeOK, LoopTypeOK
<1>17. ASSUME NEW s \in Sessions, FinishJob(s) PROVE TypeOK'
  BY <1>17 DEF FinishJob, TypeOK, SessionTypeOK, WorkTypeOK, LoopTypeOK
<1>18. ASSUME NEW s \in Sessions, StartRoutePhase(s) PROVE TypeOK'
  <2>1. AdminJob("route", "all") \in Job /\ AdminJob("route", "all").ids = {}
    BY AdminJobType DEF AdminJob, NoJob
  <2>2. SessionTypeOK'
    BY <1>18, <2>1, TallyType DEF StartRoutePhase, TypeOK, SessionTypeOK
  <2> QED
    BY <1>18, <2>1, <2>2 DEF StartRoutePhase, TypeOK, SessionTypeOK, WorkTypeOK, LoopTypeOK
<1>19. ASSUME NEW s \in Sessions, Return(s) PROVE TypeOK'
  <2>1. SessionTypeOK' /\ LoopTypeOK'
    BY <1>19, ForgetType DEF Return, TypeOK
  <2> QED
    BY <1>19, <2>1 DEF Return, Forget, TypeOK, WorkTypeOK
<1>20. ASSUME NEW s \in Sessions, Crash(s) PROVE TypeOK'
  <2>1. /\ stops' \subseteq Store!StopRow /\ evaluations' \subseteq (Ids \X SUBSET Events)
    BY <1>20 DEF Crash, TypeOK, WorkTypeOK, LoopTypeOK, IdsOf, Ids
  <2>2. SessionTypeOK' /\ LoopTypeOK'
    BY <1>20, ForgetType DEF Crash, TypeOK
  <2>3. /\ lock' \in [LockKeys -> Sessions \cup {NoSession}]
        /\ ins' \in [Sessions -> SUBSET Store!StopRow] /\ faults' \in Nat
    BY <1>20 DEF Crash, ServerEndsSession, TypeOK, WorkTypeOK
  <2> QED
    BY <1>20, <2>1, <2>2, <2>3 DEF Crash, Forget, TypeOK, WorkTypeOK
<1>21. ASSUME NEW s \in Sessions, JobAborts(s) PROVE TypeOK'
  <2>1. SessionTypeOK'
    BY <1>21, TallyType DEF JobAborts, TypeOK, SessionTypeOK
  <2> QED
    BY <1>21, <2>1 DEF JobAborts, TypeOK, SessionTypeOK, WorkTypeOK, LoopTypeOK
<1>22. ASSUME NEW s \in Sessions, GatherFails(s) PROVE TypeOK'
  BY <1>22, RaiseType DEF GatherFails, TypeOK, SessionTypeOK
<1>23. ASSUME NEW s \in Sessions, TransactionFails(s) PROVE TypeOK'
  <2>1. conn' \in [Sessions -> {"up", "lost"}]
    BY <1>23 DEF TransactionFails, TypeOK, SessionTypeOK
  <2> QED
    BY <1>23, <2>1, RaiseType DEF TransactionFails
<1> QED
  BY <1>u, <1>1, <1>2, <1>3, <1>4, <1>5, <1>6, <1>7, <1>8, <1>9, <1>10, <1>11, <1>12, <1>13,
     <1>14, <1>15, <1>16, <1>17, <1>18, <1>19, <1>20, <1>21, <1>22, <1>23
     DEF Next, Start, SessionStep

\* Every variable always has its type (TypeOK).
THEOREM TypeCorrect == Spec => []TypeOK
BY InitType, StepType, PTL DEF Spec

(****************************************************************************)
(* Locks                                                                    *)
(*                                                                          *)
(* LockInvariant is inductive over TypeOK: only the owner of a lock changes *)
(* it, and only where its own statement leaves the loop body.               *)
(****************************************************************************)

LoopBody == {"gather", "evaluate", "insert", "commit", "release"}

\* What a step of session s does to the locks, when it touches none of them and
\* s stays where its lock is justified.
LEMMA LocksKept ==
    ASSUME TypeOK, LockInvariant, NEW s \in Sessions,
           lock' = lock, at' = at, conn' = conn,
           \A t \in Sessions \ {s} : pc'[t] = pc[t],
           pc[s] \in LoopBody <=> pc'[s] \in LoopBody,
           Evaluating(s)' => Evaluating(s)
    PROVE  LockInvariant'
BY ExecutorAssumption DEF LockInvariant, NoLeakedLock, Evaluating, TypeOK, SessionTypeOK, LoopBody

\* A session outside the loop body owns no lock, and may change everything but
\* the locks as long as it stays outside.
LEMMA LocksOutside ==
    ASSUME TypeOK, LockInvariant, NEW s \in Sessions, lock' = lock,
           \A t \in Sessions \ {s} : pc'[t] = pc[t] /\ at'[t] = at[t] /\ conn'[t] = conn[t],
           pc[s] \notin LoopBody, pc'[s] \notin LoopBody
    PROVE  LockInvariant'
BY ExecutorAssumption DEF LockInvariant, NoLeakedLock, Evaluating, TypeOK, SessionTypeOK, LoopBody

\* A session without a connection owns no lock, and can neither take one nor
\* count as evaluating by what it does next.
LEMMA LocksDisconnected ==
    ASSUME TypeOK, LockInvariant, NEW s \in Sessions, lock' = lock,
           \A t \in Sessions \ {s} : pc'[t] = pc[t] /\ at'[t] = at[t] /\ conn'[t] = conn[t],
           conn[s] = "lost", ~Evaluating(s)'
    PROVE  LockInvariant'
BY ExecutorAssumption DEF LockInvariant, NoLeakedLock, Evaluating, TypeOK, SessionTypeOK

\* The server frees all locks of a session that it ends.
LEMMA LocksFreed ==
    ASSUME TypeOK, LockInvariant, NEW s \in Sessions,
           lock' = [k \in LockKeys |-> IF lock[k] = s THEN NoSession ELSE lock[k]],
           \A t \in Sessions \ {s} : pc'[t] = pc[t] /\ at'[t] = at[t] /\ conn'[t] = conn[t],
           ~Evaluating(s)'
    PROVE  LockInvariant'
<1>1. NoLeakedLock'
  BY ExecutorAssumption DEF LockInvariant, NoLeakedLock, TypeOK, SessionTypeOK
<1>2. ASSUME NEW t \in Sessions, Evaluating(t)' PROVE lock'[LockKey[at'[t]]] = t
  <2>1. t # s /\ Evaluating(t) /\ at'[t] = at[t]
    BY <1>2 DEF Evaluating
  <2>2. LockKey[at[t]] \in LockKeys
    BY <2>1, ExecutorAssumption DEF Evaluating, TypeOK, LoopTypeOK, IdsOf, Ids
  <2> QED
    BY <2>1, <2>2 DEF LockInvariant
<1> QED
  BY <1>1, <1>2 DEF LockInvariant

LEMMA LockInit == Init => LockInvariant
BY DEF Init, LockInvariant, NoLeakedLock, Evaluating

LEMMA LockStep == TypeOK /\ TypeOK' /\ LockInvariant /\ [Next]_vars => LockInvariant'
<1> SUFFICES ASSUME TypeOK, TypeOK', LockInvariant, [Next]_vars PROVE LockInvariant'
    OBVIOUS
<1> USE DEF store, work, history, bounds
<1>u. CASE UNCHANGED vars
  BY <1>u DEF vars, LockInvariant, NoLeakedLock, Evaluating
<1>1. ASSUME NEW s \in Sessions, NEW j, pc[s] = "idle", Begin(s, j) PROVE LockInvariant'
  BY <1>1, LocksOutside DEF Begin, LoopBody, TypeOK, SessionTypeOK
<1>2. ASSUME NEW s \in Sessions, NEW e \in Events, SubmitUnhandled(s, e) PROVE LockInvariant'
  BY <1>2 DEF SubmitUnhandled, LockInvariant, NoLeakedLock, Evaluating
<1>3. ASSUME NEW s \in Sessions, Resolve(s) PROVE LockInvariant'
  BY <1>3, LocksOutside DEF Resolve, LoopBody, TypeOK, SessionTypeOK
<1>4. ASSUME NEW s \in Sessions, NEW id \in Ids, AcquireLock(s, id) PROVE LockInvariant'
  BY <1>4, ExecutorAssumption
     DEF AcquireLock, LockFree, LockInvariant, NoLeakedLock, Evaluating, TypeOK, SessionTypeOK, LoopTypeOK, IdsOf, Ids
<1>5. ASSUME NEW s \in Sessions, NEW id \in Ids, SkipLocked(s, id) PROVE LockInvariant'
  BY <1>5 DEF SkipLocked, LockInvariant, NoLeakedLock, Evaluating
<1>6. ASSUME NEW s \in Sessions, Raise(s), pc[s] \in LoopBody,
             conn' = conn \/ (conn[s] = "lost" /\ \E c : conn' = [conn EXCEPT ![s] = c])
      PROVE  LockInvariant'
  <2>1. ~Evaluating(s)' /\ pc'[s] \in LoopBody
    BY <1>6 DEF Raise, Evaluating, LoopBody, TypeOK, SessionTypeOK
  <2>2. CASE conn' = conn
    BY <1>6, <2>1, <2>2, LocksKept DEF Raise, TypeOK, SessionTypeOK
  <2>3. CASE conn[s] = "lost" /\ \E c : conn' = [conn EXCEPT ![s] = c]
    BY <1>6, <2>1, <2>3, LocksDisconnected DEF Raise, TypeOK, SessionTypeOK
  <2> QED
    BY <1>6, <2>2, <2>3
<1>7. ASSUME NEW s \in Sessions, Gather(s) PROVE LockInvariant'
  BY <1>7, LocksKept DEF Gather, LoopBody, Evaluating, TypeOK, SessionTypeOK
<1>8. ASSUME NEW s \in Sessions, EvaluateStop(s) PROVE LockInvariant'
  BY <1>8, LocksKept DEF EvaluateStop, LoopBody, Evaluating, TypeOK, SessionTypeOK
<1>9. ASSUME NEW s \in Sessions, EvaluateRoute(s) PROVE LockInvariant'
  BY <1>9, LocksKept DEF EvaluateRoute, LoopBody, Evaluating, TypeOK, SessionTypeOK
<1>10. ASSUME NEW s \in Sessions, NEW c, NEW id, InsertStop(s, c, id) PROVE LockInvariant'
  BY <1>10 DEF InsertStop, LockInvariant, NoLeakedLock, Evaluating
<1>11. ASSUME NEW s \in Sessions, CountWrites(s) PROVE LockInvariant'
  BY <1>11, LocksKept DEF CountWrites, LoopBody, Evaluating, TypeOK, SessionTypeOK
<1>12. ASSUME NEW s \in Sessions, Commit(s) PROVE LockInvariant'
  BY <1>12, LocksKept DEF Commit, LoopBody, Evaluating, TypeOK, SessionTypeOK
<1>13. ASSUME NEW s \in Sessions, Release(s) PROVE LockInvariant'
  <2>1. /\ at[s] \in Ids /\ LockKey[at[s]] \in LockKeys
        /\ \A t \in Sessions : Evaluating(t) => at[t] \in Ids
    BY <1>13, ExecutorAssumption DEF Release, Evaluating, TypeOK, LoopTypeOK, IdsOf, Ids
  <2>2. NoLeakedLock'
    BY <1>13, <2>1, ExecutorAssumption
       DEF Release, LockInvariant, NoLeakedLock, TypeOK, SessionTypeOK
  <2>3. ASSUME NEW t \in Sessions, Evaluating(t)' PROVE lock'[LockKey[at'[t]]] = t
    <3>1. t # s /\ Evaluating(t) /\ at'[t] = at[t]
      BY <1>13, <2>3 DEF Release, Evaluating, TypeOK, SessionTypeOK
    <3> QED
      BY <1>13, <2>1, <3>1 DEF Release, LockInvariant, TypeOK
  <2> QED
    BY <2>2, <2>3 DEF LockInvariant, Evaluating
<1>14. ASSUME NEW s \in Sessions, FinishJob(s) PROVE LockInvariant'
  BY <1>14, LocksOutside DEF FinishJob, LoopBody, TypeOK, SessionTypeOK
<1>15. ASSUME NEW s \in Sessions, StartRoutePhase(s) PROVE LockInvariant'
  BY <1>15, LocksOutside DEF StartRoutePhase, LoopBody, TypeOK, SessionTypeOK
<1>16. ASSUME NEW s \in Sessions, Return(s) PROVE LockInvariant'
  BY <1>16, LocksOutside DEF Return, Forget, LoopBody, TypeOK, SessionTypeOK
<1>17. ASSUME NEW s \in Sessions, JobAborts(s) PROVE LockInvariant'
  BY <1>17, LocksDisconnected DEF JobAborts, Evaluating, TypeOK, SessionTypeOK
<1>18. ASSUME NEW s \in Sessions, LoseConnection(s) PROVE LockInvariant'
  BY <1>18, LocksFreed DEF LoseConnection, ServerEndsSession, Evaluating, TypeOK, SessionTypeOK
<1>19. ASSUME NEW s \in Sessions, Crash(s) PROVE LockInvariant'
  BY <1>19, LocksFreed DEF Crash, Forget, ServerEndsSession, Evaluating, TypeOK, SessionTypeOK
<1>20. ASSUME NEW s \in Sessions, EvaluatorRaises(s) \/ GatherFails(s) \/ TransactionFails(s)
       PROVE  LockInvariant'
  BY <1>20, <1>6 DEF EvaluatorRaises, GatherFails, TransactionFails, LoopBody
<1>21. ASSUME NEW s \in Sessions, NEW c, NEW id, InsertRefused(s, c, id) PROVE LockInvariant'
  BY <1>21, <1>6 DEF InsertRefused, LoopBody
<1> QED
  BY <1>u, <1>1, <1>2, <1>3, <1>4, <1>5, <1>7, <1>8, <1>9, <1>10, <1>11, <1>12, <1>13,
     <1>14, <1>15, <1>16, <1>17, <1>18, <1>19, <1>20, <1>21
     DEF Next, Start, SessionStep, Submit, Recompute

\* The lock invariant holds in every reachable state.
THEOREM LocksCorrect == Spec => []LockInvariant
BY TypeCorrect, LockInit, LockStep, PTL DEF Spec

\* Two live sessions never evaluate the same entity at once (executor.py:27),
\* nor two entities whose 48-bit hashes collide.
THEOREM EvaluationIsExclusive == Spec => []ExclusiveEvaluation
<1>1. TypeOK /\ LockInvariant => ExclusiveEvaluation
  BY ExecutorAssumption DEF ExclusiveEvaluation, LockInvariant
<1> QED
  BY <1>1, TypeCorrect, LocksCorrect, PTL

\* No failure leaves an advisory lock behind (locking.py:23-24).
THEOREM LocksDoNotLeak == Spec => []NoLeakedLock
<1>1. LockInvariant => NoLeakedLock
  BY DEF LockInvariant
<1> QED
  BY <1>1, LocksCorrect, PTL


(***************************************************************************)
(* Rows                                                                    *)
(***************************************************************************)

\* Row identity is about the committed rows and each session's open
\* transaction: a step of s that only moves or drops its own uncommitted rows
\* keeps it.
LEMMA RowsMoved ==
    ASSUME TypeOK, RowsUnique, NEW s \in Sessions,
           stops \subseteq stops', stops' \subseteq stops \cup ins[s],
           ins' = ins \/ ins' = [ins EXCEPT ![s] = {}],
           stops' # stops => ins' = [ins EXCEPT ![s] = {}]
    PROVE  RowsUnique'
<1> DEFINE Apart(r, q) == r.id # q.id /\ r.public_id # q.public_id
<1>1. ins'[s] = {} \/ (ins' = ins /\ stops' = stops)
  BY DEF TypeOK, WorkTypeOK
<1>2. \A t \in Sessions : ins'[t] \subseteq ins[t] /\ (t # s => ins'[t] = ins[t])
  BY DEF TypeOK, WorkTypeOK
<1>3. \A r, q \in stops' : r # q => Apart(r, q)
  BY DEF RowsUnique
<1>4. \A t \in Sessions : \A r \in ins'[t], q \in stops' : Apart(r, q)
  <2> SUFFICES ASSUME NEW t \in Sessions, NEW r \in ins'[t], NEW q \in stops' PROVE Apart(r, q)
    OBVIOUS
  <2>1. CASE q \in stops
    BY <1>2, <2>1 DEF RowsUnique
  <2>2. CASE q \notin stops
    <3>1. q \in ins[s] /\ t # s /\ r \in ins[t]
      BY <1>1, <1>2, <2>2
    <3> QED
      BY <3>1 DEF RowsUnique
  <2> QED
    BY <2>1, <2>2
<1>5. \A t, u \in Sessions : \A r \in ins'[t], q \in ins'[u] : r # q \/ t # u => Apart(r, q)
  BY <1>2 DEF RowsUnique
<1>6. \A t \in Sessions : \A r \in ins'[t] : r.public_id = CreatedPublicId(r.id)
  BY <1>2 DEF RowsUnique
<1>7. \A r \in stops' : r.refs # {} => r.public_id = CreatedPublicId(r.id)
  BY DEF RowsUnique
<1> QED
  BY <1>3, <1>4, <1>5, <1>6, <1>7 DEF RowsUnique, CreatedPublicId

\* The unique index admits an INSERT only next to rows with other public ids.
LEMMA RowInserted ==
    ASSUME TypeOK, RowsUnique, NEW s \in Sessions, NEW cluster, NEW id \in FreshIds,
           ~IndexWaits(s, NewStop(id, cluster)), ~IndexRefuses(s, NewStop(id, cluster)),
           stops' = stops, ins' = [ins EXCEPT ![s] = @ \cup {NewStop(id, cluster)}]
    PROVE  RowsUnique'
<1>0. PICK new : new = NewStop(id, cluster)
  OBVIOUS
<1>1. new.id = id /\ new.public_id = CreatedPublicId(id)
  BY <1>0 DEF NewStop
<1>2. \A r \in stops : r.id # new.id /\ r.public_id # new.public_id
  BY <1>0, <1>1 DEF FreshIds, IndexRefuses
<1>3. \A t \in Sessions : \A r \in ins[t] : r.id # new.id /\ r.public_id # new.public_id
  BY <1>0, <1>1 DEF FreshIds, IndexRefuses, IndexWaits
<1>4. \A t \in Sessions : \A r \in ins'[t] : r \in ins[t] \/ (r = new /\ t = s)
  BY <1>0 DEF TypeOK, WorkTypeOK
<1> DEFINE Apart(r, q) == r.id # q.id /\ r.public_id # q.public_id
<1>5. \A t \in Sessions : \A r \in ins'[t], q \in stops' : Apart(r, q)
  <2> SUFFICES ASSUME NEW t \in Sessions, NEW r \in ins'[t], NEW q \in stops PROVE Apart(r, q)
    OBVIOUS
  <2>1. r \in ins[t] \/ r = new
    BY <1>4
  <2> QED
    BY <1>2, <2>1 DEF RowsUnique
<1>6. \A t, u \in Sessions : \A r \in ins'[t], q \in ins'[u] : r # q \/ t # u => Apart(r, q)
  <2> SUFFICES ASSUME NEW t \in Sessions, NEW u \in Sessions, NEW r \in ins'[t],
                      NEW q \in ins'[u], r # q \/ t # u
               PROVE  Apart(r, q)
    OBVIOUS
  <2>1. (r \in ins[t] \/ (r = new /\ t = s)) /\ (q \in ins[u] \/ (q = new /\ u = s))
    BY <1>4
  <2>2. CASE r \in ins[t] /\ q \in ins[u]
    BY <2>2 DEF RowsUnique
  <2>3. CASE r = new \/ q = new
    BY <1>3, <2>1, <2>3
  <2> QED
    BY <2>1, <2>2, <2>3
<1>7. \A t \in Sessions : \A r \in ins'[t] : r.public_id = CreatedPublicId(r.id)
  BY <1>1, <1>4 DEF RowsUnique
<1> QED
  BY <1>5, <1>6, <1>7 DEF RowsUnique, CreatedPublicId

LEMMA RowsInit == Init => RowsUnique
BY ExecutorAssumption DEF Init, RowsUnique

\* Every step inserts one row, or moves or drops what its session has inserted.
LEMMA RowsStep == TypeOK /\ RowsUnique /\ [Next]_vars => RowsUnique'
<1> SUFFICES ASSUME TypeOK, RowsUnique, [Next]_vars PROVE RowsUnique'
    OBVIOUS
<1> USE DEF store, work, history, bounds
<1>1. CASE UNCHANGED <<stops, ins>>
  BY <1>1 DEF RowsUnique, CreatedPublicId
<1>2. ASSUME NEW s \in Sessions, stops' = stops, ins' = [ins EXCEPT ![s] = {}] PROVE RowsUnique'
  BY <1>2, RowsMoved
<1>3. ASSUME NEW s \in Sessions, stops' \in {stops, stops \cup ins[s]}, ins' = [ins EXCEPT ![s] = {}]
      PROVE  RowsUnique'
  BY <1>3, RowsMoved
<1>4. ASSUME NEW s \in Sessions, NEW c \in plan[s], NEW id \in StopIds, InsertStop(s, c, id)
      PROVE  RowsUnique'
  BY <1>4, RowInserted DEF InsertStop
<1>5. ASSUME NEW s \in Sessions, Commit(s) \/ LoseConnection(s) \/ Crash(s) PROVE RowsUnique'
  BY <1>5, <1>3 DEF Commit, LoseConnection, Crash, ServerCommits, ServerEndsSession
<1>6. ASSUME NEW s \in Sessions,
             \/ EvaluatorRaises(s) \/ GatherFails(s) \/ TransactionFails(s)
             \/ \E c \in plan[s], id \in StopIds : InsertRefused(s, c, id)
      PROVE  RowsUnique'
  BY <1>6, <1>2 DEF EvaluatorRaises, GatherFails, TransactionFails, InsertRefused, Raise
<1>7. ASSUME NEW s \in Sessions, Start(s) PROVE UNCHANGED <<stops, ins>>
  BY <1>7 DEF Start, Submit, SubmitUnhandled, Recompute, Begin
<1>8. ASSUME NEW s \in Sessions,
             \/ Resolve(s) \/ Gather(s) \/ \E id \in Ids : AcquireLock(s, id) \/ SkipLocked(s, id)
             \/ EvaluateStop(s) \/ EvaluateRoute(s) \/ CountWrites(s) \/ Release(s)
             \/ FinishJob(s) \/ StartRoutePhase(s) \/ Return(s) \/ JobAborts(s)
      PROVE  UNCHANGED <<stops, ins>>
  BY <1>8 DEF Resolve, Gather, AcquireLock, SkipLocked, EvaluateStop, EvaluateRoute, CountWrites,
              Release, FinishJob, StartRoutePhase, Return, JobAborts
<1>9. CASE UNCHANGED vars
  BY <1>9, <1>1 DEF vars
<1> QED
  BY <1>1, <1>4, <1>5, <1>6, <1>7, <1>8, <1>9 DEF Next, SessionStep

\* Row identities never clash, committed or not.
THEOREM RowsStayUnique == Spec => []RowsUnique
BY TypeCorrect, RowsInit, RowsStep, PTL DEF Spec

\* No event ever supports two canonical Stops (write_stop, executor.py:26): the
\* empty public_id that every created row carries fits once into its unique
\* index, and rows that evaluation did not create cite no evidence.
THEOREM StopsAreNotDuplicated == Spec => []NoDuplicateStop
<1>1. RowsUnique => NoDuplicateStop
  BY DEF RowsUnique, NoDuplicateStop, CreatedPublicId
<1> QED
  BY <1>1, RowsStayUnique, PTL


(***************************************************************************)
(* The implementation of AtomicEvaluation                                  *)
(***************************************************************************)

\* Committed evidence stays, so what a session read of it remains a part.
LEMMA EvidenceForGrows ==
    ASSUME evidence \subseteq evidence', NEW target, NEW id
    PROVE  EvidenceFor(target, id) \subseteq EvidenceFor(target, id)'
BY DEF EvidenceFor, Store!StopEvidence, Store!Names

\* A session whose own variables a step leaves alone keeps its batch.
LEMMA BatchKept ==
    ASSUME NEW t \in Sessions, Batch(t), evidence \subseteq evidence',
           pc'[t] = pc[t], job'[t] = job[t], at'[t] = at[t], snap'[t] = snap[t],
           plan'[t] = plan[t], ins'[t] = ins[t], conn'[t] = conn[t]
    PROVE  Batch(t)'
<1>1. EvidenceFor(job[t].target, at[t]) \subseteq EvidenceFor(job[t].target, at[t])'
  BY EvidenceForGrows
<1>2. Clusters(snap'[t]) = Clusters(snap[t])
  OBVIOUS
<1> QED
  BY <1>1, <1>2 DEF Batch

\* A session that has nothing inserted and nothing to insert, outside the part
\* of the loop that has gathered evidence.
LEMMA BatchEmpty ==
    ASSUME NEW s \in Sessions, ins'[s] = {}, plan'[s] = {},
           pc'[s] \notin {"evaluate", "insert", "commit"}
    PROVE  Batch(s)'
BY DEF Batch

LEMMA BatchInit == Init => BatchInvariant
BY DEF Init, BatchInvariant, Batch, NoJob


LEMMA BatchStep == TypeOK /\ BatchInvariant /\ [Next]_vars => BatchInvariant'
<1> SUFFICES ASSUME TypeOK, BatchInvariant, [Next]_vars, NEW t \in Sessions PROVE Batch(t)'
    BY DEF BatchInvariant
<1> USE DEF store, work, history, bounds
<1>0. Batch(t)
  BY DEF BatchInvariant
<1>u. CASE UNCHANGED vars
  BY <1>u, <1>0, BatchKept DEF vars
<1>o. ASSUME NEW s \in Sessions, s # t, Start(s) \/ SessionStep(s) \/ LoseConnection(s) \/ Crash(s)
      PROVE  Batch(t)'
  <2>1. /\ pc'[t] = pc[t] /\ job'[t] = job[t] /\ at'[t] = at[t] /\ snap'[t] = snap[t]
        /\ plan'[t] = plan[t] /\ ins'[t] = ins[t] /\ conn'[t] = conn[t]
        /\ evidence \subseteq evidence'
    BY <1>o DEF TypeOK, SessionTypeOK, WorkTypeOK, Start, SessionStep, Submit, SubmitUnhandled,
       Recompute, Begin, Resolve, AcquireLock, SkipLocked, Gather, Raise, EvaluatorRaises,
       EvaluateStop, EvaluateRoute, InsertStop, InsertRefused, CountWrites, Commit, Release,
       FinishJob, StartRoutePhase, Return, Forget, LoseConnection, ServerEndsSession, Crash,
       JobAborts, GatherFails, TransactionFails
  <2> QED
    BY <2>1, <1>0, BatchKept
<1>1. ASSUME Start(t) PROVE Batch(t)'
  <2>1. CASE pc'[t] = pc[t] /\ UNCHANGED <<job, at, snap, plan, ins, conn>>
    BY <2>1, <1>1, <1>0, BatchKept DEF Start, Submit, SubmitUnhandled, Recompute, Begin
  <2>2. CASE pc'[t] = "resolve" /\ pc[t] = "idle" /\ UNCHANGED <<plan, ins>>
    BY <2>2, <1>0, BatchEmpty DEF Batch
  <2> QED
    BY <1>1, <2>1, <2>2
       DEF Start, Submit, SubmitUnhandled, Recompute, Begin, TypeOK, SessionTypeOK
<1>2. ASSUME Resolve(t) \/ (\E id \in Ids : AcquireLock(t, id) \/ SkipLocked(t, id))
             \/ FinishJob(t) \/ StartRoutePhase(t) \/ Return(t) \/ JobAborts(t) \/ Release(t)
      PROVE  Batch(t)'
  <2>1. /\ pc'[t] \notin {"evaluate", "insert", "commit"}
        /\ pc[t] \notin {"insert", "commit"} /\ ins'[t] = ins[t] /\ plan'[t] \in {{}, plan[t]}
    BY <1>2 DEF Resolve, AcquireLock, SkipLocked, FinishJob, StartRoutePhase, Return, Forget,
                JobAborts, Release, TypeOK, SessionTypeOK, WorkTypeOK
  <2> QED
    BY <2>1, <1>0, BatchEmpty DEF Batch
<1>3. ASSUME \/ EvaluatorRaises(t) \/ GatherFails(t) \/ TransactionFails(t)
             \/ \E c \in plan[t], id \in StopIds : InsertRefused(t, c, id)
      PROVE  Batch(t)'
  BY <1>3, BatchEmpty DEF EvaluatorRaises, GatherFails, TransactionFails, InsertRefused, Raise,
                          TypeOK, SessionTypeOK, WorkTypeOK
<1>4. ASSUME Gather(t) PROVE Batch(t)'
  BY <1>4, <1>0 DEF Gather, Batch, TypeOK, SessionTypeOK, WorkTypeOK, EvidenceFor, Store!StopEvidence, Store!Names
<1>5. ASSUME EvaluateStop(t) PROVE Batch(t)'
  BY <1>5, <1>0 DEF EvaluateStop, Batch, TypeOK, SessionTypeOK, WorkTypeOK, EvidenceFor, Store!StopEvidence, Store!Names
<1>6. ASSUME EvaluateRoute(t) PROVE Batch(t)'
  BY <1>6, <1>0 DEF EvaluateRoute, Batch, TypeOK, SessionTypeOK, WorkTypeOK, EvidenceFor, Store!StopEvidence, Store!Names
<1>7. ASSUME NEW c \in plan[t], NEW id \in StopIds, InsertStop(t, c, id) PROVE Batch(t)'
  <2>0. NewStop(id, c).refs = c
    BY DEF NewStop
  <2>1. PICK new : new = NewStop(id, c) /\ new.refs = c
    BY <2>0
  <2>2. ins'[t] = ins[t] \cup {new} /\ plan'[t] = plan[t] \ {c}
    BY <1>7, <2>1 DEF InsertStop, TypeOK, WorkTypeOK
  <2>3. /\ pc'[t] = "insert" /\ pc[t] = "insert" /\ conn[t] = "up" /\ job[t].target = "stop"
        /\ UNCHANGED <<evidence, job, at, snap, conn>>
    BY <1>7, <1>0 DEF InsertStop, Batch
  <2>4. {r.refs : r \in ins[t]} = Clusters(snap[t]) \ plan[t]
    BY <1>0, <2>3 DEF Batch
  <2>5. \A r \in ins[t] : r.refs # c
    BY <2>4
  <2>6. \A r, q \in ins'[t] : r # q => r.refs # q.refs
    BY <1>0, <2>1, <2>2, <2>5 DEF Batch
  <2>7. {r.refs : r \in ins'[t]} = {r.refs : r \in ins[t]} \cup {c}
    BY <2>1, <2>2
  <2>8. {r.refs : r \in ins'[t]} = Clusters(snap[t]) \ plan'[t]
    BY <1>0, <2>2, <2>4, <2>7 DEF Batch
  <2>9. snap[t] \subseteq EvidenceFor(job[t].target, at[t])'
    BY <1>0, <2>3 DEF Batch, EvidenceFor, Store!StopEvidence, Store!Names
  <2> QED
    BY <1>0, <2>2, <2>3, <2>6, <2>8, <2>9 DEF Batch
<1>8. ASSUME CountWrites(t) PROVE Batch(t)'
  BY <1>8, <1>0 DEF CountWrites, Batch, TypeOK, SessionTypeOK, WorkTypeOK, EvidenceFor, Store!StopEvidence, Store!Names
<1>9. ASSUME Commit(t) PROVE Batch(t)'
  BY <1>9, <1>0, BatchEmpty DEF Commit, Batch, TypeOK, SessionTypeOK, WorkTypeOK
<1>10. ASSUME LoseConnection(t) PROVE Batch(t)'
  BY <1>10, <1>0 DEF LoseConnection, ServerEndsSession, Batch, TypeOK, SessionTypeOK, WorkTypeOK,
                     EvidenceFor, Store!StopEvidence, Store!Names
<1>11. ASSUME Crash(t) PROVE Batch(t)'
  BY <1>11, BatchEmpty DEF Crash, Forget, ServerEndsSession, TypeOK, SessionTypeOK, WorkTypeOK
<1> QED
  BY <1>u, <1>o, <1>1, <1>2, <1>3, <1>4, <1>5, <1>6, <1>7, <1>8, <1>9, <1>10, <1>11
     DEF Next, SessionStep


\* Readings come from the sessions that are evaluating a Stop: a step after which
\* every such session was one before, with the same work, only drops readings.
LEMMA ReadingsDrop ==
    ASSUME \A t \in Sessions :
              pc'[t] \in {"evaluate", "insert", "commit"} /\ job'[t].target = "stop" =>
                  /\ pc[t] \in {"evaluate", "insert", "commit"} /\ job[t].target = "stop"
                  /\ at'[t] = at[t] /\ snap'[t] = snap[t]
    PROVE  Readings' \subseteq Readings
BY DEF Readings

\* The COMMIT of a session is an evaluation of its entity with the evidence it
\* gathered, or invisible if the entity is a Route.
LEMMA CommitImplements ==
    ASSUME TypeOK, RowsUnique, BatchInvariant, RowsUnique', NEW s \in Sessions,
           pc[s] = "commit", conn[s] = "up" \/ NoStatement(s),
           stops' = stops \cup ins[s], evidence' = evidence, Readings' \subseteq Readings
    PROVE  Store!Next
<1>0. Batch(s)
  BY DEF BatchInvariant
<1>1. CASE job[s].target = "route"
  BY <1>0, <1>1 DEF Batch, Store!Next, Store!Abandon
<1>2. CASE job[s].target = "stop"
  <2>1. <<at[s], snap[s]>> \in Readings
    BY <1>2 DEF Readings
  <2>2. stops' \ stops = ins[s]
    BY DEF RowsUnique
  <2>3. conn[s] \in {"up", "lost"} /\ plan[s] = {}
    BY <1>0 DEF Batch, TypeOK, SessionTypeOK
  <2>4. {r.refs : r \in ins[s]} = Clusters(snap[s])
    BY <1>0, <1>2, <2>3 DEF Batch, NoStatement
  <2>5. \A r \in ins[s], q \in stops' : r # q =>
           r.id # q.id /\ r.public_id # q.public_id /\ (q \in ins[s] => r.refs # q.refs)
    BY <1>0 DEF RowsUnique, Batch
  <2>6. Store!Evaluate(at[s], snap[s])
    BY <2>1, <2>2, <2>4, <2>5 DEF Store!Evaluate
  <2> QED
    BY <2>1, <2>6 DEF Store!Next
<1> QED
  BY <1>1, <1>2 DEF TypeOK, SessionTypeOK, Job

LEMMA StepImplements ==
    TypeOK /\ RowsUnique /\ BatchInvariant /\ RowsUnique' /\ [Next]_vars
        => [Store!Next]_<<evidence, stops, Readings>>
<1> SUFFICES ASSUME TypeOK, RowsUnique, BatchInvariant, RowsUnique', [Next]_vars
             PROVE  [Store!Next]_<<evidence, stops, Readings>>
    OBVIOUS
<1> USE DEF store, work, history, bounds
<1>1. ASSUME NEW s \in Sessions, NEW e \in Events, Submit(s, e) \/ SubmitUnhandled(s, e)
      PROVE  Store!Next
  <2>1. Readings' = Readings
    BY <1>1 DEF Submit, SubmitUnhandled, Begin, Readings, TypeOK, SessionTypeOK
  <2> QED
    BY <1>1, <2>1 DEF Submit, SubmitUnhandled, Begin, Store!Next, Store!Ingest
<1>2. ASSUME NEW s \in Sessions, Gather(s) PROVE Store!Next
  <2>1. CASE job[s].target = "stop"
    <3>1. snap'[s] = Store!StopEvidence(at[s], evidence) /\ at[s] \in StopIds
      BY <1>2, <2>1 DEF Gather, EvidenceFor, TypeOK, WorkTypeOK, LoopTypeOK, IdsOf
    <3>2. Readings' = Readings \cup {<<at[s], snap'[s]>>}
      BY <1>2, <2>1 DEF Gather, Readings, TypeOK, SessionTypeOK, WorkTypeOK
    <3> QED
      BY <1>2, <3>1, <3>2 DEF Gather, Store!Next, Store!Read
  <2>2. CASE job[s].target # "stop"
    <3>1. Readings' \subseteq Readings
      BY <1>2, <2>2, ReadingsDrop DEF Gather, TypeOK, SessionTypeOK, WorkTypeOK
    <3> QED
      BY <1>2, <3>1 DEF Gather, Store!Next, Store!Abandon
  <2> QED
    BY <2>1, <2>2
<1>3. ASSUME NEW s \in Sessions, Commit(s) \/ LoseConnection(s) \/ Crash(s) PROVE Store!Next
  <2>1. Readings' \subseteq Readings
    BY <1>3, ReadingsDrop
       DEF Commit, LoseConnection, Crash, Forget, TypeOK, SessionTypeOK, WorkTypeOK
  <2>2. CASE UNCHANGED stops
    BY <1>3, <2>1, <2>2, CommitImplements
       DEF Commit, LoseConnection, Crash, ServerCommits, Store!Next, Store!Abandon
  <2>3. CASE stops' # stops
    BY <1>3, <2>1, <2>3, CommitImplements DEF Commit, LoseConnection, Crash, ServerCommits
  <2> QED
    BY <2>2, <2>3
<1>4. ASSUME NEW s \in Sessions,
             \/ \E target \in {"stop", "route"}, run \in {"single", "all"} : Recompute(s, target, run)
             \/ Resolve(s) \/ \E id \in Ids : AcquireLock(s, id) \/ SkipLocked(s, id)
             \/ EvaluateStop(s) \/ EvaluateRoute(s) \/ CountWrites(s) \/ Release(s)
             \/ FinishJob(s) \/ StartRoutePhase(s) \/ Return(s) \/ JobAborts(s)
             \/ EvaluatorRaises(s) \/ GatherFails(s) \/ TransactionFails(s)
             \/ \E c \in plan[s], id \in StopIds : InsertStop(s, c, id) \/ InsertRefused(s, c, id)
      PROVE  Store!Next
  <2> USE DEF Recompute, Begin, Resolve, AcquireLock, SkipLocked, EvaluateStop, EvaluateRoute,
              CountWrites, Release, FinishJob, StartRoutePhase, Return, Forget, JobAborts,
              EvaluatorRaises, GatherFails, TransactionFails, InsertStop, InsertRefused, Raise
  <2>1. UNCHANGED <<evidence, stops>>
    BY <1>4
  <2>2. Readings' \subseteq Readings
    BY <1>4, ReadingsDrop DEF TypeOK, SessionTypeOK, WorkTypeOK
  <2> QED
    BY <2>1, <2>2 DEF Store!Next, Store!Abandon
<1>5. CASE UNCHANGED vars
  BY <1>5 DEF vars, Readings
<1> QED
  BY <1>1, <1>2, <1>3, <1>4, <1>5 DEF Next, Start, SessionStep

\* Execution is atomic (executor.py:25): the executor, with all its interleavings
\* and failures, implements AtomicEvaluation.
THEOREM ExecutionIsAtomic == Spec => Atomicity
<1>1. Init => Store!Init
  BY DEF Init, Readings, Store!Init
<1>2. Spec => []BatchInvariant
  BY TypeCorrect, BatchInit, BatchStep, PTL DEF Spec
<1>3. Spec => [][Store!Next]_<<evidence, stops, Readings>>
  BY TypeCorrect, RowsStayUnique, <1>2, StepImplements, PTL DEF Spec
<1> QED
  BY <1>1, <1>3, PTL DEF Spec, Atomicity, Store!Spec
=============================================================================
