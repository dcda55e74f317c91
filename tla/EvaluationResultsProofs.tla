----------------------- MODULE EvaluationResultsProofs -----------------------
(****************************************************************************)
(* Theorems about what an evaluation job reports and what it has done: the  *)
(* counters of its ExecutionResult, the order of the two phases of          *)
(* recompute_all, and the contribution behind the job.  They rest on the    *)
(* types, rows and batches of EvaluationExecutorProofs.                     *)
(****************************************************************************)
EXTENDS EvaluationExecutorProofs

(****************************************************************************)
(* Finite sets                                                              *)
(****************************************************************************)

LEMMA IdsOfFiniteSet ==
    ASSUME NEW S, IsFiniteSet(S)
    PROVE  IsFiniteSet({r.id : r \in S}) /\ Cardinality({r.id : r \in S}) <= Cardinality(S)
<1> DEFINE T == {r.id : r \in S}
           f == [r \in S |-> r.id]
<1>1. f \in Surjection(S, T)
  BY DEF Surjection
<1> QED
  BY <1>1, FS_Surjection

\* Rows with different ids and different evidence are as many as their ids, and as
\* many as their evidence sets.
LEMMA RowsCount ==
    ASSUME NEW S, IsFiniteSet(S),
           \A r, q \in S : r # q => r.id # q.id /\ r.refs # q.refs
    PROVE  /\ IsFiniteSet({r.id : r \in S})
           /\ Cardinality({r.id : r \in S}) = Cardinality({r.refs : r \in S})
<1> DEFINE T == {r.id : r \in S}
           U == {r.refs : r \in S}
           f == [r \in S |-> r.id]
           g == [r \in S |-> r.refs]
<1>1. f \in Surjection(S, T) /\ f \in Injection(S, T)
  BY DEF Surjection, Injection, IsInjective
<1>2. g \in Surjection(S, U) /\ g \in Injection(S, U)
  BY DEF Surjection, Injection, IsInjective
<1>3. IsFiniteSet(T) /\ Cardinality(T) = Cardinality(S)
  BY <1>1, FS_Surjection
<1>4. Cardinality(U) = Cardinality(S)
  BY <1>2, FS_Surjection
<1> QED
  BY <1>3, <1>4

LEMMA CountAdd ==
    ASSUME NEW S, NEW T, IsFiniteSet(S), IsFiniteSet(T), S \cap T = {}
    PROVE  /\ IsFiniteSet(S \cup T)
           /\ Cardinality(S \cup T) = Cardinality(S) + Cardinality(T)
           /\ Cardinality(S) \in Nat /\ Cardinality(T) \in Nat
<1>1. Cardinality(S \cap T) = 0
  BY FS_EmptySet
<1>2. Cardinality(S) \in Nat /\ Cardinality(T) \in Nat
  BY FS_CardinalityType
<1>3. /\ IsFiniteSet(S \cup T)
      /\ Cardinality(S \cup T) = Cardinality(S) + Cardinality(T) - Cardinality(S \cap T)
  BY FS_Union
<1> QED
  BY <1>1, <1>2, <1>3

\* Stops and Routes have different UUIDs, as their locks are in different namespaces.
LEMMA IdsApart == StopIds \cap RouteIds = {}
BY ExecutorAssumption

(****************************************************************************)
(* What a step leaves to the other sessions                                 *)
(****************************************************************************)

SameRun(t) ==
    /\ pc'[t] = pc[t] /\ job'[t] = job[t] /\ todo'[t] = todo[t] /\ at'[t] = at[t]
    /\ snap'[t] = snap[t] /\ ins'[t] = ins[t] /\ conn'[t] = conn[t] /\ tally'[t] = tally[t]
    /\ resolved'[t] = resolved[t] /\ done'[t] = done[t] /\ wrote'[t] = wrote[t]

StoreGrows ==
    evidence \subseteq evidence' /\ stops \subseteq stops' /\ evaluations \subseteq evaluations'

Acts(s) == Start(s) \/ SessionStep(s) \/ LoseConnection(s) \/ Crash(s)

LEMMA OthersKept ==
    ASSUME TypeOK, NEW s \in Sessions, Acts(s)
    PROVE  StoreGrows /\ \A t \in Sessions \ {s} : SameRun(t)
<1> USE DEF store, work, history, bounds
<1>1. ASSUME Start(s) PROVE StoreGrows /\ \A t \in Sessions \ {s} : SameRun(t)
  BY <1>1 DEF TypeOK, SessionTypeOK, WorkTypeOK, Start, Submit, SubmitUnhandled, Recompute, Begin,
              SameRun, StoreGrows
<1>2. ASSUME LoseConnection(s) \/ Crash(s)
      PROVE  StoreGrows /\ \A t \in Sessions \ {s} : SameRun(t)
  BY <1>2 DEF TypeOK, SessionTypeOK, WorkTypeOK, LoseConnection, ServerEndsSession, ServerCommits,
              Crash, Forget, SameRun, StoreGrows
<1>3. ASSUME SessionStep(s) PROVE StoreGrows /\ \A t \in Sessions \ {s} : SameRun(t)
  BY <1>3 DEF TypeOK, SessionTypeOK, WorkTypeOK, SessionStep, Resolve, AcquireLock, SkipLocked,
              Gather, Raise, EvaluatorRaises, EvaluateStop, EvaluateRoute, InsertStop,
              InsertRefused, CountWrites, Commit, ServerCommits, Release, FinishJob,
              StartRoutePhase, Return, Forget, JobAborts, GatherFails, TransactionFails,
              SameRun, StoreGrows
<1> QED
  BY <1>1, <1>2, <1>3 DEF Acts

(****************************************************************************)
(* The committed and uncommitted rows are finitely many                     *)
(****************************************************************************)

RowsFinite == IsFiniteSet(stops) /\ \A s \in Sessions : IsFiniteSet(ins[s])

LEMMA FiniteInit == Init => RowsFinite
BY ExecutorAssumption, FS_EmptySet DEF Init, RowsFinite

LEMMA FiniteStep == TypeOK /\ RowsFinite /\ [Next]_vars => RowsFinite'
<1> SUFFICES ASSUME TypeOK, RowsFinite, [Next]_vars PROVE RowsFinite'
    OBVIOUS
<1> USE DEF store, work, history, bounds
<1>1. CASE UNCHANGED vars
  BY <1>1 DEF vars, RowsFinite
<1>2. ASSUME NEW s \in Sessions, Acts(s)
      PROVE  /\ stops' \in {stops, stops \cup ins[s]}
             /\ ins'[s] \in {{}, ins[s]} \/ \E r : ins'[s] = ins[s] \cup {r}
  <2>1. ASSUME Start(s) PROVE UNCHANGED <<stops, ins>>
    BY <2>1 DEF Start, Submit, SubmitUnhandled, Recompute, Begin
  <2>2. ASSUME NEW c, NEW id, InsertStop(s, c, id)
        PROVE  UNCHANGED stops /\ \E r : ins'[s] = ins[s] \cup {r}
    BY <2>2 DEF InsertStop, TypeOK, WorkTypeOK
  <2>3. ASSUME \/ Resolve(s) \/ Gather(s) \/ \E id \in Ids : AcquireLock(s, id) \/ SkipLocked(s, id)
               \/ EvaluateStop(s) \/ EvaluateRoute(s) \/ CountWrites(s) \/ Release(s)
               \/ FinishJob(s) \/ StartRoutePhase(s) \/ Return(s) \/ JobAborts(s)
        PROVE  UNCHANGED <<stops, ins>>
    BY <2>3 DEF Resolve, Gather, AcquireLock, SkipLocked, EvaluateStop, EvaluateRoute, CountWrites,
                Release, FinishJob, StartRoutePhase, Return, JobAborts
  <2>4. ASSUME \/ EvaluatorRaises(s) \/ GatherFails(s) \/ TransactionFails(s)
               \/ \E c \in plan[s], id \in StopIds : InsertRefused(s, c, id)
        PROVE  UNCHANGED stops /\ ins'[s] = {}
    BY <2>4 DEF EvaluatorRaises, GatherFails, TransactionFails, InsertRefused, Raise, TypeOK,
                WorkTypeOK
  <2>5. ASSUME Commit(s) \/ LoseConnection(s) \/ Crash(s)
        PROVE  stops' \in {stops, stops \cup ins[s]} /\ ins'[s] = {}
    BY <2>5 DEF Commit, LoseConnection, Crash, ServerCommits, ServerEndsSession, TypeOK, WorkTypeOK
  <2> QED
    BY <1>2, <2>1, <2>2, <2>3, <2>4, <2>5 DEF Acts, SessionStep
<1>3. ASSUME NEW s \in Sessions, Acts(s) PROVE RowsFinite'
  <2>1. IsFiniteSet(stops \cup ins[s]) /\ IsFiniteSet({})
    BY FS_Union, FS_EmptySet DEF RowsFinite
  <2>2. \A r : IsFiniteSet(ins[s] \cup {r})
    BY FS_AddElement DEF RowsFinite
  <2>3. \A t \in Sessions \ {s} : ins'[t] = ins[t]
    BY <1>3, OthersKept DEF SameRun
  <2> QED
    BY <1>2, <1>3, <2>1, <2>2, <2>3 DEF RowsFinite
<1> QED
  BY <1>1, <1>3 DEF Next, Acts

(****************************************************************************)
(* The loop of a job and its counters                                       *)
(****************************************************************************)

Mine(s) == IdsOf(job[s].target)

\* The UUIDs that the loop has neither evaluated nor skipped nor failed at.
Pending(s) == IF pc[s] = "release" THEN todo[s] \ {at[s]} ELSE todo[s]

Progress(s) ==
    /\ IsFiniteSet(resolved[s]) /\ IsFiniteSet(job[s].ids)
    /\ done[s] \subseteq resolved[s] /\ todo[s] \subseteq resolved[s]
    /\ pc[s] \in LoopBody => at[s] \in todo[s]
    /\ Pending(s) \cap done[s] = {}
    /\ job[s].target = "stop" => resolved[s] \subseteq StopIds
    /\ pc[s] = "resolve" => resolved[s] \cap Mine(s) = {}

\* While nothing has failed, every UUID is evaluated, skipped or still to come.
Counted(s) ==
    pc[s] # "idle" /\ ~tally[s].failed =>
        /\ tally[s].evaluated = Cardinality(done[s] \cap Mine(s))
        /\ tally[s].evaluated + tally[s].skipped + Cardinality(Pending(s))
              = Cardinality(resolved[s] \cap Mine(s))

\* RoutesAfterAllStops, for one session.
RoutesWait(s) ==
    pc[s] # "idle" /\ job[s].run = "all" /\ job[s].target = "route" =>
        resolved[s] \cap StopIds = done[s] \cap StopIds

Loop(s) == Progress(s) /\ Counted(s) /\ RoutesWait(s)
LoopInvariant == \A s \in Sessions : Loop(s)

\* A job with the counters and the sets it needs.
LEMMA LoopTypes ==
    ASSUME TypeOK, NEW s \in Sessions
    PROVE  /\ tally[s] \in Tally /\ job[s] \in Job
           /\ tally[s].evaluated \in Nat /\ tally[s].skipped \in Nat /\ tally[s].writes \in Nat
           /\ todo[s] \subseteq Mine(s) /\ job[s].target \in {"stop", "route"}
           /\ pc[s] \in {"idle", "resolve", "end"} => todo[s] = {}
           /\ pc[s] \in LoopBody => at[s] \in Mine(s)
BY DEF TypeOK, SessionTypeOK, LoopTypeOK, Tally, Job, Mine, LoopBody

LEMMA ResolvedIdsFinite ==
    ASSUME RowsFinite, NEW j, IsFiniteSet(j.ids)
    PROVE  IsFiniteSet(ResolvedIds(j))
<1>1. IsFiniteSet({x \in stops : x.current}) /\ IsFiniteSet({x \in Routes : x.current})
  BY ExecutorAssumption, FS_Subset DEF RowsFinite
<1>2. /\ IsFiniteSet({r.id : r \in {x \in stops : x.current}})
      /\ IsFiniteSet({r.id : r \in {x \in Routes : x.current}})
  BY <1>1, IdsOfFiniteSet
<1> QED
  BY <1>2 DEF ResolvedIds

LEMMA LoopFrame ==
    ASSUME NEW t \in Sessions, Loop(t),
           pc'[t] = pc[t], job'[t] = job[t], todo'[t] = todo[t], at'[t] = at[t],
           tally'[t] = tally[t], resolved'[t] = resolved[t], done'[t] = done[t]
    PROVE  Loop(t)'
<1>1. Progress(t)'
  BY DEF Loop, Progress, Pending, Mine
<1>2. Counted(t)'
  BY DEF Loop, Counted, Pending, Mine
<1>3. RoutesWait(t)'
  BY DEF Loop, RoutesWait
<1> QED
  BY <1>1, <1>2, <1>3 DEF Loop

\* Nothing has been resolved yet, or any more.
LEMMA LoopEmpty ==
    ASSUME NEW t \in Sessions, NEW j, job'[t] = j, IsFiniteSet(j.ids),
           pc'[t] \in {"idle", "resolve"}, tally'[t] = NoTally,
           todo'[t] = {}, resolved'[t] = {}, done'[t] = {}
    PROVE  Loop(t)'
<1>1. IsFiniteSet({}) /\ Cardinality({}) = 0
  BY FS_EmptySet
<1>2. Progress(t)'
  BY <1>1 DEF Progress, Pending, Mine, LoopBody
<1>3. NoTally.evaluated = 0 /\ NoTally.skipped = 0
  BY DEF NoTally
<1>4. (resolved[t] \cap Mine(t))' = {} /\ (done[t] \cap Mine(t))' = {} /\ Pending(t)' = {}
  BY DEF Pending
<1>5. Counted(t)'
  BY <1>1, <1>3, <1>4 DEF Counted
<1>6. RoutesWait(t)'
  BY DEF RoutesWait
<1> QED
  BY <1>2, <1>5, <1>6 DEF Loop

\* A step inside the body of the loop.
LEMMA LoopMoves ==
    ASSUME NEW t \in Sessions, Loop(t), job'[t] = job[t], todo'[t] = todo[t], at'[t] = at[t],
           resolved'[t] = resolved[t], done'[t] = done[t],
           pc[t] \in LoopBody \ {"release"}, pc'[t] \in LoopBody \ {"release"},
           tally'[t].evaluated = tally[t].evaluated, tally'[t].skipped = tally[t].skipped,
           tally'[t].failed = tally[t].failed
    PROVE  Loop(t)'
<1>1. Pending(t)' = Pending(t) /\ pc[t] # "resolve" /\ pc'[t] # "resolve" /\ pc[t] # "idle"
  BY DEF Pending, LoopBody
<1>2. Progress(t)'
  BY <1>1 DEF Loop, Progress, Mine
<1>3. Counted(t)'
  BY <1>1 DEF Loop, Counted, Mine
<1>4. RoutesWait(t)'
  BY <1>1 DEF Loop, RoutesWait
<1> QED
  BY <1>2, <1>3, <1>4 DEF Loop

\* A step that reports a failure, at the entity or of the whole job.
LEMMA LoopFails ==
    ASSUME NEW t \in Sessions, Loop(t), job'[t] = job[t], tally'[t].failed = TRUE,
           resolved'[t] = resolved[t], done'[t] = done[t],
           \/ /\ pc[t] \in LoopBody \ {"release"} /\ pc'[t] = "release"
              /\ todo'[t] = todo[t] /\ at'[t] = at[t]
           \/ pc[t] # "idle" /\ pc'[t] = "end" /\ todo'[t] = {}
    PROVE  Loop(t)'
<1>1. pc[t] # "idle" /\ Pending(t)' \subseteq Pending(t)
  BY DEF Pending, LoopBody
<1>2. Progress(t)'
  BY <1>1 DEF Loop, Progress, Mine, LoopBody
<1>3. Counted(t)'
  BY DEF Counted
<1>4. RoutesWait(t)'
  BY <1>1 DEF Loop, RoutesWait
<1> QED
  BY <1>2, <1>3, <1>4 DEF Loop

LEMMA LoopResolves ==
    ASSUME TypeOK, RowsFinite, NEW t \in Sessions, Loop(t), Resolve(t)
    PROVE  Loop(t)'
<1> DEFINE R == ResolvedIds(job[t])
<1>1. /\ pc[t] = "resolve" /\ pc'[t] = "lock" /\ todo'[t] = R
      /\ resolved'[t] = resolved[t] \cup R
      /\ job'[t] = job[t] /\ done'[t] = done[t] /\ tally'[t] = tally[t]
  BY DEF Resolve, work, TypeOK, SessionTypeOK, WorkTypeOK
<1>2. IsFiniteSet(R) /\ R \subseteq Mine(t)
  BY ResolvedIdsFinite, ResolvedIdsType DEF Loop, Progress, Mine, TypeOK, SessionTypeOK, LoopTypeOK
<1>3. resolved[t] \cap Mine(t) = {} /\ done[t] \cap Mine(t) = {} /\ todo[t] = {}
  BY <1>1, LoopTypes DEF Loop, Progress
<1> HIDE DEF R
<1>4. /\ IsFiniteSet(resolved'[t]) /\ resolved'[t] \cap Mine(t) = R
      /\ done'[t] \cap Mine(t) = {} /\ Pending(t)' = R /\ Pending(t) = {}
  <2>1. IsFiniteSet(resolved[t] \cup R)
    BY <1>2, FS_Union DEF Loop, Progress
  <2>2. Pending(t)' = R /\ Pending(t) = {}
    BY <1>1, <1>3 DEF Pending
  <2> QED
    BY <1>1, <1>2, <1>3, <2>1, <2>2
<1>5. Progress(t)'
  BY <1>1, <1>2, <1>3, <1>4 DEF Loop, Progress, Mine, IdsOf, LoopBody
<1>6. Counted(t)'
  <2>1. ~tally[t].failed => tally[t].evaluated = 0 /\ tally[t].skipped = 0
    <3>1. ~tally[t].failed => /\ tally[t].evaluated = Cardinality({})
                              /\ tally[t].evaluated + tally[t].skipped + Cardinality({})
                                    = Cardinality({})
      BY <1>1, <1>3, <1>4 DEF Loop, Counted
    <3> QED
      BY <3>1, FS_EmptySet, LoopTypes
  <2>2. Cardinality(R) \in Nat /\ Cardinality({}) = 0
    BY <1>2, FS_CardinalityType, FS_EmptySet
  <2> QED
    BY <1>1, <1>4, <2>1, <2>2 DEF Counted, Mine
<1>7. RoutesWait(t)'
  BY <1>1, <1>2, IdsApart DEF Loop, RoutesWait, Mine, IdsOf
<1> QED
  BY <1>5, <1>6, <1>7 DEF Loop

LEMMA LoopSkips ==
    ASSUME TypeOK, NEW t \in Sessions, Loop(t), NEW id, SkipLocked(t, id)
    PROVE  Loop(t)'
<1>1. /\ pc[t] = "lock" /\ pc'[t] = "lock" /\ id \in todo[t] /\ todo'[t] = todo[t] \ {id}
      /\ resolved'[t] = resolved[t] /\ job'[t] = job[t] /\ done'[t] = done[t]
      /\ tally'[t] = Skipped(tally[t], job[t].trigger # "contribution")
  BY DEF SkipLocked, NextInLoop, history, TypeOK, SessionTypeOK, WorkTypeOK
<1>2. /\ tally'[t].failed \/ tally'[t].failed = tally[t].failed
      /\ tally'[t].evaluated = tally[t].evaluated /\ tally'[t].skipped = tally[t].skipped + 1
  BY <1>1, LoopTypes DEF Skipped, Tally
<1>3. IsFiniteSet(todo[t])
  BY FS_Subset DEF Loop, Progress
<1>4. Cardinality(todo'[t]) = Cardinality(todo[t]) - 1 /\ Cardinality(todo[t]) \in Nat
  BY <1>1, <1>3, FS_RemoveElement, FS_CardinalityType
<1>5. Pending(t) = todo[t] /\ Pending(t)' = todo'[t]
  BY <1>1 DEF Pending
<1>6. Progress(t)'
  BY <1>1, <1>5 DEF Loop, Progress, Mine, LoopBody
<1>7. Counted(t)'
  BY <1>1, <1>2, <1>4, <1>5, LoopTypes DEF Loop, Counted, Mine
<1>8. RoutesWait(t)'
  BY <1>1 DEF Loop, RoutesWait
<1> QED
  BY <1>6, <1>7, <1>8 DEF Loop

LEMMA LoopCommits ==
    ASSUME TypeOK, NEW t \in Sessions, Loop(t), Commit(t)
    PROVE  Loop(t)'
<1>1. /\ pc[t] = "commit" /\ pc'[t] = "release" /\ todo'[t] = todo[t] /\ at'[t] = at[t]
      /\ resolved'[t] = resolved[t] /\ job'[t] = job[t] /\ done'[t] = done[t] \cup {at[t]}
      /\ tally'[t] = [tally[t] EXCEPT !.evaluated = @ + 1]
  BY DEF Commit, TypeOK, SessionTypeOK, WorkTypeOK
<1>2. /\ tally'[t].failed = tally[t].failed /\ tally'[t].skipped = tally[t].skipped
      /\ tally'[t].evaluated = tally[t].evaluated + 1
  BY <1>1, LoopTypes DEF Tally
<1>3. Pending(t) = todo[t] /\ Pending(t)' = todo[t] \ {at[t]}
  BY <1>1 DEF Pending
<1>4. at[t] \in todo[t] /\ at[t] \in Mine(t) /\ at[t] \notin done[t]
  BY <1>1, <1>3, LoopTypes DEF Loop, Progress, LoopBody
<1>5. IsFiniteSet(todo[t]) /\ IsFiniteSet(done[t] \cap Mine(t))
  BY FS_Subset DEF Loop, Progress
<1>6. /\ Cardinality(todo[t] \ {at[t]}) = Cardinality(todo[t]) - 1
      /\ Cardinality(todo[t]) \in Nat
  BY <1>4, <1>5, FS_RemoveElement, FS_CardinalityType
<1>7. Cardinality(done'[t] \cap Mine(t)) = Cardinality(done[t] \cap Mine(t)) + 1
  <2>1. done'[t] \cap Mine(t) = (done[t] \cap Mine(t)) \cup {at[t]} /\ at[t] \notin done[t] \cap Mine(t)
    BY <1>1, <1>4
  <2>2. Cardinality((done[t] \cap Mine(t)) \cup {at[t]}) = Cardinality(done[t] \cap Mine(t)) + 1
    BY <1>5, <2>1, FS_AddElement
  <2> QED
    BY <2>1, <2>2
<1>8. Progress(t)'
  BY <1>1, <1>3, <1>4 DEF Loop, Progress, Mine, LoopBody
<1>9. Counted(t)'
  <2>1. ~tally[t].failed =>
           /\ tally[t].evaluated = Cardinality(done[t] \cap Mine(t))
           /\ tally[t].evaluated + tally[t].skipped + Cardinality(todo[t])
                 = Cardinality(resolved[t] \cap Mine(t))
    BY <1>1, <1>3 DEF Loop, Counted
  <2>2. ~tally[t].failed =>
           /\ tally[t].evaluated + 1 = Cardinality(done'[t] \cap Mine(t))
           /\ (tally[t].evaluated + 1) + tally[t].skipped + (Cardinality(todo[t]) - 1)
                 = Cardinality(resolved[t] \cap Mine(t))
    BY <1>6, <1>7, <2>1, LoopTypes
  <2>3. Mine(t)' = Mine(t)
    BY <1>1 DEF Mine
  <2> QED
    BY <1>1, <1>2, <1>3, <1>6, <2>2, <2>3 DEF Counted
<1>10. RoutesWait(t)'
  BY <1>1, <1>4, IdsApart DEF Loop, RoutesWait, Mine, IdsOf
<1> QED
  BY <1>8, <1>9, <1>10 DEF Loop

\* The steps of the loop itself.
LEMMA LoopGoesOn ==
    ASSUME TypeOK, NEW t \in Sessions, Loop(t),
           Release(t) \/ FinishJob(t) \/ \E id \in Ids : AcquireLock(t, id)
    PROVE  Loop(t)'
<1>1. /\ job'[t] = job[t] /\ tally'[t] = tally[t] /\ resolved'[t] = resolved[t]
      /\ done'[t] = done[t]
  BY DEF Release, FinishJob, AcquireLock, work, history, TypeOK, SessionTypeOK, WorkTypeOK
<1>2. /\ pc[t] # "idle" /\ pc'[t] # "resolve" /\ todo'[t] \subseteq todo[t]
      /\ Pending(t)' = Pending(t)
      /\ pc'[t] \in LoopBody => at'[t] \in todo'[t]
  <2>1. CASE Release(t)
    <3>1. pc[t] = "release" /\ pc'[t] = "lock" /\ todo'[t] = todo[t] \ {at[t]}
      BY <2>1 DEF Release, TypeOK, SessionTypeOK
    <3> QED
      BY <3>1 DEF Pending, LoopBody
  <2>2. CASE FinishJob(t)
    <3>1. pc[t] = "lock" /\ pc'[t] = "end" /\ todo'[t] = todo[t]
      BY <2>2 DEF FinishJob, TypeOK, SessionTypeOK
    <3> QED
      BY <3>1 DEF Pending, LoopBody
  <2>3. ASSUME NEW id \in Ids, AcquireLock(t, id)
        PROVE  /\ pc[t] = "lock" /\ pc'[t] = "gather" /\ todo'[t] = todo[t] /\ at'[t] = id
               /\ id \in todo[t]
    BY <2>3 DEF AcquireLock, NextInLoop, TypeOK, SessionTypeOK
  <2>4. CASE \E id \in Ids : AcquireLock(t, id)
    BY <2>3, <2>4 DEF Pending, LoopBody
  <2> QED
    BY <2>1, <2>2, <2>4
<1>3. Progress(t)'
  BY <1>1, <1>2 DEF Loop, Progress, Mine
<1>4. Counted(t)'
  BY <1>1, <1>2 DEF Loop, Counted, Mine
<1>5. RoutesWait(t)'
  BY <1>1, <1>2 DEF Loop, RoutesWait
<1> QED
  BY <1>3, <1>4, <1>5 DEF Loop

\* What a job without failure has evaluated, if it has skipped nothing: everything.
LEMMA AllEvaluated ==
    ASSUME TypeOK, NEW t \in Sessions, Loop(t), pc[t] = "end", ~tally[t].failed,
           tally[t].skipped = 0
    PROVE  resolved[t] \cap Mine(t) = done[t] \cap Mine(t)
<1>1. Cardinality(Pending(t)) = 0
  BY LoopTypes, FS_EmptySet DEF Pending
<1>2. Cardinality(done[t] \cap Mine(t)) = Cardinality(resolved[t] \cap Mine(t))
  BY <1>1, LoopTypes DEF Loop, Counted
<1>3. IsFiniteSet(resolved[t] \cap Mine(t)) /\ done[t] \cap Mine(t) \subseteq resolved[t] \cap Mine(t)
  BY FS_Intersection DEF Loop, Progress
<1> QED
  BY <1>2, <1>3, FS_Subset

LEMMA LoopChangesPhase ==
    ASSUME TypeOK, NEW t \in Sessions, Loop(t), StartRoutePhase(t)
    PROVE  Loop(t)'
<1>1. /\ pc[t] = "end" /\ pc'[t] = "resolve" /\ job[t].target = "stop"
      /\ ~tally[t].failed /\ tally[t].skipped = 0
      /\ job'[t] = AdminJob("route", "all") /\ tally'[t] = NoTally
      /\ todo'[t] = todo[t] /\ resolved'[t] = resolved[t] /\ done'[t] = done[t]
  BY DEF StartRoutePhase, StopPhaseComplete, history, TypeOK, SessionTypeOK, WorkTypeOK
<1>2. AdminJob("route", "all").target = "route" /\ AdminJob("route", "all").ids = {}
  BY DEF AdminJob, NoJob
<1>3. todo[t] = {} /\ Pending(t)' = {}
  BY <1>1, LoopTypes DEF Pending
<1>4. Mine(t) = StopIds /\ Mine(t)' = RouteIds
  BY <1>1, <1>2 DEF Mine, IdsOf
<1>5. /\ resolved[t] \subseteq StopIds /\ done[t] \subseteq resolved[t]
      /\ resolved[t] \cap RouteIds = {} /\ done[t] \cap RouteIds = {}
  BY <1>1, IdsApart DEF Loop, Progress
<1>6. Cardinality({}) = 0 /\ IsFiniteSet({})
  BY FS_EmptySet
<1>7. Progress(t)'
  BY <1>1, <1>2, <1>3, <1>4, <1>5, <1>6 DEF Loop, Progress, LoopBody
<1>8. Counted(t)'
  <2>1. NoTally.evaluated = 0 /\ NoTally.skipped = 0
    BY DEF NoTally
  <2>2. (resolved[t] \cap Mine(t))' = {} /\ (done[t] \cap Mine(t))' = {}
    BY <1>1, <1>4, <1>5
  <2>3. tally'[t].evaluated = 0 /\ tally'[t].skipped = 0
    BY <1>1, <2>1
  <2> QED
    BY <1>3, <1>6, <2>2, <2>3 DEF Counted
<1>9. RoutesWait(t)'
  BY <1>1, <1>4, AllEvaluated DEF RoutesWait
<1> QED
  BY <1>7, <1>8, <1>9 DEF Loop

LEMMA LoopInit == Init => LoopInvariant
<1> SUFFICES ASSUME Init, NEW s \in Sessions PROVE Loop(s)
    BY DEF LoopInvariant
<1>1. Progress(s)
  BY FS_EmptySet DEF Init, Progress, Pending, Mine, LoopBody, NoJob
<1> QED
  BY <1>1 DEF Init, Loop, Counted, RoutesWait

LEMMA LoopStep == TypeOK /\ RowsFinite /\ LoopInvariant /\ [Next]_vars => LoopInvariant'
<1> SUFFICES ASSUME TypeOK, RowsFinite, LoopInvariant, [Next]_vars, NEW t \in Sessions
             PROVE  Loop(t)'
    BY DEF LoopInvariant
<1> USE DEF store, work, history, bounds
<1>1. Loop(t)
  BY DEF LoopInvariant
<1>2. CASE UNCHANGED vars
  BY <1>1, <1>2, LoopFrame DEF vars
<1>3. ASSUME NEW s \in Sessions, s # t, Acts(s) PROVE Loop(t)'
  BY <1>1, <1>3, OthersKept, LoopFrame DEF SameRun
<1>4. ASSUME NEW e \in Events, Submit(t, e) PROVE Loop(t)'
  <2>1. IsFiniteSet(ContributionJob(e).ids)
    <3>1. ContributionJob(e).ids \subseteq {EventSubject[e]}
      BY DEF ContributionJob
    <3> QED
      BY <3>1, FS_Singleton, FS_Subset
  <2>2. /\ pc'[t] = "resolve" /\ job'[t] = ContributionJob(e) /\ tally'[t] = NoTally
        /\ todo'[t] = {} /\ resolved'[t] = {} /\ done'[t] = {}
    BY <1>4, LoopTypes DEF Submit, Begin, TypeOK, SessionTypeOK, WorkTypeOK
  <2> QED
    BY <2>1, <2>2, LoopEmpty
<1>5. ASSUME NEW target, NEW run, Recompute(t, target, run) PROVE Loop(t)'
  <2>1. IsFiniteSet(AdminJob(target, run).ids)
    BY FS_EmptySet DEF AdminJob, NoJob
  <2>2. /\ pc'[t] = "resolve" /\ job'[t] = AdminJob(target, run) /\ tally'[t] = NoTally
        /\ todo'[t] = {} /\ resolved'[t] = {} /\ done'[t] = {}
    BY <1>5, LoopTypes DEF Recompute, Begin, TypeOK, SessionTypeOK, WorkTypeOK
  <2> QED
    BY <2>1, <2>2, LoopEmpty
<1>6. ASSUME (\E e \in Events : SubmitUnhandled(t, e)) \/ LoseConnection(t) PROVE Loop(t)'
  BY <1>1, <1>6, LoopFrame DEF SubmitUnhandled, LoseConnection
<1>7. ASSUME Return(t) \/ Crash(t) PROVE Loop(t)'
  <2>1. /\ pc'[t] = "idle" /\ job'[t] = NoJob /\ tally'[t] = NoTally
        /\ todo'[t] = {} /\ resolved'[t] = {} /\ done'[t] = {}
    BY <1>7 DEF Return, Crash, Forget, TypeOK, SessionTypeOK, WorkTypeOK
  <2>2. IsFiniteSet(NoJob.ids)
    BY FS_EmptySet DEF NoJob
  <2> QED
    BY <2>1, <2>2, LoopEmpty
<1>8. ASSUME \/ Gather(t) \/ EvaluateStop(t) \/ EvaluateRoute(t)
             \/ \E c \in plan[t], id \in StopIds : InsertStop(t, c, id)
      PROVE  Loop(t)'
  BY <1>1, <1>8, LoopMoves DEF Gather, EvaluateStop, EvaluateRoute, InsertStop, LoopBody, TypeOK,
                               SessionTypeOK
<1>9. ASSUME CountWrites(t) PROVE Loop(t)'
  <2>1. /\ tally'[t] = [tally[t] EXCEPT !.writes = @ + Cardinality(Clusters(snap[t]))]
        /\ pc[t] = "insert" /\ pc'[t] = "commit" /\ UNCHANGED <<job, todo, at, resolved, done>>
    BY <1>9 DEF CountWrites, TypeOK, SessionTypeOK
  <2>2. /\ tally'[t].evaluated = tally[t].evaluated /\ tally'[t].skipped = tally[t].skipped
        /\ tally'[t].failed = tally[t].failed
    BY <2>1, LoopTypes DEF Tally
  <2> QED
    BY <1>1, <2>1, <2>2, LoopMoves DEF LoopBody
<1>10. ASSUME \/ EvaluatorRaises(t) \/ GatherFails(t) \/ TransactionFails(t)
              \/ \E c \in plan[t], id \in StopIds : InsertRefused(t, c, id)
       PROVE  Loop(t)'
  <2>1. /\ Raise(t) /\ pc[t] \in LoopBody \ {"release"}
    BY <1>10 DEF EvaluatorRaises, GatherFails, TransactionFails, InsertRefused, LoopBody
  <2>2. /\ pc'[t] = "release" /\ tally'[t] = [tally[t] EXCEPT !.failed = TRUE]
        /\ UNCHANGED <<job, todo, at, resolved, done>>
    BY <2>1 DEF Raise, TypeOK, SessionTypeOK
  <2>3. tally'[t].failed = TRUE
    BY <2>2, LoopTypes DEF Tally
  <2> QED
    BY <1>1, <2>1, <2>2, <2>3, LoopFails
<1>11. ASSUME JobAborts(t) PROVE Loop(t)'
  <2>1. /\ pc[t] # "idle" /\ pc'[t] = "end" /\ tally'[t] = AbortTally /\ todo'[t] = {}
        /\ UNCHANGED <<job, resolved, done>>
    BY <1>11 DEF JobAborts, TypeOK, SessionTypeOK
  <2>2. AbortTally.failed = TRUE
    BY DEF AbortTally, NoTally
  <2> QED
    BY <1>1, <2>1, <2>2, LoopFails
<1>12. ASSUME SessionStep(t) PROVE Loop(t)'
  BY <1>1, <1>7, <1>8, <1>9, <1>10, <1>11, <1>12, LoopResolves, LoopSkips, LoopCommits, LoopGoesOn,
     LoopChangesPhase DEF SessionStep
<1>13. ASSUME Acts(t) PROVE Loop(t)'
  BY <1>4, <1>5, <1>6, <1>7, <1>12, <1>13 DEF Acts, Start
<1> QED
  BY <1>2, <1>3, <1>13 DEF Next, Acts

\* Counters and sets agree, whatever was skipped.
THEOREM LoopsAreCounted == Spec => []LoopInvariant
<1>1. Spec => []RowsFinite
  BY TypeCorrect, FiniteInit, FiniteStep, PTL DEF Spec
<1> QED
  BY <1>1, TypeCorrect, LoopInit, LoopStep, PTL DEF Spec

\* The Route phase of recompute_all runs only when this run has evaluated and
\* committed every Stop it resolved (orchestration.py:198-213).
THEOREM RoutesWaitForStops == Spec => []RoutesAfterAllStops
<1>1. LoopInvariant => RoutesAfterAllStops
  BY DEF LoopInvariant, Loop, RoutesWait, RoutesAfterAllStops
<1> QED
  BY <1>1, LoopsAreCounted, PTL

(****************************************************************************)
(* canonical_writes                                                         *)
(****************************************************************************)

\* While nothing has failed, the rows of the committed transactions have been
\* counted, and those of the transaction that is about to commit too.
Written(s) ==
    /\ IsFiniteSet(wrote[s]) /\ wrote[s] \subseteq {r.id : r \in stops}
    /\ pc[s] # "idle" /\ job[s].target = "stop" /\ ~tally[s].failed =>
          /\ pc[s] # "commit" => tally[s].writes = Cardinality(wrote[s])
          /\ pc[s] = "commit" /\ (conn[s] = "up" \/ Clusters(snap[s]) = {}) =>
                tally[s].writes = Cardinality(wrote[s]) + Cardinality(Clusters(snap[s]))

WrittenInvariant == \A s \in Sessions : Written(s)

\* A step that neither commits nor counts.
LEMMA WrittenFrame ==
    ASSUME NEW t \in Sessions, Written(t), stops \subseteq stops', job'[t] = job[t],
           wrote'[t] = wrote[t],
           \/ pc'[t] = pc[t] /\ conn'[t] = conn[t] /\ snap'[t] = snap[t]
           \/ pc[t] \notin {"idle", "commit"} /\ pc'[t] # "commit",
           tally'[t].failed = TRUE \/
              (tally'[t].failed = tally[t].failed /\ tally'[t].writes = tally[t].writes)
    PROVE  Written(t)'
<1>1. {r.id : r \in stops} \subseteq {r.id : r \in stops'}
  OBVIOUS
<1>2. Clusters(snap'[t]) = Clusters(snap[t]) \/ pc'[t] # "commit"
  OBVIOUS
<1> QED
  BY <1>1, <1>2 DEF Written

\* A session that has failed, has nothing to do or evaluates Routes.
LEMMA WrittenTrivial ==
    ASSUME NEW t \in Sessions, Written(t), stops \subseteq stops',
           wrote'[t] \in {{}, wrote[t]},
           pc'[t] = "idle" \/ job'[t].target = "route" \/ tally'[t].failed = TRUE
    PROVE  Written(t)'
<1>1. {r.id : r \in stops} \subseteq {r.id : r \in stops'} /\ IsFiniteSet({})
  BY FS_EmptySet
<1> QED
  BY <1>1 DEF Written

\* The rows of an open transaction, and their number.
LEMMA BatchCount ==
    ASSUME TypeOK, RowsUnique, BatchInvariant, RowsFinite, NEW t \in Sessions, Written(t),
           pc[t] = "commit", job[t].target = "stop", conn[t] = "up" \/ Clusters(snap[t]) = {}
    PROVE  /\ IsFiniteSet(wrote[t] \cup {r.id : r \in ins[t]})
           /\ Cardinality(wrote[t] \cup {r.id : r \in ins[t]})
                 = Cardinality(wrote[t]) + Cardinality(Clusters(snap[t]))
           /\ Clusters(snap[t]) = {} => ins[t] = {}
<1>1. Batch(t) /\ IsFiniteSet(ins[t])
  BY DEF BatchInvariant, RowsFinite
<1>2. {r.refs : r \in ins[t]} = Clusters(snap[t])
  BY <1>1 DEF Batch, TypeOK, SessionTypeOK
<1>3. \A r, q \in ins[t] : r # q => r.id # q.id /\ r.refs # q.refs
  BY <1>1 DEF Batch, RowsUnique
<1>4. /\ IsFiniteSet({r.id : r \in ins[t]})
      /\ Cardinality({r.id : r \in ins[t]}) = Cardinality(Clusters(snap[t]))
  BY <1>1, <1>2, <1>3, RowsCount
<1>5. wrote[t] \cap {r.id : r \in ins[t]} = {}
  BY DEF Written, RowsUnique
<1>6. IsFiniteSet(wrote[t])
  BY DEF Written
<1>7. /\ IsFiniteSet(wrote[t] \cup {r.id : r \in ins[t]})
      /\ Cardinality(wrote[t] \cup {r.id : r \in ins[t]})
            = Cardinality(wrote[t]) + Cardinality({r.id : r \in ins[t]})
  BY <1>4, <1>5, <1>6, CountAdd
<1>8. Clusters(snap[t]) = {} => ins[t] = {}
  BY <1>2
<1> QED
  BY <1>4, <1>7, <1>8

LEMMA CommitWritten ==
    ASSUME TypeOK, RowsUnique, BatchInvariant, RowsFinite, NEW t \in Sessions, Written(t), Commit(t)
    PROVE  Written(t)'
<1>1. /\ pc[t] = "commit" /\ pc'[t] = "release" /\ job'[t] = job[t]
      /\ conn[t] = "up" \/ NoStatement(t)
      /\ stops' = stops \cup ins[t] /\ wrote'[t] = wrote[t] \cup {r.id : r \in ins[t]}
      /\ tally'[t] = [tally[t] EXCEPT !.evaluated = @ + 1]
  BY DEF Commit, ServerCommits, TypeOK, SessionTypeOK, WorkTypeOK
<1>2. tally'[t].failed = tally[t].failed /\ tally'[t].writes = tally[t].writes
  BY <1>1, LoopTypes DEF Tally
<1>3. wrote'[t] \subseteq {r.id : r \in stops'}
  BY <1>1 DEF Written
<1>4. CASE job[t].target = "stop"
  <2>1. /\ IsFiniteSet(wrote'[t])
        /\ Cardinality(wrote'[t]) = Cardinality(wrote[t]) + Cardinality(Clusters(snap[t]))
    BY <1>1, <1>4, BatchCount DEF NoStatement
  <2>2. ~tally[t].failed =>
           tally[t].writes = Cardinality(wrote[t]) + Cardinality(Clusters(snap[t]))
    BY <1>1, <1>4 DEF Written, NoStatement
  <2> QED
    BY <1>1, <1>2, <1>3, <2>1, <2>2 DEF Written
<1>5. CASE job[t].target # "stop"
  <2>1. IsFiniteSet(wrote'[t])
    <3>1. IsFiniteSet({r.id : r \in ins[t]}) /\ IsFiniteSet(wrote[t])
      BY IdsOfFiniteSet DEF RowsFinite, Written
    <3>2. IsFiniteSet(wrote[t] \cup {r.id : r \in ins[t]})
      BY <3>1, FS_Union
    <3> QED
      BY <1>1, <3>2
  <2> QED
    BY <1>1, <1>3, <1>5, <2>1 DEF Written
<1> QED
  BY <1>4, <1>5

LEMMA LossWritten ==
    ASSUME TypeOK, RowsUnique, BatchInvariant, RowsFinite, NEW t \in Sessions, Written(t),
           LoseConnection(t)
    PROVE  Written(t)'
<1>1. /\ pc'[t] = pc[t] /\ job'[t] = job[t] /\ snap'[t] = snap[t] /\ tally'[t] = tally[t]
      /\ conn[t] = "up" /\ conn'[t] = "lost"
  BY DEF LoseConnection, TypeOK, SessionTypeOK
<1>2. \/ stops' = stops /\ wrote' = wrote
      \/ /\ pc[t] = "commit" /\ stops' = stops \cup ins[t]
         /\ wrote'[t] = wrote[t] \cup {r.id : r \in ins[t]}
  BY DEF LoseConnection, ServerCommits, TypeOK, WorkTypeOK
<1>3. CASE stops' = stops /\ wrote' = wrote
  <2>1. Clusters(snap'[t]) = Clusters(snap[t])
    BY <1>1
  <2> QED
    BY <1>1, <1>3, <2>1 DEF Written
<1>4. CASE /\ pc[t] = "commit" /\ stops' = stops \cup ins[t]
           /\ wrote'[t] = wrote[t] \cup {r.id : r \in ins[t]}
  <2>1. IsFiniteSet(wrote'[t]) /\ wrote'[t] \subseteq {r.id : r \in stops'}
    <3>1. IsFiniteSet({r.id : r \in ins[t]}) /\ IsFiniteSet(wrote[t])
      BY IdsOfFiniteSet DEF RowsFinite, Written
    <3>2. IsFiniteSet(wrote[t] \cup {r.id : r \in ins[t]})
      BY <3>1, FS_Union
    <3> QED
      BY <1>4, <3>2 DEF Written
  <2>2. job[t].target = "stop" /\ Clusters(snap[t]) = {} => wrote'[t] = wrote[t]
    BY <1>4, BatchCount
  <2>3. Clusters(snap'[t]) = Clusters(snap[t])
    BY <1>1
  <2> QED
    BY <1>1, <1>4, <2>1, <2>2, <2>3 DEF Written
<1> QED
  BY <1>2, <1>3, <1>4

LEMMA WrittenInit == Init => WrittenInvariant
BY FS_EmptySet DEF Init, WrittenInvariant, Written

LEMMA WrittenStep ==
    TypeOK /\ RowsUnique /\ BatchInvariant /\ RowsFinite /\ WrittenInvariant /\ [Next]_vars
        => WrittenInvariant'
<1> SUFFICES ASSUME TypeOK, RowsUnique, BatchInvariant, RowsFinite, WrittenInvariant, [Next]_vars,
                    NEW t \in Sessions
             PROVE  Written(t)'
    BY DEF WrittenInvariant
<1> USE DEF store, work, history, bounds
<1>1. Written(t)
  BY DEF WrittenInvariant
<1>2. CASE UNCHANGED vars
  BY <1>1, <1>2, WrittenFrame DEF vars
<1>3. ASSUME NEW s \in Sessions, s # t, Acts(s) PROVE Written(t)'
  BY <1>1, <1>3, OthersKept, WrittenFrame DEF SameRun, StoreGrows
<1>4. ASSUME NEW j, Begin(t, j) PROVE Written(t)'
  <2>1. pc'[t] = "resolve" /\ tally'[t] = NoTally /\ wrote'[t] = {}
    BY <1>4 DEF Begin, TypeOK, SessionTypeOK, WorkTypeOK
  <2>2. NoTally.writes = 0 /\ IsFiniteSet({}) /\ Cardinality({}) = 0
    BY FS_EmptySet DEF NoTally
  <2> QED
    BY <2>1, <2>2 DEF Written
<1>5. ASSUME NEW e \in Events, SubmitUnhandled(t, e) PROVE Written(t)'
  BY <1>1, <1>5, WrittenFrame DEF SubmitUnhandled
<1>6. ASSUME \/ Resolve(t) \/ Gather(t) \/ EvaluateStop(t) \/ Release(t) \/ FinishJob(t)
             \/ \E id \in Ids : AcquireLock(t, id)
             \/ \E c \in plan[t], id \in StopIds : InsertStop(t, c, id)
      PROVE  Written(t)'
  <2>1. /\ UNCHANGED <<stops, job, wrote, tally>>
        /\ pc[t] \notin {"idle", "commit"} /\ pc'[t] # "commit"
    BY <1>6 DEF Resolve, Gather, EvaluateStop, Release, FinishJob, AcquireLock, InsertStop, TypeOK,
                SessionTypeOK
  <2> QED
    BY <1>1, <2>1, WrittenFrame
<1>7. ASSUME NEW id \in Ids, SkipLocked(t, id) PROVE Written(t)'
  <2>1. /\ UNCHANGED <<stops, job, wrote>> /\ pc[t] = "lock" /\ pc'[t] = "lock"
        /\ tally'[t] = Skipped(tally[t], job[t].trigger # "contribution")
    BY <1>7 DEF SkipLocked, TypeOK, SessionTypeOK
  <2>2. tally'[t].failed = TRUE \/
           (tally'[t].failed = tally[t].failed /\ tally'[t].writes = tally[t].writes)
    BY <2>1, LoopTypes DEF Skipped, Tally
  <2> QED
    BY <1>1, <2>1, <2>2, WrittenFrame
<1>8. ASSUME CountWrites(t) PROVE Written(t)'
  <2>1. /\ UNCHANGED <<stops, job, wrote, snap, conn>> /\ pc[t] = "insert" /\ pc'[t] = "commit"
        /\ tally'[t] = [tally[t] EXCEPT !.writes = @ + Cardinality(Clusters(snap[t]))]
    BY <1>8 DEF CountWrites, TypeOK, SessionTypeOK
  <2>2. /\ tally'[t].failed = tally[t].failed
        /\ tally'[t].writes = tally[t].writes + Cardinality(Clusters(snap[t]))
    BY <2>1, LoopTypes DEF Tally
  <2>3. Clusters(snap'[t]) = Clusters(snap[t])
    BY <2>1
  <2> QED
    BY <1>1, <2>1, <2>2, <2>3 DEF Written
<1>9. ASSUME EvaluateRoute(t) PROVE Written(t)'
  BY <1>1, <1>9, WrittenTrivial DEF EvaluateRoute
<1>10. ASSUME StartRoutePhase(t) PROVE Written(t)'
  <2>1. job'[t].target = "route" /\ UNCHANGED <<stops, wrote>>
    BY <1>10 DEF StartRoutePhase, AdminJob, NoJob, TypeOK, SessionTypeOK
  <2> QED
    BY <1>1, <2>1, WrittenTrivial
<1>11. ASSUME Return(t) \/ Crash(t) PROVE Written(t)'
  <2>1. pc'[t] = "idle" /\ wrote'[t] = {} /\ stops \subseteq stops'
    BY <1>11 DEF Return, Crash, Forget, TypeOK, SessionTypeOK, WorkTypeOK
  <2> QED
    BY <1>1, <2>1, WrittenTrivial
<1>12. ASSUME \/ EvaluatorRaises(t) \/ GatherFails(t) \/ TransactionFails(t)
              \/ \E c \in plan[t], id \in StopIds : InsertRefused(t, c, id)
       PROVE  Written(t)'
  <2>1. Raise(t)
    BY <1>12 DEF EvaluatorRaises, GatherFails, TransactionFails, InsertRefused
  <2>2. tally'[t] = [tally[t] EXCEPT !.failed = TRUE] /\ UNCHANGED <<stops, wrote>>
    BY <2>1 DEF Raise, TypeOK, SessionTypeOK
  <2>3. tally'[t].failed = TRUE
    BY <2>2, LoopTypes DEF Tally
  <2> QED
    BY <1>1, <2>2, <2>3, WrittenTrivial
<1>13. ASSUME JobAborts(t) PROVE Written(t)'
  <2>1. tally'[t].failed = TRUE /\ UNCHANGED <<stops, wrote>>
    BY <1>13 DEF JobAborts, AbortTally, NoTally, TypeOK, SessionTypeOK
  <2> QED
    BY <1>1, <2>1, WrittenTrivial
<1>14. ASSUME SessionStep(t) PROVE Written(t)'
  BY <1>1, <1>6, <1>7, <1>8, <1>9, <1>10, <1>11, <1>12, <1>13, <1>14, CommitWritten DEF SessionStep
<1>15. ASSUME Acts(t) PROVE Written(t)'
  BY <1>1, <1>4, <1>5, <1>11, <1>14, <1>15, LossWritten DEF Acts, Start, Submit, Recompute
<1> QED
  BY <1>2, <1>3, <1>15 DEF Next, Acts

\* A job that reports success has evaluated every UUID it resolved, apart from
\* those it counts as skipped, and canonical_writes is the number of rows it
\* committed (executor.py:66-88).
THEOREM ResultsAreComplete == Spec => []SuccessIsComplete
<1>1. Spec => []RowsFinite
  BY TypeCorrect, FiniteInit, FiniteStep, PTL DEF Spec
<1>2. Spec => []BatchInvariant
  BY TypeCorrect, BatchInit, BatchStep, PTL DEF Spec
<1>3. Spec => []WrittenInvariant
  BY <1>1, <1>2, TypeCorrect, RowsStayUnique, WrittenInit, WrittenStep, PTL DEF Spec
<1>4. TypeOK /\ LoopInvariant /\ WrittenInvariant => SuccessIsComplete
  <2> SUFFICES ASSUME TypeOK, LoopInvariant, WrittenInvariant, NEW s \in Sessions,
                      pc[s] = "end", ~tally[s].failed
               PROVE  /\ tally[s].evaluated = Cardinality(done[s] \cap Mine(s))
                      /\ tally[s].evaluated + tally[s].skipped = Cardinality(resolved[s] \cap Mine(s))
                      /\ job[s].target = "stop" => tally[s].writes = Cardinality(wrote[s])
    BY DEF SuccessIsComplete, Mine
  <2>1. Cardinality(Pending(s)) = 0
    BY LoopTypes, FS_EmptySet DEF Pending
  <2>2. Counted(s) /\ Written(s)
    BY DEF LoopInvariant, Loop, WrittenInvariant
  <2> QED
    BY <2>1, <2>2, LoopTypes DEF Counted, Written
<1> QED
  BY <1>3, <1>4, TypeCorrect, LoopsAreCounted, PTL

(****************************************************************************)
(* The contribution behind a job                                            *)
(****************************************************************************)

\* The job of a contribution that names its entity is at that entity, has evaluated
\* it once the loop has left it without skip or failure, and reads the contribution
\* with its evidence if that has the canonical spelling.
Cause(s) ==
    LET c == job[s].cause
        i == EventSubject[c]
        found == Spelling[c] = "canonical"
    IN  pc[s] # "idle" /\ c # NoEvent /\ ~job[s].full =>
            /\ job[s].ids = {i} /\ todo[s] \subseteq {i}
            /\ found => c \in EvidenceFor(job[s].target, i)
            /\ found /\ pc[s] \in {"evaluate", "insert", "commit"} => c \in snap[s]
            /\ pc[s] # "resolve" /\ ~tally[s].failed /\ tally[s].skipped = 0 =>
                  i \in Pending(s) \/ \E ev \in evaluations : ev[1] = i /\ (found => c \in ev[2])

CauseInvariant == \A s \in Sessions : Cause(s)

\* A step that keeps what the job has read and has to do.
LEMMA CauseFrame ==
    ASSUME NEW t \in Sessions, Cause(t), StoreGrows, job'[t] = job[t], todo'[t] \subseteq todo[t],
           pc[t] \notin {"idle", "resolve"} \/ pc'[t] = pc[t],
           pc'[t] \in {"evaluate", "insert", "commit"} =>
              pc[t] \in {"evaluate", "insert", "commit"} /\ snap'[t] = snap[t],
           \/ tally'[t].failed = TRUE
           \/ /\ tally'[t].failed = tally[t].failed /\ tally'[t].skipped = tally[t].skipped
              /\ Pending(t)' = Pending(t)
    PROVE  Cause(t)'
<1>1. EvidenceFor(job[t].target, EventSubject[job[t].cause])
         \subseteq EvidenceFor(job[t].target, EventSubject[job[t].cause])'
  BY EvidenceForGrows DEF StoreGrows
<1>2. evaluations \subseteq evaluations'
  BY DEF StoreGrows
<1> QED
  BY <1>1, <1>2 DEF Cause

LEMMA CauseSubmitted ==
    ASSUME TypeOK, NEW t \in Sessions, NEW e \in Events, Submit(t, e)
    PROVE  Cause(t)'
<1>1. /\ pc'[t] = "resolve" /\ job'[t] = ContributionJob(e) /\ todo'[t] = {} /\ e \in evidence'
      /\ EventType[e] \notin OtherTypes
  BY LoopTypes DEF Submit, Scheduled, Begin, TypeOK, SessionTypeOK
<1> DEFINE target == IF EventType[e] \in StopTypes THEN "stop" ELSE "route"
<1>2. /\ ContributionJob(e).cause = e /\ ContributionJob(e).target = target
      /\ ~ContributionJob(e).full => ContributionJob(e).ids = {EventSubject[e]}
  BY DEF ContributionJob
<1>3. Spelling[e] = "canonical" => e \in EvidenceFor(target, EventSubject[e])'
  BY <1>1, ExecutorAssumption DEF EvidenceFor, Store!StopEvidence, Store!Names, StopTypes, RouteTypes
<1>4. /\ job'[t].cause = e /\ job'[t].target = target
      /\ ~job'[t].full => job'[t].ids = {EventSubject[e]}
  BY <1>1, <1>2
<1> QED
  BY <1>1, <1>3, <1>4 DEF Cause

LEMMA CauseResolved ==
    ASSUME TypeOK, NEW t \in Sessions, Cause(t), Resolve(t)
    PROVE  Cause(t)'
<1>1. /\ pc[t] = "resolve" /\ pc'[t] = "lock" /\ UNCHANGED <<evidence, evaluations, job>>
      /\ todo'[t] = ResolvedIds(job[t])
  BY DEF Resolve, store, TypeOK, SessionTypeOK
<1>2. ~job[t].full => todo'[t] = job[t].ids
  BY <1>1 DEF ResolvedIds
<1>3. Pending(t)' = todo'[t]
  BY <1>1 DEF Pending
<1>4. EvidenceFor(job[t].target, EventSubject[job[t].cause])'
         = EvidenceFor(job[t].target, EventSubject[job[t].cause])
  BY <1>1 DEF EvidenceFor, Store!StopEvidence, Store!Names
<1> QED
  BY <1>1, <1>2, <1>3, <1>4 DEF Cause

\* Inside the loop body the job is at the entity of its contribution.
LEMMA CauseAt ==
    ASSUME NEW t \in Sessions, Cause(t), Loop(t), pc[t] \in LoopBody,
           job[t].cause # NoEvent, ~job[t].full
    PROVE  at[t] = EventSubject[job[t].cause]
BY DEF Cause, Loop, Progress, LoopBody

LEMMA CauseGathered ==
    ASSUME TypeOK, NEW t \in Sessions, Cause(t), Loop(t), Gather(t)
    PROVE  Cause(t)'
<1>1. /\ pc[t] = "gather" /\ pc'[t] = "evaluate" /\ UNCHANGED <<evidence, evaluations, job, todo, at,
                                                               tally>>
      /\ snap'[t] = EvidenceFor(job[t].target, at[t])
  BY DEF Gather, store, TypeOK, SessionTypeOK, WorkTypeOK
<1>2. Pending(t)' = Pending(t)
  BY <1>1 DEF Pending
<1>3. EvidenceFor(job[t].target, EventSubject[job[t].cause])'
         = EvidenceFor(job[t].target, EventSubject[job[t].cause])
  BY <1>1 DEF EvidenceFor, Store!StopEvidence, Store!Names
<1>4. job[t].cause # NoEvent /\ ~job[t].full => at[t] = EventSubject[job[t].cause]
  BY <1>1, CauseAt DEF LoopBody
<1> QED
  BY <1>1, <1>2, <1>3, <1>4 DEF Cause

LEMMA CauseCommitted ==
    ASSUME TypeOK, NEW t \in Sessions, Cause(t), Loop(t), Commit(t)
    PROVE  Cause(t)'
<1>1. /\ pc[t] = "commit" /\ pc'[t] = "release" /\ UNCHANGED <<evidence, job, todo, at>>
      /\ evaluations' = evaluations \cup {<<at[t], snap[t]>>}
  BY DEF Commit, ServerCommits, TypeOK, SessionTypeOK
<1>2. EvidenceFor(job[t].target, EventSubject[job[t].cause])'
         = EvidenceFor(job[t].target, EventSubject[job[t].cause])
  BY <1>1 DEF EvidenceFor, Store!StopEvidence, Store!Names
<1>3. ASSUME job[t].cause # NoEvent, ~job[t].full
      PROVE  \E ev \in evaluations' :
                /\ ev[1] = EventSubject[job[t].cause]
                /\ Spelling[job[t].cause] = "canonical" => job[t].cause \in ev[2]
  <2>1. /\ at[t] = EventSubject[job[t].cause]
        /\ Spelling[job[t].cause] = "canonical" => job[t].cause \in snap[t]
    BY <1>1, <1>3, CauseAt DEF Cause, LoopBody
  <2> DEFINE ev == <<at[t], snap[t]>>
  <2>2. ev \in evaluations'
    BY <1>1
  <2>3. ev[1] = at[t] /\ ev[2] = snap[t]
    OBVIOUS
  <2> HIDE DEF ev
  <2> QED
    BY <2>1, <2>2, <2>3
<1>4. pc'[t] \notin {"idle", "resolve", "evaluate", "insert", "commit"}
  BY <1>1
<1> QED
  BY <1>1, <1>2, <1>3, <1>4 DEF Cause

LEMMA CauseInit == Init => CauseInvariant
BY DEF Init, CauseInvariant, Cause

LEMMA CauseStep == TypeOK /\ LoopInvariant /\ CauseInvariant /\ [Next]_vars => CauseInvariant'
<1> SUFFICES ASSUME TypeOK, LoopInvariant, CauseInvariant, [Next]_vars, NEW t \in Sessions
             PROVE  Cause(t)'
    BY DEF CauseInvariant
<1> USE DEF store, work, history, bounds
<1>1. Cause(t) /\ Loop(t)
  BY DEF CauseInvariant, LoopInvariant
<1>2. CASE UNCHANGED vars
  BY <1>1, <1>2, CauseFrame DEF vars, StoreGrows, Pending
<1>3. ASSUME NEW s \in Sessions, s # t, Acts(s) PROVE Cause(t)'
  <2>1. StoreGrows /\ SameRun(t)
    BY <1>3, OthersKept
  <2> QED
    BY <1>1, <2>1, CauseFrame DEF SameRun, Pending
<1>4. ASSUME Acts(t) PROVE StoreGrows
  BY <1>4, OthersKept
<1>5. ASSUME NEW target, NEW run, Recompute(t, target, run) PROVE Cause(t)'
  <2>1. job'[t].cause = NoEvent
    BY <1>5 DEF Recompute, Begin, AdminJob, NoJob, TypeOK, SessionTypeOK
  <2> QED
    BY <2>1 DEF Cause
<1>6. ASSUME (\E e \in Events : SubmitUnhandled(t, e)) \/ LoseConnection(t) PROVE Cause(t)'
  <2>1. StoreGrows /\ UNCHANGED <<pc, job, todo, at, snap, tally>>
    BY <1>4, <1>6 DEF Acts, Start, SubmitUnhandled, LoseConnection
  <2> QED
    BY <1>1, <2>1, CauseFrame DEF Pending
<1>7. ASSUME Return(t) \/ Crash(t) PROVE Cause(t)'
  <2>1. pc'[t] = "idle"
    BY <1>7 DEF Return, Crash, Forget, TypeOK, SessionTypeOK
  <2> QED
    BY <2>1 DEF Cause
<1>8. ASSUME StartRoutePhase(t) PROVE Cause(t)'
  <2>1. job'[t].cause = NoEvent
    BY <1>8 DEF StartRoutePhase, AdminJob, NoJob, TypeOK, SessionTypeOK
  <2> QED
    BY <2>1 DEF Cause
<1>9. ASSUME \/ EvaluateStop(t) \/ EvaluateRoute(t)
             \/ \E c \in plan[t], id \in StopIds : InsertStop(t, c, id)
      PROVE  Cause(t)'
  <2>1. /\ StoreGrows /\ UNCHANGED <<job, todo, snap, tally>>
        /\ pc[t] \in {"evaluate", "insert"} /\ pc'[t] \in {"insert", "commit"}
    BY <1>4, <1>9 DEF Acts, SessionStep, EvaluateStop, EvaluateRoute, InsertStop, TypeOK,
                      SessionTypeOK
  <2>2. Pending(t)' = Pending(t)
    BY <2>1 DEF Pending
  <2> QED
    BY <1>1, <2>1, <2>2, CauseFrame
<1>10. ASSUME CountWrites(t) PROVE Cause(t)'
  <2>1. /\ StoreGrows /\ UNCHANGED <<job, todo, snap>> /\ pc[t] = "insert" /\ pc'[t] = "commit"
        /\ tally'[t] = [tally[t] EXCEPT !.writes = @ + Cardinality(Clusters(snap[t]))]
    BY <1>4, <1>10 DEF Acts, SessionStep, CountWrites, TypeOK, SessionTypeOK
  <2>2. tally'[t].failed = tally[t].failed /\ tally'[t].skipped = tally[t].skipped
    BY <2>1, LoopTypes DEF Tally
  <2>3. Pending(t)' = Pending(t)
    BY <2>1 DEF Pending
  <2> QED
    BY <1>1, <2>1, <2>2, <2>3, CauseFrame
<1>11. ASSUME Release(t) \/ FinishJob(t) \/ \E id \in Ids : AcquireLock(t, id) PROVE Cause(t)'
  <2>1. StoreGrows /\ UNCHANGED <<job, tally>>
    BY <1>4, <1>11 DEF Acts, SessionStep, Release, FinishJob, AcquireLock
  <2>2. CASE Release(t)
    <3>1. pc[t] = "release" /\ pc'[t] = "lock" /\ todo'[t] = todo[t] \ {at[t]}
      BY <2>2 DEF Release, TypeOK, SessionTypeOK
    <3>2. Pending(t)' = Pending(t)
      BY <3>1 DEF Pending
    <3> QED
      BY <1>1, <2>1, <3>1, <3>2, CauseFrame
  <2>3. ASSUME FinishJob(t) \/ \E id \in Ids : AcquireLock(t, id) PROVE Cause(t)'
    <3>1. pc[t] = "lock" /\ pc'[t] \in {"end", "gather"} /\ todo'[t] = todo[t]
      BY <2>3 DEF FinishJob, AcquireLock, TypeOK, SessionTypeOK
    <3>2. Pending(t)' = Pending(t)
      BY <3>1 DEF Pending
    <3> QED
      BY <1>1, <2>1, <3>1, <3>2, CauseFrame
  <2> QED
    BY <1>11, <2>2, <2>3
<1>12. ASSUME NEW id \in Ids, SkipLocked(t, id) PROVE Cause(t)'
  <2>1. /\ UNCHANGED <<evidence, evaluations, job, snap>> /\ pc[t] = "lock" /\ pc'[t] = "lock"
        /\ tally'[t] = Skipped(tally[t], job[t].trigger # "contribution")
        /\ todo'[t] \subseteq todo[t]
    BY <1>12 DEF SkipLocked, TypeOK, SessionTypeOK
  <2>2. tally'[t].skipped # 0
    BY <2>1, LoopTypes DEF Skipped, Tally
  <2>3. EvidenceFor(job[t].target, EventSubject[job[t].cause])'
           = EvidenceFor(job[t].target, EventSubject[job[t].cause])
    BY <2>1 DEF EvidenceFor, Store!StopEvidence, Store!Names
  <2> QED
    BY <1>1, <2>1, <2>2, <2>3 DEF Cause
<1>13. ASSUME \/ EvaluatorRaises(t) \/ GatherFails(t) \/ TransactionFails(t)
              \/ \E c \in plan[t], id \in StopIds : InsertRefused(t, c, id)
       PROVE  Cause(t)'
  <2>1. Raise(t) /\ pc[t] \notin {"idle", "resolve"}
    BY <1>13 DEF EvaluatorRaises, GatherFails, TransactionFails, InsertRefused
  <2>2. /\ pc'[t] = "release" /\ tally'[t] = [tally[t] EXCEPT !.failed = TRUE]
        /\ UNCHANGED <<job, todo, evidence, stops, evaluations>>
    BY <2>1 DEF Raise, TypeOK, SessionTypeOK
  <2>3. tally'[t].failed = TRUE
    BY <2>2, LoopTypes DEF Tally
  <2> QED
    BY <1>1, <2>1, <2>2, <2>3, CauseFrame DEF StoreGrows
<1>14. ASSUME JobAborts(t) PROVE Cause(t)'
  <2>1. /\ pc'[t] = "end" /\ pc[t] # "idle" /\ tally'[t].failed = TRUE /\ todo'[t] = {}
        /\ UNCHANGED <<evidence, job>>
    BY <1>14 DEF JobAborts, AbortTally, NoTally, TypeOK, SessionTypeOK
  <2>2. EvidenceFor(job[t].target, EventSubject[job[t].cause])'
           = EvidenceFor(job[t].target, EventSubject[job[t].cause])
    BY <2>1 DEF EvidenceFor, Store!StopEvidence, Store!Names
  <2> QED
    BY <1>1, <2>1, <2>2 DEF Cause
<1>15. ASSUME SessionStep(t) PROVE Cause(t)'
  BY <1>1, <1>7, <1>8, <1>9, <1>10, <1>11, <1>12, <1>13, <1>14, <1>15, CauseResolved, CauseGathered,
     CauseCommitted DEF SessionStep
<1>16. ASSUME Acts(t) PROVE Cause(t)'
  BY <1>5, <1>6, <1>7, <1>15, <1>16, CauseSubmitted DEF Acts, Start
<1> QED
  BY <1>2, <1>3, <1>16 DEF Next, Acts

\* A contribution's own job, when it took the lock and did not fail, evaluated the
\* entity that the contribution names in any spelling, and read the contribution if
\* it spells the UUID like str() (executor.py:231-234 and 368).
THEOREM JobsReadTheirCause == Spec => []JobReadsItsCause
<1>1. TypeOK /\ CauseInvariant => JobReadsItsCause
  <2> SUFFICES ASSUME TypeOK, CauseInvariant, NEW s \in Sessions, JobSucceeded(s)
               PROVE  \E ev \in evaluations :
                         /\ ev[1] = EventSubject[job[s].cause]
                         /\ Spelling[job[s].cause] = "canonical" => job[s].cause \in ev[2]
    BY DEF JobReadsItsCause
  <2>1. Pending(s) = {}
    BY LoopTypes DEF Pending, JobSucceeded
  <2> QED
    BY <2>1 DEF CauseInvariant, Cause, JobSucceeded
<1> QED
  BY <1>1, TypeCorrect, LoopsAreCounted, CauseInit, CauseStep, PTL DEF Spec
=============================================================================
