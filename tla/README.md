# Verification of gonaj-backend

gonaj-backend is the server of a crowd-sourced transit map. People submit
*contributions* about bus stops and routes; the contributions are never changed,
and an *evaluation* derives the canonical Stops and the truth of Routes from
them. It is a Django / Django REST Framework project on PostgreSQL + PostGIS in
`src/backend/`. This directory holds TLA+ models of its stateful parts, TLC runs
that check them on small instances, and TLAPS proofs.

Three facts about the deployment shape every model:

- no `ATOMIC_REQUESTS`: outside an explicit `transaction.atomic()` every ORM
  statement commits by itself, at READ COMMITTED;
- no `CACHES`: Django's cache is the memory of one worker process;
- `DEFAULT_AUTHENTICATION_CLASSES` is empty (`backend/settings.py:123-125`): a
  view that names no authenticator sees nobody.

## 1. Inventory

| Component | State | Operations | What makes it correct |
|---|---|---|---|
| Inline executor (`transit/evaluation/executor.py`, `locking.py`) | PostgreSQL advisory locks, open transactions, counters | run a job entity by entity: lock, gather, evaluate in a transaction, unlock | one evaluation per entity at a time; locks never leak; all of an evaluation's Stops appear or none; counters tell the truth; every run ends |
| Jobs and orchestration (`jobs.py`, `orchestration.py`, `recompute` command) | none of its own | contribution job, recompute stops / routes / all | Routes only after all Stops; a job sees the contribution that caused it, if it names its entity as the query does |
| Stop belief (`stop_aggregation.py`, `stop_creation.py`, `base.py`) | none (pure) | weights, clustering, gates, threshold | order of evidence is immaterial; no lone contributor; repeats dampened |
| Stop evaluator, write gateway, canonical models (`stop_evaluator.py`, `transit/models/`) | Stop rows | `evaluate_with_creation`, `write_stop` | no duplicate Stop; writes only through the gateway |
| Route belief (`route_aggregation.py`, `route_evaluator.py`) | none (writes nothing) | group, threshold, Stop dependencies | a canonical Route has canonical Stops; a verdict holds when it is used; belief grows with evidence |
| Negative evidence (`stop_negative_evidence.py`) | confidence of a Stop, across cycles | scope, weigh, adjust, contest | never blocks, never deletes, loss is gradual, old reports are forgotten |
| Refresh tokens and logins (`accounts/models.py`, `api/utils/tokens.py`, `api/views/auth.py`) | RefreshToken and User rows | login, magic link, rotate, revoke, logout | single use; chains stay within an account; dead tokens stay dead |
| Account creation (`api/views/auth.py`, `accounts/email/magic_link.py`) | User rows | open a link: find the account of the email or create it | one account per email; nobody gets another's session; nobody who has an account is refused |
| Account deletion (`accounts/services/account_deletion.py`, `api/views/me.py`) | tokens, contributions, account | one transaction: revoke, de-identify, clear, deactivate | covers all that existed before; nothing personal returns; never deadlocks |
| Contribution ingestion (`api/views/contributions.py`, `api/serializers/contributions.py`, `core/models/contribution_event.py`) | ContributionEvent rows | authenticate, validate, get-or-create | one event per client id; honest answers; contributors get through |
| Transport idempotency (`api/idempotency.py`) | cached responses, per worker | look up, compare, store, expire | a retry hears what was answered; one key, one payload |
| Abuse signals (`api/abuse_signals.py`) | cache counters, per worker | count, log | a counter never exceeds what was submitted on it; never in the way of a submission |
| Canonical reads (`api/views/canonical.py`, `api/serializers/canonical.py`) | none | lists by page, details | a walk through the pages leaves nothing out |
| Export (`api/views/export.py`, `api/serializers/export.py`) | none | list one's own contributions | complete, also next to a deletion that fails |
| Permissions, capabilities, authorization (`api/permissions.py`, `api/authz.py`, `api/capabilities.py`) | none | role lookup | a deleted account can only read |
| Throttling, visibility layer | none | rate limits of the framework; field filters | - |
| Moderation, badges, leaderboard, devices, OSM, profile, audit, other canonical tables | tables | none that a view or job calls | - |

**Interaction.** The contribution view inserts a row; `orchestration.py` offers
`enqueue_evaluation_for_contribution`, which runs the executor in an `on_commit`
callback. (In this commit only tests call it: the view does not. The model has
the callback, as the orchestration defines it.) The `recompute` command runs the
executor on current rows. The executor calls the Stop evaluator, which
aggregates, decides and writes Stops, and the Route evaluator, whose decisions it
drops. Authentication, sessions, ingestion and deletion share the User,
RefreshToken and ContributionEvent rows; ingestion and deletion share the
idempotency cache, and abuse counters are in the same cache. Views ask the
authorization module what the caller may do, on the copy of the user row that
authentication has read. Route belief reads what the Stop evaluator has written, and so do the
public lists.

**Hard behaviour.** Sessions interleave between any two statements; locks and
row locks are held across them; a statement can fail, a connection be lost, a
process die; clients retry; caches differ between workers; requests use copies of
rows they read earlier; weights and thresholds meet their boundaries. The
complete list, line by line, is `hazards` in `PROJECT.json`.

## 2. Modules

| Module | Models | Extends / instantiates |
|---|---|---|
| `AtomicEvaluation` | abstract: what evaluation promises to the rest of the backend | |
| `EvaluationExecutor` | executor, locks, jobs, orchestration, Stop writes | instance of `AtomicEvaluation` |
| `EvaluationExecutorProofs` | theorems about it: locks, rows, refinement | `EvaluationExecutor`, `TLAPS` |
| `EvaluationResultsProofs` | theorems about it: what jobs report and have read | `EvaluationExecutorProofs` |
| `StopCreation` | weights, clusters, gates, threshold (operators) | |
| `StopBelief` | the evidence of an entity, and what Stop belief keeps over all of it | `StopCreation` |
| `StopPressure` | arriving evidence, and negative evidence over many cycles | `StopBelief` |
| `StopPressureProofs` | theorems about it and about the operators of `StopCreation` | `StopPressure`, `TLAPS` |
| `RouteBelief` | Route aggregation and evaluation among concurrent changes | |
| `RouteBeliefProofs` | theorems about it | `RouteBelief`, `TLAPS` |
| `AccountSessions` | tokens, logins, magic links, submissions, exports, deletion | |
| `AccountSessionsProofs` | theorems about it | `AccountSessions`, `TLAPS` |
| `AccountCreation` | which account a magic link finds or creates | |
| `AccountCreationProofs` | theorems about it | `AccountCreation`, `TLAPS` |
| `Authorization` | capabilities and permission classes (operators) | |
| `IdempotentMutations` | retries, both idempotency layers, both mutating endpoints, abuse counters | `Authorization` |
| `IdempotentMutationsProofs` | theorems about it | `IdempotentMutations`, `TLAPS` |
| `CanonicalReads` | walks through the public lists while rows are inserted | `Authorization` |
| `CanonicalReadsProofs` | theorems about it | `CanonicalReads`, `TLAPS` |
| `MC*` | constants for TLC | the module of their name |

`PROJECT.json` maps every definition to the lines it stands for. Definitions
marked *MUTANT* are plausible bugs: substituted for the definition they name,
each makes one property fail.

### EvaluationExecutor

A session is a database session with the program counter `pc`: `idle`,
`resolve`, `loop` (`pg_try_advisory_lock`), `gather`, `evaluate`, `insert`,
`commit`, the unlock, and the return. Each is one database statement, so
sessions interleave between any two. `job`, `todo`, `at`, `snap`, `plan`, `ins`,
`tally` are the local variables of `_execute_stop_evaluation` and
`_execute_route_evaluation`; `conn` says whether the server still knows the
connection, because a lost one rolls back and frees its locks although the client
runs on into the `finally`. The counters go where the code puts them: before or
after the commit, and reset when the loop raises. UUIDs are numbers (the executor
sorts them). The 48-bit hash in a lock key is the constant `LockKey`, which may
map two UUIDs to one key. A created row has `public_id` 0, standing for the empty
string the code leaves there; the unique index makes a second INSERT wait for an
uncommitted one and fail on a committed one. `Clusters` is a constant operator:
for TLC it is `StopCreation!QualifyingClusters`, for the proofs any function to
disjoint subsets.

A `subject_ref` is JSON that nothing normalises. The job is made with `UUID()`,
which reads many spellings; the evidence is what equals `str()` of the UUID as
text. `EventSubject` is the UUID that an event means and `Spelling` how it writes
it: `canonical`, a `variant` (capitals, no dashes, braces, `urn:`), or `not_text`,
a number, list or object, on which `UUID()` raises an `AttributeError`, so that no
job is made. An event of the second kind has a job and is in nobody's evidence.

`Store == INSTANCE AtomicEvaluation WITH readings <- Readings` is the refinement
mapping: evidence and stops are themselves, and the readings of the abstract
store are what the sessions past `gather` have read.

### StopCreation, StopBelief, StopPressure

Times are hours, positions metres on a line, weights integers (thousandths,
multiplied and rounded down; scores are in hundred-thousandths). The
interpolation points, minimum weights, halving, radius, gates and thresholds are
the code's. The line replaces the sphere and the haversine formula. Clustering
is the code's greedy search for the first cluster whose running centroid is near.
Names, explanations and centroids of created rows are left out: nothing reads
them.

`StopBelief` holds the evidence and the invariants of every set of it.
`StopPressure` lets contributions arrive in any order, and drives the analyzer,
the adjuster and the raised threshold as the tests of the repository do
(`test_negative_evidence.py`, around line 340): the confidence one cycle computes
is the next one's input. No view or job uses these parts. `MarkedContested` is
`ContestedStateEvaluator`, whose verdict nothing stores.

### RouteBelief

One evaluator and its two statements, the evidence of a Route and then the
current rows of the Stops it refers to, among submissions and created Stops. The
identity that `_extract_route_identity` makes of a `subject_ref` and the
well-formed Stop UUIDs of a payload are constants of each event. Account deletions
are left out: they change no column that an evaluation of Routes reads but the
link to the contributor, next to which the fingerprint stays and is what counts.
The weights of Route evidence reach no decision and are left out.

### AccountSessions

Tables are sequences of rows (ids are positions). A request keeps the copy of
rows it has read (`row`, `saw`), and the statements that follow use the copy, as
a Django instance does. `save(update_fields=...)` writes those fields only. Only
the magic-link view and the deletion open a transaction: what they have updated
is locked (`rowLock`, `revoking`, `hiding`) until they commit; an INSERT that
refers to a user waits for a transaction that is changing the user's unique
username. The export is one query of rows that a deletion may have updated in a
transaction that is still open.

### AccountCreation

The lookup by email, the INSERT that may wait for a username, the second lookup
after an IntegrityError, the UPDATE that may wait for a row, and COMMIT are steps
of `MagicLinkVerifyView`; `get_or_create` does the first three. The row that an
open transaction has inserted is `OpenRow`; the unique index on `username` makes
others wait for it or fails them. Emails are not unique. Accounts that others
have made (createsuperuser, the admin) have any username. A deletion gives the
row a username and email that nobody else has. `AccountSessions` has the other
half of these requests: tokens, and the statements of the deletion.

### IdempotentMutations

A handler thread belongs to a worker process, and the cache is the worker's.
Lookup, comparison, validation, SELECT, INSERT and store are steps. A client waits
for its answer and sends again when none arrives; a proxy may duplicate a request
that is still under way. `JwtByDefault` is the one thing the settings decide:
`FALSE` is the repository as it is, `TRUE` a deployment that authenticates the
contribution view, which the tests emulate with `force_authenticate`. Who may do
what is asked of `Authorization`: at arrival by the permission class, and again by
`require_capability` with the user as it was read then.

One counter per fingerprint and worker stands for the two that
`record_contribution_signals` keeps of a fingerprint: `cache.incr`, or, if that
finds none, `cache.set` to 1, as two steps. The fingerprint is that of the row
that was created or found, and rows are found by `client_generated_id` alone
(`contributions.py:139-141`, `contribution_event.py:340`), so one account may
count on another's. The other two counters differ in their key only, which is the
submitter or the shape of the payload.

### CanonicalReads

A reader asks for page after page of a list until one is not full, or is
refused; each page is one query. Rows are known by the rank of their `public_id`.
Evaluation inserts a Stop with the empty one, and imports from outside of the
repository insert the others. History variables keep what a walk has seen.

## 3. Runs

Passing runs and what they show:

| Run | What it shows | Bounds |
|---|---|---|
| `ExecutorSafety` | mutual exclusion per entity, no lock outlives its evaluation, no duplicate Stop; refinement of `AtomicEvaluation` | 2 sessions, 4 contributions under one UUID, which are evidence for Stops at two places (the second INSERT fails after the first), 1 fault at any statement |
| `ExecutorRecompute` | a job reads its cause, however the others spell theirs; counters of successful jobs are complete; Routes come after all Stops | 2 recomputes of any scope, 2 Stops with one lock key, 1 Route, 5 contributions: evidence enough for a Stop, an unreadable one, one about the Route, one that spells its UUID in another way, one with a number for a `stop_id`; no fault |
| `ExecutorLiveness` | every run ends | 2 sessions, 2 contributions, each evidence enough for a Stop of its own, so that one INSERT waits for the other, a contribution that no evaluator handles, 1 recompute, 1 fault |
| `StopPressure` | clustering partitions the evidence, no lone contributor, weights are positive, repeats dampened; negative evidence never blocks creation; what confidence loses, when, and down to where | all subsets of 15 contributions without reports; of 4 contributions with up to 5 reports (the cap is reached at 4), days 0 and 8 (window: 7), a Stop still to be created or at confidence 0.40 |
| `Routes` | canonical verdicts are true, and still hold when they are used; belief grows with the evidence | 7 contributions, 2 Routes, 2 Stops, 3 people |
| `Sessions` | chains of rotation, permanence of revocation and deletion, complete exports, every request ends | 1 user, 2 concurrent requests, 4 arrivals, 1 failure at any statement |
| `Accounts` | one account per email, no session of another account, no refusal of who has one, every request ends | 3 accounts, one of them from elsewhere with either of 2 usernames, 2 emails with one local part, 3 concurrent requests; links, deletions and failures without bound |
| `Mutations` | one event per client id, no false answer, `201 Created` is said once, a deleted account hears only replays, no abuse counter exceeds what was recorded on its fingerprint | 2 workers, one key with two payloads, an edited body under the same client id from another account, an invalid body, a deletion, 1 duplicate, 1 failure |
| `Reads` | walks leave nothing out and repeat no more rows than were inserted | 1 reader, 2 tables of 3 to 7 rows, pages of 1 to 3 rows (default 2, maximum 3), parameters missing, malformed, at and beyond the limits |
| `MutationsLiveness` | contributors get through | 1 worker, 2 accounts, 1 duplicate, 1 failure |

Two sessions or requests suffice for the races: every property relates at most
two of them, and a third could only take the part of one of these. (`Accounts`
has three, for two may race to create an account while the third deletes one.)
Walks of different readers never meet, so one is enough. One fault
reaches every error path, for it may come at any statement of any run, and the
other session continues after it. (`ExecutorRecompute` has none, for two recomputes
with faults take TLC hours; that its three properties hold with lost
connections is proved, section 6.) Four arrivals let one account log in, rotate
and delete while a fourth request, of any kind, is in flight. A second account
takes part in no property of `AccountSessions`: tokens and contributions of two
accounts never meet in a statement. The pools contain each case that the
decisions distinguish: qualifying, too few, too far, too early, repeated,
negative, unreadable, without a subject.

`CHECK_DEADLOCK FALSE` is set everywhere because the bounds let all activity
stop: every contribution in, every budget used, nothing under way. That waiting
actors do not wait for each other is what `RunsEnd` and `RequestsEnd` check.

## 4. Where the code departs from its documentation

Two runs check a sentence of the documentation and find it violated; `findings`
in `PROJECT.json` quotes it.

| Run | What TLC finds |
|---|---|
| `ExecutorReplay` | a second evaluation of the same evidence fails on the unique `public_id` |
| `MutationsAnonymous` | with the settings as they are no submission is authenticated, so no contribution gets in |

The modules state more of these sentences, under the heading *What the
documentation says and the code does not do*. They are in no run, since each
would need one of its own: put in place of the properties of the named
configuration (`ReplayRevokesAll`, `NegativeNeverCreates` and
`NewEmailGetsAccount` as `PROPERTY`, the others as `INVARIANT`), TLC refutes them.

| Property | Configuration | What happens |
|---|---|---|
| `NoEvidenceSkipped` | `ExecutorSafety.cfg` | the job of a contribution meets a held lock, skips, and nobody evaluates the contribution |
| `NoEvidenceExcluded` | `ExecutorSafety.cfg`, `Events = {1, 8}` | a Stop contribution without `stop_id` is in no entity's evidence |
| `WritesAreReported` | `ExecutorSafety.cfg` | a job that aborts reports zero writes after committing some |
| `NoPartialStopsUnderRoutes` | `ExecutorRecompute.cfg`, `LockKey <- MCLockKey` | Routes are evaluated while another recompute is half-way through the Stops |
| `AnySpellingIsRead` | `ExecutorRecompute.cfg` | the job of a contribution that writes its UUID in capitals succeeds and has not read it |
| `NegativeNeverCreates` | `StopPressure.cfg` | the weight of a report of non-existence is what creates a Stop |
| `ContestedByRecentEvidence` | `StopPressure.cfg` | a Stop with one recent observation is contested for the weight of its old ones |
| `NewEmailGetsAccount` | `Accounts.cfg` | the username made of a new email is taken: the request fails, now and ever after |
| `ListedIsRetrievable` | `Reads.cfg` | a Stop that evaluation has created is listed, and its empty `public_id` matches no URL |
| `TokensAreSingleUse` | `Sessions.cfg` | two concurrent refreshes with one token both succeed |
| `ReplayRevokesAll` | `Sessions.cfg` | replaying a rotated token revokes nothing: the check before the handler refuses it |
| `NoTokenAfterDeletion`, `NoNameAfterDeletion`, `DeletedIsUnverified` | `Sessions.cfg` | requests in flight leave a live token, a named contribution, a verified email on a deleted account |
| `KeysIdentifyPayloads` | `Mutations.cfg` | two concurrent requests under one key: both payloads are accepted |
| `RetriesHearTheSame` | `Mutations.cfg` | a retry hears 200 where the first request was answered 201 |
| `RetriedDeletionIsTried` | `Mutations.cfg` | the stored 500 of a failed deletion answers its retry |
| `OnlyOwnCounted` | `Mutations.cfg` | a submission under the client id of another account's row is counted on that account's fingerprint |

More came up while the models were written and are stated by no formula:

- One report, never confirmed, takes any Stop to the confidence floor: every
  cycle counts it again (`stop_negative_evidence.py:487`). `LossIsGradual`
  bounds a cycle, not their sum; INV-E2 (`test_invariants_v0.md:192`) reads as
  if a single report could not override others.
- `compute_confidence_adjustment` raises `ValueError` for a confidence below the
  floor, the default 0.0 of a row included (`stop_negative_evidence.py:493-503`,
  `transit/models/base.py:119-122`). `Cycle` is disabled there.
- "Tokens are single-use" (`accounts/email/magic_link.py:18`): a link opens the
  account as often as it is used until it expires; `OpenLink` leaves it valid.
- An unsafe method on a public list is answered 403, by the permission class, where
  `api/permissions.py:111` says 405.
- The evidence of a Route and its Stops are read by two statements
  (`route_evaluator.py:430`), so a Route may be found canonical that satisfied
  both conditions of R-TRUTH-3 (`routes_rules_v_0.md:65`) at no single moment:
  `CanonicalVerdictsAreTrue` says what does hold.

## 5. Fairness

- `EvaluationExecutor`: weak fairness of the next statement of each session. The
  worker thread runs its code without waiting for anything but PostgreSQL, and
  `pg_try_advisory_lock` does not block. An INSERT that waits on the unique index is
  disabled until the other transaction ends. Nothing obliges contributions or
  recomputes to arrive, or faults to happen or not.
- `AccountSessions`: weak fairness of the next statement of each request, for
  the same reason; waiting for a row lock is a disabled statement.
- `AccountCreation`: strong fairness of the next statement of each request: PostgreSQL
  serves the transactions that wait for a row or a key in turn, so that one which
  others lock again and again gets it in the end.
- `IdempotentMutations`: weak fairness of each handler's step, and of the retry
  of each client that has no answer. The second is an assumption about clients,
  which the idempotency layers exist for.

`ExecutorLiveness`, `Sessions`, `Accounts`, `MutationsLiveness` and `MutationsAnonymous` use
`FairSpec`, the other runs `Spec`.

## 6. Proofs

`EvaluationExecutorProofs` proves, for every set of sessions, events, UUIDs, lock
keys, clustering function and bound that satisfies `ExecutorAssumption`:

| Theorem | Statement |
|---|---|
| `TypeCorrect` | `Spec => []TypeOK` |
| `LocksCorrect` | `Spec => []LockInvariant` |
| `EvaluationIsExclusive` | `Spec => []ExclusiveEvaluation` |
| `LocksDoNotLeak` | `Spec => []NoLeakedLock` |
| `RowsStayUnique` | `Spec => []RowsUnique` |
| `StopsAreNotDuplicated` | `Spec => []NoDuplicateStop` |
| `ExecutionIsAtomic` | `Spec => Atomicity` (refinement of `AtomicEvaluation`) |

*Assumptions.* UUIDs are numbers other than 0; each event spells its UUID in one
of the three ways; the namespaces keep Stop and Route
keys apart (keys of two Stops may collide); rows present from the start have
distinct, non-empty public ids; clusters are disjoint subsets of the evidence.

*Argument.* None of the safety invariants is inductive. `LockInvariant` adds what
relates a program counter to the lock: a session between lock and unlock over a
live connection owns the key of its entity, and a held lock has such an owner;
exclusion and the absence of leaks follow. `RowsUnique` says that committed and
uncommitted rows together share no id and no public id; that no event supports
two Stops rests on it and on the code's own omission: all created rows carry the
empty public id, so the index admits one. (The mutant `OwnPublicId` shows that
with distinct public ids a replay would duplicate Stops.) `BatchInvariant` says
that what a transaction has inserted and has still to insert are together the
qualifying clusters of what it read; a commit is then one step of the abstract
store, and every other step a stutter, an arrival, or a change of the readings.

`AccountCreationProofs` proves, for every set of accounts, emails, usernames,
local parts and concurrent requests that satisfies `CreationAssumption`:

| Theorem | Statement |
|---|---|
| `CreationTypeCorrect` | `Spec => []TypeOK` |
| `CreationCorrect` | `Spec => []CreationInvariant` |
| `AccountsAreUnique` | `Spec => []OneAccountPerEmail` |
| `LinksOpenTheirAccount` | `Spec => []SessionsAreOwn` |
| `LosersSignIn` | `Spec => RefusedOnlyWithoutAccount` |

*Assumptions.* Every email has one local part (different ones may share it), and
the email and username that a deletion leaves are nobody's.

*Argument.* Nothing in the schema keeps an email unique, so `OneAccountPerEmail`
is not inductive: what follows a lookup has to carry its result to the commit.
`RivalHoldsName` says that whoever got an account with the email after the lookup
found none has the username made of it, so the unique index refuses the INSERT;
`InsertedAlone` says that an INSERT that was not refused, and is not yet
committed, has neither a committed nor an uncommitted rival. The commit then adds
the only row with that email. `FoundIsOwn` and `WorksOnRow` carry the result of
a successful lookup in the same way, across deletions.

`EvaluationResultsProofs` proves, on top of these and from the same assumptions
(the Stops from the start and the Routes are finitely many, so that rows can be
counted):

| Theorem | Statement |
|---|---|
| `LoopsAreCounted` | `Spec => []LoopInvariant` |
| `RoutesWaitForStops` | `Spec => []RoutesAfterAllStops` |
| `ResultsAreComplete` | `Spec => []SuccessIsComplete` |
| `JobsReadTheirCause` | `Spec => []JobReadsItsCause` |

*Argument.* A result is a pair of counters, and the property relates them to sets
of UUIDs; between the two lie all the ways to leave the loop early.
`LoopInvariant` says, for each point of the loop, that what is evaluated and what
is still to do are disjoint, that the evaluated are as many as their counter says,
and that together with the skipped they add up to what was resolved; in a Route
phase it carries the result of the Stop phase along.
`WrittenInvariant` does the same for rows, between INSERT and COMMIT, and
`CauseInvariant` follows the contribution from its commit, over the resolved UUID
and, if it is spelled as the query asks, the snapshot read under the lock, to the
recorded evaluation.

`StopPressureProofs` proves, for any pool of contributions with a primary key
and whole coordinates (`PoolAssumption`), in any order of arrival:

| Theorem | Statement |
|---|---|
| `EvidenceIsPartitioned` | `Spec => []ClustersPartitionEvidence` |
| `NobodyCreatesAlone` | `Spec => []NoLoneContributor` |
| `ContributorsAreDampened` | `Spec => []RepeatsAreDampened` |
| `ReportsNeverBlock` | `Spec => []CreationIsNeverBlocked` |
| `ReportsWearDown` | `Spec => LossIsGradual` |

*Argument.* The dynamic part is simple; the proofs are about what the code
computes from a finite set of events. Clusters and scores are folds, and the
library's induction theorems, which take a predicate, cannot be used with the
installed provers. The first section therefore derives, from the
well-foundedness of `<`, induction over the subsets of a finite set
(`SubsetInduction`, where the predicate is a set) and the existence of a fold
(`FoldExists`); `RunningIs` and `ScoreFolds` show that the two folds of the model
are such functions. Then:

- `SortedLists`: sorting by (time, id) lists every event once;
- `AssignKeepsPartition`: one more event, joined to the first near cluster or
  opening one, leaves a partition a partition, and so does the whole fold
  (`RunningPartitions`);
- `WeightIsBounded`: the three factors of a weight stay in their bands, so that
  it is positive and at most the dampening allows;
- `OneRepetitionEach`: a contributor has at most one n-th contribution, so a
  cluster holds at most as many n-th contributions as contributors; the
  allowance of a cluster grows with each event by at least its weight
  (`AllowanceGrows`), and a quantity that does bounds the score
  (`ScoreIsOutweighed`);
- `ThresholdIsCapped`, `ReductionIsCapped`: the caps hold for any score.

`RouteBeliefProofs` proves, for all contributions, Routes, Stops and people:

| Theorem | Statement |
|---|---|
| `RouteTypeCorrect` | `Spec => []TypeOK` |
| `VerdictsAreTrue` | `Spec => []CanonicalVerdictsAreTrue` |
| `VerdictsOutliveReads` | `Spec => []StaleVerdictsHold` |
| `EvidenceIsMonotone` | `Spec => MoreEvidenceKeepsTruth` |

*Argument.* A Stop that was found current stays so, for Stops are only added; the
verdict adds that all Stops of the evidence were found. Counting contributors, days
and events is monotone in the evidence (`ThresholdStep`), and what was read is part
of the present evidence: so a verdict that met the threshold on its snapshot meets
it now (`VerdictsMeetThreshold`), and the references it did not read are the ones
that the property excepts.

`AccountSessionsProofs` proves, for any accounts, any number of concurrent
requests and any bounds (`AccountAssumption`):

| Theorem | Statement |
|---|---|
| `SessionTypeCorrect` | `Spec => []TypeOK` |
| `DeathIsPermanent` | `Spec => DeadTokensStayDead` |
| `DeletionIsPermanent` | `Spec => DeletionIsFinal` |
| `SuccessorsAreOwn` | `Spec => []SuccessorIsOwn` |
| `DeletionIsThorough` | `Spec => []DeletionCoversItsPast` |
| `ExportsAreComplete` | `Spec => ExportIsComplete` |

*Argument.* `TokensKept`, `ContributionsKept` and `AccountsKept` say what any step
may do to the three tables; permanence follows from them. `RotationInvariant`
says of a rotation between its INSERT and its UPDATE that the token it inserted is
its own token's. `DeletionInvariant` follows a deletion through its statements:
after the first, every token that existed at its arrival is dead or in its batch;
after the second, every contribution is in its batch; no batch holds another's
contribution; the author of a contribution is named until a deletion commits. The
last of these makes an export complete.

`IdempotentMutationsProofs` proves, for any submissions, worker processes,
threads, authentication setting and bounds (`MutationAssumption`):

| Theorem | Statement |
|---|---|
| `MutationTypeCorrect` | `Spec => []TypeOK` |
| `EvidenceIsUnique` | `Spec => []OneEventPerClientId` |
| `SuccessesAreTrue` | `Spec => []AnswersAreTrue` |
| `CreatorsAreUnique` | `Spec => []CreatedOnce` |
| `DeletedAreReadOnly` | `Spec => []DeletedHearOnlyReplays` |
| `AlarmsAreEarned` | `Spec => []CountedAtMostOnce` |

*Argument.* An answer is in three places: in the hands of a request, in a cache,
and given. `HandlerOutcome` lists what a step can make of a request: refuse, go
on, replay, find, create, delete. `ClaimInvariant` says of all three places that a
success names the row of the payload it was given for; rows are permanent, so it
stays true. `CreditInvariant` says that over all three places together an event is
credited with a 201 to one submission and key. `ActivityInvariant` says that a
request at work had an active account when it arrived, and that a success without
one is a replay. `CountedAtMostOnce` is inductive relative to `TypeOK`, for it counts
the requests between `incr` and `set`; `TypeOK` says that each of them has a row,
rows never change, and so neither does the fingerprint on which it counts.

`CanonicalReadsProofs` proves, for tables and pages of any size
(`ReadAssumption`; first pages are at most 1, since a walk that starts later
leaves out what it asks to leave out):

| Theorem | Statement |
|---|---|
| `ReadTypeCorrect` | `Spec => [](TypeOK /\ TablesFinite)` |
| `WalksAreComplete` | `Spec => []WalkIsComplete` |
| `RepeatsAreInsertions` | `Spec => []RepeatsNeedInserts` |

*Argument.* A page is the rows whose rank lies in an interval. A row never moves
to an earlier rank, so what the walk has passed by rank it has listed or it was
inserted later (`Passed`); the listed rows that insertions have moved ahead of the
walk, together with the repeats so far, are no more than the insertions
(`Counted`). The lemmas relate ranks to cardinalities: ranks of a finite
table fill an interval (`RanksFill`), and an insertion moves a rank by at most one
(`RankAfterInsert`).

*Only model-checked.* Liveness: `RunsEnd`, both `RequestsEnd` and
`ContributorsGetThrough`; it and `ENABLED` are outside the prover's reach. All
safety invariants and action properties of the passing runs are proved. Of the
two folds of `StopCreation`, that of the positions (`SumOfPos`, the centroid) is
used by the proofs only as some value: no theorem depends on which clusters are
near, and the runs are what shows how distances decide. The refinement of
`AtomicEvaluation` is proved for safety; it has no fairness.

## 7. Not modelled

- A DELETE that carries the body of a submission under its key: `MutationAssumption`
  says that deletions have no body. The cache key (`idempotency.py:51`) has no
  endpoint, so such a request would hear the submission's answer.
- Bulk UPDATEs row by row: `RevokeAll`, `DeleteRevoke` and `DeleteHide` take all row
  locks of a statement in one step, so a deadlock between two of them that lock the
  same rows in different orders is out of sight.
- Accounts from elsewhere that share an email: `Init` of `AccountCreation` gives
  existing accounts distinct ones, which the schema does not enforce.
- A confidence that starts below the floor: the Stops of `StopPressure` never do
  (section 4 says what the code does there).
- Access tokens: stateless, so revocation and deletion do not reach them; only
  who may hold one is modelled. Their expiry is left out.
- Which fields serializers and the visibility layer show. The filters are
  stateless, and no view calls the visibility layer.
- Throttles: two rates for the framework's limiter.
- The social callback (`api/views/auth.py:563`) answers 501; `MeView` reads one row.
- `AuditLog`: rows that no code reads. `last_login`: nothing depends on it.
- Moderation, badges, leaderboard, devices, developers, OSM, profiles, other
  canonical tables: no view or job calls their methods.
- Settings, URLs, admin, allauth adapter, migrations, demo script.

## 8. Plan

The order was: executor with its abstract store, then Stop belief, sessions and
deletion, idempotent mutations, Route belief, negative evidence, and the proofs
about the executor; then account creation with its proofs, capabilities, abuse
counters, the public lists and the export; then the proofs about the results of
jobs, Stop and Route belief, sessions, mutations and reads. What is left:

1. Models: moderation of contributions, as far as its methods go, once something
   calls them.
2. Proofs: the coherence of clusters under a fixed radius, should the code come to
   promise it; further facts that hold of every pool, such as the independence of
   the score from the order of arrival.
