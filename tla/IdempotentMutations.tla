------------------------ MODULE IdempotentMutations ------------------------
(****************************************************************************)
(* Clients that retry, and the two endpoints that must bear it: POST        *)
(* /api/v1/contributions and DELETE /api/me.  Two layers protect them: the  *)
(* unique client_generated_id of a ContributionEvent, in the database, and  *)
(* the Idempotency-Key, in Django's cache, which every worker process keeps *)
(* for itself (settings.py has no CACHES).                                  *)
(*                                                                          *)
(* Every access to the cache and every database statement is a step.        *)
(****************************************************************************)
EXTENDS Naturals, Sequences, FiniteSets, Authorization

CONSTANTS
    Submissions,     \* what clients want: [user, key, op, body]
    NoKey,           \* a request without the Idempotency-Key header
    NoBody,          \* the empty body of DELETE
    ClientId,        \* body -> its client_generated_id
    Invalid,         \* bodies that the serializer refuses
    Handlers,        \* threads that serve requests
    WorkerOf,        \* thread -> its worker process
    JwtByDefault,    \* whether DEFAULT_AUTHENTICATION_CLASSES names JWTAuthentication
    MaxDuplicates,   \* bound: requests sent again while an earlier one is under way
    MaxFailures      \* bound: failed calls, restarts, lost answers and counters

VARIABLES
    events,      \* committed ContributionEvent rows, by id
    deleted,     \* users whose account deletion has committed
    cache,       \* worker -> <<user, key>> -> what store_idempotent_response left
    counter,     \* worker -> user -> the abuse counter of the user's fingerprint
    recorded,    \* history: submissions recorded on it since it was missing, by anybody
    client,      \* submission -> whether its client still waits for an answer
    req,         \* thread -> the request it serves
    answers,     \* history: every answer the server has given
    duplicates,  \* requests sent again so far
    failures     \* failures so far

signals == <<counter, recorded>>
vars == <<events, deleted, cache, signals, client, req, answers, duplicates, failures>>

Users == {x.user : x \in Submissions}
Keys == {x.key : x \in Submissions} \ {NoKey}
Bodies == {x.body : x \in Submissions} \ {NoBody}
Workers == {WorkerOf[h] : h \in Handlers}

ASSUME MutationAssumption ==
    /\ \A x \in Submissions : x.op \in {"submit", "delete"} /\ (x.op = "delete" <=> x.body = NoBody)
    /\ Invalid \subseteq Bodies /\ Bodies \subseteq DOMAIN ClientId
    /\ JwtByDefault \in BOOLEAN
    /\ Submissions # {} /\ IsFiniteSet(Handlers)
    /\ MaxDuplicates \in Nat /\ MaxFailures \in Nat

NoEvent == 0
Statuses == {200, 201, 400, 403, 409, 500}

\* A row: its client_generated_id, its evidence and who contributed it.
Event == [client : {ClientId[b] : b \in Bodies}, body : Bodies, user : Users]
EventIds == 1..Len(events)

\* A cached response: the hash of the payload stands for the payload.
Entry == [body : Bodies \cup {NoBody}, status : Statuses, event : Nat]
NoEntry == [body |-> NoBody, status |-> 403, event |-> NoEvent]

\* A request: the next step of its view, the user as authentication read it,
\* the event it will answer with, the status, whether that was replayed.
Request == [pc : {"idle", "lookup", "check", "select", "insert", "signal", "signal_init", "delete",
                  "store", "respond"},
            sub : Submissions, active : BOOLEAN, event : Nat, status : Statuses, replayed : BOOLEAN]

Idle == [pc |-> "idle", sub |-> CHOOSE x \in Submissions : TRUE, active |-> TRUE,
         event |-> NoEvent, status |-> 403, replayed |-> FALSE]

pc(h) == req[h].pc
Sub(h) == req[h].sub

\* MUTANT of Slot: the cache key leaves out the user.
SlotOfKey(h) == <<CHOOSE u \in Users : TRUE, Sub(h).key>>

\* get_idempotency_cache_key, and what the cache of the thread's process holds.
Slot(h) == <<Sub(h).user, Sub(h).key>>
Cached(h) == IF Sub(h).key = NoKey THEN NoEntry ELSE cache[WorkerOf[h]][Slot(h)]

Serving(x) == {h \in Handlers : pc(h) # "idle" /\ Sub(h) = x}

\* The rows with the client_generated_id of the request.
Matching(h) == {i \in EventIds : events[i].client = ClientId[Sub(h).body]}

Continue(h, next) == req' = [req EXCEPT ![h].pc = next]

\* The view has built its response; respond decides what is stored.
Answer(h, next, status, event, replayed) ==
    req' = [req EXCEPT ![h].pc = next, ![h].status = status, ![h].event = event,
                       ![h].replayed = replayed]

-----------------------------------------------------------------------------
(* Clients *)

\* What authentication finds: JWTAuthentication does not look at is_active, and
\* a view without authenticators sees nobody.
CallerOf(x, active) ==
    IF x.op = "delete" \/ JwtByDefault
    THEN [authenticated |-> TRUE, active |-> active, staff |-> FALSE]
    ELSE AnonymousUser

\* The permission classes of the two views.
Admitted(x) ==
    LET caller == CallerOf(x, x.user \notin deleted) IN
    IF x.op = "delete" THEN IsAuthenticated(caller) ELSE IsContributor(caller)

Arrive(h, x) ==
    /\ pc(h) = "idle" /\ client[x] = "waiting"
    /\ req' = [req EXCEPT ![h] = [Idle EXCEPT !.pc = IF Admitted(x) THEN "lookup" ELSE "respond",
                                              !.sub = x, !.active = x.user \notin deleted]]
    /\ UNCHANGED <<events, deleted, cache, signals, client, answers, failures>>

\* The first request, or another one when the last is known to have failed.
Send(h, x) == Serving(x) = {} /\ Arrive(h, x) /\ UNCHANGED duplicates

\* The client, or a proxy, sends the request again before it is answered.
SendAgain(h, x) ==
    /\ Serving(x) # {}
    /\ duplicates < MaxDuplicates
    /\ duplicates' = duplicates + 1
    /\ Arrive(h, x)

-----------------------------------------------------------------------------
(* get_idempotent_response *)

\* MUTANT of Lookup: the payload is not compared.
LookupKeyOnly(h) ==
    /\ pc(h) = "lookup"
    /\ IF Cached(h) # NoEntry
       THEN Answer(h, "respond", Cached(h).status, Cached(h).event, TRUE)
       ELSE Continue(h, "check")
    /\ UNCHANGED <<events, deleted, cache, signals, client, answers, duplicates, failures>>

Lookup(h) ==
    /\ pc(h) = "lookup"
    /\ \/ /\ Cached(h) = NoEntry
          /\ Continue(h, "check")
       \/ /\ Cached(h) # NoEntry /\ Cached(h).body = Sub(h).body
          /\ Answer(h, "respond", Cached(h).status, Cached(h).event, TRUE)
       \/ /\ Cached(h) # NoEntry /\ Cached(h).body # Sub(h).body
          /\ Answer(h, "respond", 409, NoEvent, FALSE)
    /\ UNCHANGED <<events, deleted, cache, signals, client, answers, duplicates, failures>>

Granted(h) == RequireCapability(CallerOf(Sub(h), req[h].active), "contribute")

\* require_capability, on the user that authentication read; serializer.is_valid.
\* Neither refusal is stored.
Check(h) ==
    /\ pc(h) = "check"
    /\ \/ ~Granted(h) /\ Answer(h, "respond", 403, NoEvent, FALSE)
       \/ /\ Granted(h) /\ Sub(h).op = "submit" /\ Sub(h).body \in Invalid
          /\ Answer(h, "respond", 400, NoEvent, FALSE)
       \/ /\ Granted(h) /\ Sub(h).op = "submit" /\ Sub(h).body \notin Invalid
          /\ Continue(h, "select")
       \/ Granted(h) /\ Sub(h).op = "delete" /\ Continue(h, "delete")
    /\ UNCHANGED <<events, deleted, cache, signals, client, answers, duplicates, failures>>

-----------------------------------------------------------------------------
(* create_or_get_idempotent: SELECT, INSERT, and SELECT again if it is refused *)

Select(h) ==
    /\ pc(h) = "select"
    /\ \/ Matching(h) = {} /\ Continue(h, "insert")
       \/ \E i \in Matching(h) : Answer(h, "signal", 200, i, FALSE)
    /\ UNCHANGED <<events, deleted, cache, signals, client, answers, duplicates, failures>>

\* MUTANT of Refuses: the column is not unique.
RefusesNothing(h) == FALSE

\* The unique index on client_generated_id.
Refuses(h) == Matching(h) # {}

\* MUTANT of Insert: the row is rolled back after the answer was built.
InsertRolledBack(h) ==
    /\ pc(h) = "insert"
    /\ ~Refuses(h)
    /\ Answer(h, "signal", 201, Len(events) + 1, FALSE)
    /\ UNCHANGED <<events, deleted, cache, signals, client, answers, duplicates, failures>>

\* The savepoint of get_or_create commits with the INSERT.
Insert(h) ==
    /\ pc(h) = "insert"
    /\ ~Refuses(h)
    /\ events' = Append(events, [client |-> ClientId[Sub(h).body], body |-> Sub(h).body,
                                 user |-> Sub(h).user])
    /\ Answer(h, "signal", 201, Len(events) + 1, FALSE)
    /\ UNCHANGED <<deleted, cache, signals, client, answers, duplicates, failures>>

\* MUTANT of InsertRefused: the loser of the race reports the row as its own.
RefusedAsCreated(h) ==
    /\ pc(h) = "insert"
    /\ Refuses(h)
    /\ \E i \in Matching(h) : Answer(h, "signal", 201, i, FALSE)
    /\ UNCHANGED <<events, deleted, cache, signals, client, answers, duplicates, failures>>

\* IntegrityError: the row of the other request is returned, not created.
InsertRefused(h) ==
    /\ pc(h) = "insert"
    /\ Refuses(h)
    /\ \E i \in Matching(h) : Answer(h, "signal", 200, i, FALSE)
    /\ UNCHANGED <<events, deleted, cache, signals, client, answers, duplicates, failures>>

-----------------------------------------------------------------------------
(* record_contribution_signals: of its four counters, those of the fingerprint *)

\* event.contributor_fingerprint: of the row that was created or found, and a row
\* is found by its client_generated_id alone, whoever contributed it.
Fingerprint(h) == events[req[h].event].user

\* MUTANT of Count: a missing counter is set to 1 and then incremented.
CountTwice(h) ==
    LET w == WorkerOf[h]  u == Fingerprint(h) IN
    /\ pc(h) = "signal"
    /\ recorded' = [recorded EXCEPT ![w][u] = @ + 1]
    /\ counter' = [counter EXCEPT ![w][u] = IF @ = 0 THEN 2 ELSE @ + 1]
    /\ Continue(h, "store")
    /\ UNCHANGED <<events, deleted, cache, client, answers, duplicates, failures>>

\* cache.incr, which raises ValueError if the counter is missing.
Count(h) ==
    LET w == WorkerOf[h]  u == Fingerprint(h) IN
    /\ pc(h) = "signal"
    /\ recorded' = [recorded EXCEPT ![w][u] = @ + 1]
    /\ counter' = [counter EXCEPT ![w][u] = IF @ = 0 THEN 0 ELSE @ + 1]
    /\ Continue(h, IF counter[w][u] = 0 THEN "signal_init" ELSE "store")
    /\ UNCHANGED <<events, deleted, cache, client, answers, duplicates, failures>>

\* cache.set(key, 1), whatever was counted since.
StartCounter(h) ==
    /\ pc(h) = "signal_init"
    /\ counter' = [counter EXCEPT ![WorkerOf[h]][Fingerprint(h)] = 1]
    /\ Continue(h, "store")
    /\ UNCHANGED <<events, deleted, cache, recorded, client, answers, duplicates, failures>>

\* Every exception of the cache is swallowed.
SignalFails(h) ==
    /\ pc(h) \in {"signal", "signal_init"}
    /\ failures < MaxFailures /\ failures' = failures + 1
    /\ Continue(h, "store")
    /\ UNCHANGED <<events, deleted, cache, signals, client, answers, duplicates>>

\* Requests that have missed the counter and will start it.
Starting(w, u) ==
    {h \in Handlers : pc(h) = "signal_init" /\ WorkerOf[h] = w /\ Fingerprint(h) = u}

\* The window of an hour is over, or the cache makes room.
CounterExpires(w, u) ==
    /\ counter[w][u] # 0
    /\ failures < MaxFailures /\ failures' = failures + 1
    /\ counter' = [counter EXCEPT ![w][u] = 0]
    /\ recorded' = [recorded EXCEPT ![w][u] = Cardinality(Starting(w, u))]
    /\ UNCHANGED <<events, deleted, cache, client, req, answers, duplicates>>

-----------------------------------------------------------------------------
(* delete_account, whose transaction AccountSessions takes apart *)

DeleteCommits(h) ==
    /\ pc(h) = "delete"
    /\ deleted' = deleted \cup {Sub(h).user}
    /\ Answer(h, "store", 200, NoEvent, FALSE)
    /\ UNCHANGED <<events, cache, signals, client, answers, duplicates, failures>>

\* Its exception handler returns a result that reports the failure.
DeleteFails(h) ==
    /\ pc(h) = "delete"
    /\ failures < MaxFailures /\ failures' = failures + 1
    /\ Answer(h, "store", 500, NoEvent, FALSE)
    /\ UNCHANGED <<events, deleted, cache, signals, client, answers, duplicates>>

-----------------------------------------------------------------------------
(* store_idempotent_response, and the answer *)

Store(h) ==
    /\ pc(h) = "store"
    /\ cache' = IF Sub(h).key = NoKey THEN cache
                ELSE [cache EXCEPT ![WorkerOf[h]][Slot(h)] =
                        [body |-> Sub(h).body, status |-> req[h].status, event |-> req[h].event]]
    /\ Continue(h, "respond")
    /\ UNCHANGED <<events, deleted, signals, client, answers, duplicates, failures>>

AnswerOf(h) ==
    [user |-> Sub(h).user, key |-> Sub(h).key, op |-> Sub(h).op, body |-> Sub(h).body,
     status |-> req[h].status, event |-> req[h].event, replayed |-> req[h].replayed,
     active |-> req[h].active]

\* The client retries after a 500 and takes every other answer as final.
Respond(h) ==
    /\ pc(h) = "respond"
    /\ answers' = answers \cup {AnswerOf(h)}
    /\ client' = IF req[h].status = 500 THEN client ELSE [client EXCEPT ![Sub(h)] = "done"]
    /\ req' = [req EXCEPT ![h] = Idle]
    /\ UNCHANGED <<events, deleted, cache, signals, duplicates, failures>>

-----------------------------------------------------------------------------
(* Failures *)

LoseAnswer(h) ==
    /\ pc(h) = "respond"
    /\ failures < MaxFailures /\ failures' = failures + 1
    /\ answers' = answers \cup {AnswerOf(h)}
    /\ req' = [req EXCEPT ![h] = Idle]
    /\ UNCHANGED <<events, deleted, cache, signals, client, duplicates>>

\* The exception of a statement of get_or_create leaves the view: a 500 that no
\* code of the view sees.
StatementFails(h) ==
    /\ pc(h) \in {"select", "insert"}
    /\ failures < MaxFailures /\ failures' = failures + 1
    /\ Answer(h, "respond", 500, NoEvent, FALSE)
    /\ UNCHANGED <<events, deleted, cache, signals, client, answers, duplicates>>

\* A worker process dies with its requests and its cache.
Restart(w) ==
    /\ failures < MaxFailures /\ failures' = failures + 1
    /\ cache' = [cache EXCEPT ![w] = [slot \in Users \X Keys |-> NoEntry]]
    /\ counter' = [counter EXCEPT ![w] = [u \in Users |-> 0]]
    /\ recorded' = [recorded EXCEPT ![w] = [u \in Users |-> 0]]
    /\ req' = [h \in Handlers |-> IF WorkerOf[h] = w THEN Idle ELSE req[h]]
    /\ UNCHANGED <<events, deleted, client, answers, duplicates>>

\* The time to live has passed, or the cache makes room.
Expire(w, slot) ==
    /\ cache[w][slot] # NoEntry
    /\ cache' = [cache EXCEPT ![w][slot] = NoEntry]
    /\ UNCHANGED <<events, deleted, signals, client, req, answers, duplicates, failures>>

-----------------------------------------------------------------------------
(* Specification *)

Init ==
    /\ events = <<>> /\ deleted = {} /\ answers = {}
    /\ cache = [w \in Workers |-> [slot \in Users \X Keys |-> NoEntry]]
    /\ counter = [w \in Workers |-> [u \in Users |-> 0]] /\ recorded = counter
    /\ client = [x \in Submissions |-> "waiting"]
    /\ req = [h \in Handlers |-> Idle]
    /\ duplicates = 0 /\ failures = 0

Step(h) ==
    \/ Lookup(h) \/ Check(h) \/ Select(h) \/ Insert(h) \/ InsertRefused(h)
    \/ Count(h) \/ StartCounter(h) \/ DeleteCommits(h) \/ Store(h) \/ Respond(h)

Next ==
    \/ \E h \in Handlers :
         \/ \E x \in Submissions : Send(h, x) \/ SendAgain(h, x)
         \/ Step(h) \/ DeleteFails(h) \/ LoseAnswer(h) \/ StatementFails(h) \/ SignalFails(h)
    \/ \E w \in Workers : \/ Restart(w)
                          \/ \E slot \in Users \X Keys : Expire(w, slot)
                          \/ \E u \in Users : CounterExpires(w, u)

Spec == Init /\ [][Next]_vars

\* A thread that serves a request goes on; a client without an answer retries.
FairSpec ==
    /\ Spec
    /\ \A h \in Handlers : WF_vars(Step(h))
    /\ \A x \in Submissions : WF_vars(\E h \in Handlers : Send(h, x))

-----------------------------------------------------------------------------
(* Properties *)

EventOK(event) == event \in EventIds \cup {NoEvent}

RequestTypeOK(x) ==
    /\ x.pc \in {"select", "insert"} => x.sub.op = "submit"
    /\ x.pc = "delete" => x.sub.op = "delete"
    /\ x.pc \in {"signal", "signal_init"} => x.event \in EventIds
    /\ EventOK(x.event)

\* Every variable has its type, and an answer, to be given, cached or given, names
\* an event that exists.
TypeOK ==
    /\ events \in Seq(Event) /\ deleted \subseteq Users
    /\ cache \in [Workers -> [Users \X Keys -> Entry]]
    /\ counter \in [Workers -> [Users -> Nat]] /\ recorded \in [Workers -> [Users -> Nat]]
    /\ client \in [Submissions -> {"waiting", "done"}]
    /\ req \in [Handlers -> Request]
    /\ duplicates \in Nat /\ failures \in Nat
    /\ \A h \in Handlers : RequestTypeOK(req[h])
    /\ \A w \in Workers, slot \in Users \X Keys : EventOK(cache[w][slot].event)
    /\ \A a \in answers : EventOK(a.event)

\* One observation is one piece of evidence: however often a submission is sent,
\* by however many requests at a time and to whichever worker, its
\* client_generated_id has one row (create_or_get_idempotent).
OneEventPerClientId ==
    \A i, j \in EventIds : events[i].client = events[j].client => i = j

\* What an answer says is true of the very request it answers, replayed or not:
\* a 2xx to a submission names the committed event with its client id, a 200 to
\* a deletion means that the account is deleted.
AnswersAreTrue ==
    \A a \in answers : a.status \in {200, 201} =>
        IF a.op = "submit" THEN events[a.event].client = ClientId[a.body]
        ELSE a.user \in deleted

\* 201 is for the request that created the event, and for replays of it under
\* its own key: all others hear 200 (contributions.py:143-149).
CreatedOnce ==
    \A a, b \in answers : a.status = 201 /\ b.status = 201 /\ a.event = b.event =>
        a.user = b.user /\ a.key = b.key /\ a.body = b.body

\* Inactive users have read-only access (authz.py:37): a request that arrives
\* after its account's deletion succeeds only by the answer to an earlier one.
DeletedHearOnlyReplays ==
    \A a \in answers : ~a.active /\ a.status \in {200, 201} => a.replayed

\* Races lose counts and never add any: incr and set are two calls, and requests
\* of several accounts may count on one fingerprint, but its counter never exceeds
\* the submissions recorded on it in its window, by whomever (abuse_signals.py:205-233).
CountedAtMostOnce ==
    \A w \in Workers, u \in Users :
        counter[w][u] + Cardinality(Starting(w, u)) <= recorded[w][u]

\* Any authenticated user may contribute (contributions.py:48): whatever fails
\* on the way, a valid submission of an account that exists, sent until it is
\* answered, is in the evidence in the end.
ContributorsGetThrough ==
    \A x \in Submissions : x.op = "submit" /\ x.body \notin Invalid =>
        <>(\E i \in EventIds : events[i].client = ClientId[x.body])

-----------------------------------------------------------------------------
(* What the documentation says and the code does not do *)

\* "Same key + different payload: Return 409 Conflict" (idempotency.py:92): no
\* two payloads are both accepted under one key of a user.
KeysIdentifyPayloads ==
    \A a, b \in answers :
        /\ a.user = b.user /\ a.key = b.key /\ a.key # NoKey
        /\ {a.status, b.status} \subseteq {200, 201}
        => a.body = b.body

\* "Same key + same payload: Return cached response (original status code)":
\* the answers to one submission and key agree.
RetriesHearTheSame ==
    \A a, b \in answers :
        /\ a.user = b.user /\ a.key = b.key /\ a.key # NoKey /\ a.body = b.body
        /\ {a.status, b.status} \subseteq {200, 201}
        => a.status = b.status

\* "Deletion is IDEMPOTENT (safe on retry)": a deletion is reported as failed
\* only to a request that tried it.
RetriedDeletionIsTried ==
    \A a \in answers : a.op = "delete" /\ a.status = 500 => ~a.replayed

\* "Tracks per-fingerprint velocity for de-identified submissions"
\* (abuse_signals.py:120): a submission is counted on its contributor's fingerprint.
OnlyOwnCounted ==
    \A h \in Handlers : pc(h) \in {"signal", "signal_init"} => Fingerprint(h) = Sub(h).user
=============================================================================
