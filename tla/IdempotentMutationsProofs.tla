--------------------- MODULE IdempotentMutationsProofs ---------------------
(****************************************************************************)
(* Theorems about IdempotentMutations, for every set of submissions, any    *)
(* number of worker processes and threads, whoever may contribute, and any  *)
(* bounds on repetitions and failures.                                      *)
(****************************************************************************)
EXTENDS IdempotentMutations, SequenceTheorems, FiniteSetTheorems, TLAPS

(****************************************************************************)
(* Submissions, rows and cached responses                                   *)
(****************************************************************************)

LEMMA SubmissionFields ==
    ASSUME NEW x \in Submissions
    PROVE  /\ x.user \in Users /\ x.op \in {"submit", "delete"}
           /\ x.body \in Bodies \cup {NoBody} /\ (x.op = "delete" <=> x.body = NoBody)
           /\ x.op = "submit" => x.body \in Bodies
           /\ x.key # NoKey => <<x.user, x.key>> \in Users \X Keys
BY MutationAssumption DEF Users, Bodies, Keys

LEMMA IdleType == Idle \in Request /\ Idle.status = 403 /\ Idle.event = NoEvent /\ Idle.pc = "idle"
BY MutationAssumption DEF Idle, Request, Statuses, NoEvent

LEMMA NoEntryType == NoEntry \in Entry /\ NoEntry.status = 403 /\ NoEntry.event = NoEvent
BY DEF NoEntry, Entry, Statuses, NoEvent

LEMMA RequestInHand ==
    ASSUME TypeOK, NEW h \in Handlers
    PROVE  /\ req[h] \in Request /\ RequestTypeOK(req[h]) /\ Sub(h) \in Submissions
           /\ WorkerOf[h] \in Workers
BY DEF TypeOK, Request, Sub, Workers

\* Who is counted on is a user: a request that records its submission has a row.
LEMMA FingerprintType ==
    ASSUME TypeOK, NEW h \in Handlers, pc(h) \in {"signal", "signal_init"}
    PROVE  req[h].event \in EventIds /\ Fingerprint(h) \in Users
<1>1. req[h].event \in 1..Len(events)
  BY RequestInHand DEF RequestTypeOK, pc, EventIds
<1>2. events[req[h].event] \in Event
  BY <1>1, ElementOfSeq DEF TypeOK
<1> QED
  BY <1>1, <1>2 DEF Event, EventIds, Fingerprint

\* Rows are neither changed nor removed, and no deletion is taken back.
RowsKept ==
    /\ events' \in Seq(Event) /\ Len(events) \in Nat /\ Len(events') \in Nat
    /\ Len(events) <= Len(events')
    /\ \A i \in EventIds : events'[i] = events[i]
    /\ deleted \subseteq deleted' /\ deleted' \subseteq Users

\* The row that a request inserts.
NewRow(h) == [client |-> ClientId[Sub(h).body], body |-> Sub(h).body, user |-> Sub(h).user]

LEMMA InsertedRow ==
    ASSUME TypeOK, NEW h \in Handlers, Insert(h)
    PROVE  /\ RowsKept /\ Len(events') = Len(events) + 1
           /\ events'[Len(events) + 1] = NewRow(h) /\ UNCHANGED deleted
<1>1. Sub(h) \in Submissions /\ Sub(h).op = "submit"
  BY RequestInHand DEF Insert, RequestTypeOK, pc, Sub
<1>2. Sub(h).body \in Bodies /\ Sub(h).user \in Users
  BY <1>1, SubmissionFields
<1>3. NewRow(h) \in Event
  BY <1>2 DEF NewRow, Event
<1>4. events' = Append(events, NewRow(h)) /\ events \in Seq(Event) /\ UNCHANGED deleted
  BY DEF Insert, NewRow, TypeOK
<1>5. /\ events' \in Seq(Event) /\ Len(events') = Len(events) + 1
      /\ \A i \in 1..Len(events) : events'[i] = events[i]
      /\ events'[Len(events) + 1] = NewRow(h)
  BY <1>3, <1>4, AppendProperties
<1>6. Len(events) \in Nat
  BY <1>4, LenProperties
<1> QED
  BY <1>4, <1>5, <1>6 DEF RowsKept, EventIds, TypeOK

LEMMA RowsStep == TypeOK /\ [Next]_vars => RowsKept
<1> SUFFICES ASSUME TypeOK, [Next]_vars PROVE RowsKept
    OBVIOUS
<1>1. CASE UNCHANGED events /\ deleted \subseteq deleted' /\ deleted' \subseteq Users
  BY <1>1, LenProperties DEF RowsKept, EventIds, TypeOK
<1>2. CASE UNCHANGED <<events, deleted>>
  BY <1>1, <1>2 DEF TypeOK
<1>3. ASSUME NEW h \in Handlers, Insert(h) PROVE RowsKept
  BY <1>3, InsertedRow
<1>4. ASSUME NEW h \in Handlers, DeleteCommits(h) PROVE RowsKept
  BY <1>1, <1>4, RequestInHand, SubmissionFields DEF DeleteCommits, TypeOK
<1>5. ASSUME NEW h \in Handlers, Step(h) PROVE RowsKept
  BY <1>2, <1>3, <1>4, <1>5 DEF Step, Lookup, Check, Select, InsertRefused, Count, StartCounter,
                                Store, Respond
<1>6. ASSUME NEW h \in Handlers, NEW x \in Submissions, Send(h, x) \/ SendAgain(h, x)
      PROVE  UNCHANGED <<events, deleted>>
  BY <1>6 DEF Send, SendAgain, Arrive
<1>7. ASSUME NEW h \in Handlers,
             DeleteFails(h) \/ LoseAnswer(h) \/ StatementFails(h) \/ SignalFails(h)
      PROVE  UNCHANGED <<events, deleted>>
  BY <1>7 DEF DeleteFails, LoseAnswer, StatementFails, SignalFails
<1>8. ASSUME NEW w \in Workers, Restart(w) PROVE UNCHANGED <<events, deleted>>
  BY <1>8 DEF Restart
<1>9. ASSUME NEW w \in Workers, NEW slot \in Users \X Keys, Expire(w, slot)
       PROVE  UNCHANGED <<events, deleted>>
  BY <1>9 DEF Expire
<1>10. ASSUME NEW w \in Workers, NEW u \in Users, CounterExpires(w, u)
       PROVE  UNCHANGED <<events, deleted>>
  BY <1>10 DEF CounterExpires
<1>11. CASE UNCHANGED vars
  BY <1>2, <1>11 DEF vars
<1>12. ASSUME NEW h \in Handlers, \/ \E x \in Submissions : Send(h, x) \/ SendAgain(h, x)
                                 \/ Step(h) \/ DeleteFails(h) \/ LoseAnswer(h)
                                 \/ StatementFails(h) \/ SignalFails(h)
       PROVE  RowsKept
  BY <1>2, <1>5, <1>6, <1>7, <1>12
<1> QED
  BY <1>2, <1>8, <1>9, <1>10, <1>11, <1>12 DEF Next

LEMMA EventsStay == ASSUME RowsKept, NEW event, EventOK(event) PROVE EventOK(event)'
BY DEF RowsKept, EventOK, EventIds

(****************************************************************************)
(* What a step makes of a request                                           *)
(****************************************************************************)

\* The states of a view that works for a user it has checked.
Working == {"select", "insert", "delete", "signal", "signal_init"}

\* An answer that says no, or none yet.
Refusal(x) ==
    /\ x.status \notin {200, 201} /\ x.event = NoEvent
    /\ x.pc \in {"idle", "lookup", "store", "respond"}

\* The request goes on with the answer it has.
GoesOn(h, x) ==
    /\ x.status = req[h].status /\ x.event = req[h].event /\ x.replayed = req[h].replayed
    /\ x.pc \in {"select", "insert"} => x.sub.op = "submit"
    /\ x.pc = "delete" => x.sub.op = "delete"
    /\ x.pc \in Working => x.active \/ pc(h) \in Working
    /\ x.pc # "signal" /\ (x.pc = "signal_init" => pc(h) = "signal")

\* It answers with what the cache holds for its key and payload.
Replays(h, x) ==
    /\ Sub(h).key # NoKey /\ cache[WorkerOf[h]][Slot(h)].body = Sub(h).body
    /\ x.status = cache[WorkerOf[h]][Slot(h)].status
    /\ x.event = cache[WorkerOf[h]][Slot(h)].event
    /\ x.replayed /\ x.pc = "respond"

\* It answers with a row it has found.
Finds(h, x) ==
    /\ pc(h) \in {"select", "insert"} /\ Sub(h).op = "submit"
    /\ x.status = 200 /\ x.event \in Matching(h) /\ x.pc = "signal"

\* It answers with the row it has inserted.
Creates(h, x) ==
    /\ Insert(h) /\ pc(h) = "insert" /\ Sub(h).op = "submit"
    /\ x.status = 201 /\ x.event = Len(events) + 1 /\ x.pc = "signal"

\* It answers that the account is deleted.
Deletes(h, x) ==
    /\ pc(h) = "delete" /\ Sub(h).op = "delete" /\ Sub(h).user \in deleted'
    /\ x.status = 200 /\ x.event = NoEvent /\ x.pc = "store"

Outcome(h, x) ==
    \/ Refusal(x)
    \/ /\ x.sub = Sub(h) /\ x.active = req[h].active
       /\ GoesOn(h, x) \/ Replays(h, x) \/ Finds(h, x) \/ Creates(h, x) \/ Deletes(h, x)

LEMMA Continued ==
    ASSUME TypeOK, NEW h \in Handlers,
           NEW next \in {"check", "select", "insert", "signal_init", "delete", "store", "respond"},
           next \in {"select", "insert"} => Sub(h).op = "submit",
           next = "delete" => Sub(h).op = "delete",
           next \in Working => req[h].active \/ pc(h) \in Working,
           next = "signal_init" => pc(h) = "signal",
           Continue(h, next)
    PROVE  \E x \in Request : req' = [req EXCEPT ![h] = x] /\ Outcome(h, x)
<1>1. PICK y \in Request : y = req[h] /\ y.sub = Sub(h)
  BY DEF TypeOK, Sub
<1> DEFINE x == [y EXCEPT !.pc = next]
<1>2. req' = [req EXCEPT ![h] = x]
  BY <1>1 DEF Continue
<1>3. /\ x \in Request /\ x.pc = next /\ x.sub = y.sub /\ x.active = y.active
      /\ x.event = y.event /\ x.status = y.status /\ x.replayed = y.replayed
  BY DEF Request
<1>4. GoesOn(h, x)
  BY <1>1, <1>3 DEF GoesOn
<1> QED
  BY <1>1, <1>2, <1>3, <1>4 DEF Outcome

LEMMA Answered ==
    ASSUME TypeOK, NEW h \in Handlers, NEW next \in {"signal", "store", "respond"},
           NEW status \in Statuses, NEW event \in Nat, NEW replayed \in BOOLEAN,
           Answer(h, next, status, event, replayed)
    PROVE  \E x \in Request : /\ req' = [req EXCEPT ![h] = x]
                             /\ x.pc = next /\ x.status = status /\ x.event = event
                             /\ x.replayed = replayed
                             /\ x.sub = Sub(h) /\ x.active = req[h].active
<1>1. PICK y \in Request : y = req[h] /\ y.sub = Sub(h)
  BY DEF TypeOK, Sub
<1> DEFINE x == [y EXCEPT !.pc = next, !.status = status, !.event = event, !.replayed = replayed]
<1>2. req' = [req EXCEPT ![h] = x]
  BY <1>1 DEF Answer
<1>3. /\ x \in Request /\ x.pc = next /\ x.sub = y.sub /\ x.active = y.active
      /\ x.event = event /\ x.status = status /\ x.replayed = replayed
  BY DEF Request
<1> QED
  BY <1>1, <1>2, <1>3

\* An answer that refuses.
LEMMA Declined ==
    ASSUME TypeOK, NEW h \in Handlers, NEW next \in {"store", "respond"},
           NEW status \in {400, 403, 409, 500}, NEW no \in BOOLEAN,
           Answer(h, next, status, NoEvent, no)
    PROVE  \E x \in Request : req' = [req EXCEPT ![h] = x] /\ Outcome(h, x)
<1>1. status \in Statuses /\ status \notin {200, 201}
  BY DEF Statuses
<1>2. PICK event \in Nat : event = NoEvent /\ Answer(h, next, status, event, no)
  BY DEF NoEvent
<1>3. next \in {"signal", "store", "respond"}
  OBVIOUS
<1>4. PICK x \in Request : /\ req' = [req EXCEPT ![h] = x]
                           /\ x.pc = next /\ x.status = status /\ x.event = event
  BY <1>1, <1>2, <1>3, Answered
<1>5. Refusal(x)
  BY <1>1, <1>2, <1>4 DEF Refusal
<1> QED
  BY <1>4, <1>5 DEF Outcome

\* Nobody but an active account holds the capability that both views ask for.
LEMMA GrantedAreActive == ASSUME NEW h \in Handlers, Granted(h) PROVE req[h].active
<1> SUFFICES ASSUME ~req[h].active PROVE FALSE
    OBVIOUS
<1> DEFINE caller == CallerOf(Sub(h), req[h].active)
<1>1. ~caller.authenticated \/ ~caller.active
  BY DEF CallerOf, AnonymousUser
<1>2. UserCapabilities(caller) = CAPABILITY_HIERARCHY["read"]
  BY <1>1 DEF UserCapabilities
<1>3. CAPABILITY_HIERARCHY["read"] = {"read"}
  BY DEF CAPABILITY_HIERARCHY
<1> QED
  BY <1>2, <1>3 DEF Granted, RequireCapability, HasCapability

LEMMA IdleOutcome ==
    ASSUME TypeOK, NEW h \in Handlers, req' = [req EXCEPT ![h] = Idle]
    PROVE  \E x \in Request : req' = [req EXCEPT ![h] = x] /\ Outcome(h, x)
<1>1. Idle \in Request /\ Refusal(Idle)
  BY IdleType DEF Refusal
<1> QED
  BY <1>1 DEF Outcome

LEMMA ArrivalOutcome ==
    ASSUME TypeOK, NEW h \in Handlers, NEW x \in Submissions, Arrive(h, x)
    PROVE  \E y \in Request : req' = [req EXCEPT ![h] = y] /\ Outcome(h, y)
<1>1. PICK next \in {"lookup", "respond"}, active \in BOOLEAN :
         req' = [req EXCEPT ![h] = [Idle EXCEPT !.pc = next, !.sub = x, !.active = active]]
  BY DEF Arrive
<1> DEFINE y == [Idle EXCEPT !.pc = next, !.sub = x, !.active = active]
<1>2. /\ y \in Request /\ y.pc = next /\ y.status = Idle.status /\ y.event = Idle.event
  BY IdleType DEF Request
<1>3. Refusal(y)
  BY <1>2, IdleType DEF Refusal
<1> QED
  BY <1>1, <1>2, <1>3 DEF Outcome

LEMMA CachedEntry ==
    ASSUME TypeOK, NEW h \in Handlers, Cached(h) # NoEntry
    PROVE  /\ Sub(h).key # NoKey /\ Cached(h) = cache[WorkerOf[h]][Slot(h)]
           /\ Slot(h) \in Users \X Keys /\ Cached(h) \in Entry /\ EventOK(Cached(h).event)
<1>1. Sub(h).key # NoKey /\ Cached(h) = cache[WorkerOf[h]][Slot(h)]
  BY DEF Cached
<1>2. Slot(h) \in Users \X Keys
  BY <1>1, RequestInHand, SubmissionFields DEF Slot
<1>3. WorkerOf[h] \in Workers
  BY RequestInHand
<1> QED
  BY <1>1, <1>2, <1>3 DEF TypeOK

LEMMA LookupOutcome ==
    ASSUME TypeOK, NEW h \in Handlers, Lookup(h)
    PROVE  \E x \in Request : req' = [req EXCEPT ![h] = x] /\ Outcome(h, x)
<1>1. CASE Continue(h, "check")
  BY <1>1, Continued DEF Working
<1>2. CASE Answer(h, "respond", 409, NoEvent, FALSE)
  <2>1. PICK no \in BOOLEAN : Answer(h, "respond", 409, NoEvent, no)
    BY <1>2
  <2> QED
    BY <2>1, Declined
<1>3. ASSUME Cached(h) # NoEntry, Cached(h).body = Sub(h).body,
             Answer(h, "respond", Cached(h).status, Cached(h).event, TRUE)
      PROVE  \E x \in Request : req' = [req EXCEPT ![h] = x] /\ Outcome(h, x)
  <2>1. Cached(h).status \in Statuses /\ Cached(h).event \in Nat
    BY <1>3, CachedEntry DEF Entry
  <2>2. PICK status \in Statuses, event \in Nat, yes \in BOOLEAN :
           /\ status = Cached(h).status /\ event = Cached(h).event /\ yes = TRUE
           /\ Answer(h, "respond", status, event, yes)
    BY <1>3, <2>1
  <2>3. PICK y \in Request : y = req[h] /\ y.sub = Sub(h)
    BY DEF TypeOK, Sub
  <2> DEFINE x == [y EXCEPT !.pc = "respond", !.status = status, !.event = event, !.replayed = yes]
  <2>4. req' = [req EXCEPT ![h] = x]
    BY <2>2, <2>3 DEF Answer
  <2>5. /\ x \in Request /\ x.pc = "respond" /\ x.status = status /\ x.event = event
        /\ x.sub = y.sub /\ x.active = y.active
    BY DEF Request
  <2>6. x.replayed
    BY <2>2 DEF Request
  <2> HIDE DEF x
  <2>7. Replays(h, x)
    BY <1>3, <2>2, <2>5, <2>6, CachedEntry DEF Replays
  <2> QED
    BY <2>3, <2>4, <2>5, <2>7 DEF Outcome
<1> QED
  BY <1>1, <1>2, <1>3 DEF Lookup

LEMMA CheckOutcome ==
    ASSUME TypeOK, NEW h \in Handlers, Check(h)
    PROVE  \E x \in Request : req' = [req EXCEPT ![h] = x] /\ Outcome(h, x)
<1>1. CASE Answer(h, "respond", 403, NoEvent, FALSE)
  <2>1. PICK no \in BOOLEAN : Answer(h, "respond", 403, NoEvent, no)
    BY <1>1
  <2> QED
    BY <2>1, Declined
<1>2. CASE Answer(h, "respond", 400, NoEvent, FALSE)
  <2>1. PICK no \in BOOLEAN : Answer(h, "respond", 400, NoEvent, no)
    BY <1>2
  <2> QED
    BY <2>1, Declined
<1>3. CASE Granted(h) /\ Sub(h).op = "submit" /\ Continue(h, "select")
  BY <1>3, GrantedAreActive, Continued
<1>4. CASE Granted(h) /\ Sub(h).op = "delete" /\ Continue(h, "delete")
  BY <1>4, GrantedAreActive, Continued
<1> QED
  BY <1>1, <1>2, <1>3, <1>4 DEF Check

\* SELECT, and the refused INSERT, answer with a row.
LEMMA FoundOutcome ==
    ASSUME TypeOK, NEW h \in Handlers, pc(h) \in {"select", "insert"}, NEW i \in Matching(h),
           Answer(h, "signal", 200, i, FALSE)
    PROVE  \E x \in Request : req' = [req EXCEPT ![h] = x] /\ Outcome(h, x)
<1>1. i \in Nat /\ 200 \in Statuses
  BY DEF Matching, EventIds, Statuses
<1>2. PICK no \in BOOLEAN : Answer(h, "signal", 200, i, no)
  OBVIOUS
<1>3. PICK x \in Request :
         /\ req' = [req EXCEPT ![h] = x] /\ x.pc = "signal" /\ x.status = 200
         /\ x.event = i /\ x.sub = Sub(h) /\ x.active = req[h].active
  BY <1>1, <1>2, Answered
<1>4. Sub(h).op = "submit"
  BY RequestInHand DEF RequestTypeOK, pc, Sub
<1>5. Finds(h, x)
  BY <1>3, <1>4 DEF Finds
<1> QED
  BY <1>3, <1>5 DEF Outcome

LEMMA InsertOutcome ==
    ASSUME TypeOK, NEW h \in Handlers, Insert(h)
    PROVE  \E x \in Request : req' = [req EXCEPT ![h] = x] /\ Outcome(h, x)
<1>1. Len(events) \in Nat /\ 201 \in Statuses
  BY LenProperties DEF TypeOK, Statuses
<1>2. PICK no \in BOOLEAN, i \in Nat : i = Len(events) + 1 /\ Answer(h, "signal", 201, i, no)
  <2>1. PICK i \in Nat : i = Len(events) + 1
    BY <1>1
  <2>2. Answer(h, "signal", 201, i, FALSE)
    BY <2>1 DEF Insert
  <2> QED
    BY <2>1, <2>2
<1>3. PICK x \in Request :
         /\ req' = [req EXCEPT ![h] = x] /\ x.pc = "signal" /\ x.status = 201
         /\ x.event = i /\ x.sub = Sub(h) /\ x.active = req[h].active
  BY <1>1, <1>2, Answered
<1>4. pc(h) = "insert" /\ Sub(h).op = "submit"
  BY RequestInHand DEF Insert, RequestTypeOK, pc, Sub
<1>5. Creates(h, x)
  BY <1>2, <1>3, <1>4 DEF Creates
<1> QED
  BY <1>3, <1>5 DEF Outcome

LEMMA DeleteOutcome ==
    ASSUME TypeOK, NEW h \in Handlers, DeleteCommits(h)
    PROVE  \E x \in Request : req' = [req EXCEPT ![h] = x] /\ Outcome(h, x)
<1>1. 200 \in Statuses
  BY DEF Statuses
<1>2. PICK no \in BOOLEAN, i \in Nat : i = NoEvent /\ Answer(h, "store", 200, i, no)
  BY DEF DeleteCommits, NoEvent
<1>3. PICK x \in Request :
         /\ req' = [req EXCEPT ![h] = x] /\ x.pc = "store" /\ x.status = 200
         /\ x.event = i /\ x.sub = Sub(h) /\ x.active = req[h].active
  BY <1>1, <1>2, Answered
<1>4. pc(h) = "delete" /\ Sub(h).op = "delete" /\ Sub(h).user \in deleted'
  BY RequestInHand DEF DeleteCommits, RequestTypeOK, pc, Sub
<1>5. Deletes(h, x)
  BY <1>2, <1>3, <1>4 DEF Deletes
<1> QED
  BY <1>3, <1>5 DEF Outcome

\* What the threads do.
Acts(h) ==
    \/ \E x \in Submissions : Send(h, x) \/ SendAgain(h, x)
    \/ Step(h) \/ DeleteFails(h) \/ LoseAnswer(h) \/ StatementFails(h) \/ SignalFails(h)

LEMMA HandlerOutcome ==
    ASSUME TypeOK, NEW h \in Handlers, Acts(h)
    PROVE  \E x \in Request : req' = [req EXCEPT ![h] = x] /\ Outcome(h, x)
<1> DEFINE Goal == \E x \in Request : req' = [req EXCEPT ![h] = x] /\ Outcome(h, x)
<1>1. ASSUME NEW x \in Submissions, Send(h, x) \/ SendAgain(h, x) PROVE Goal
  BY <1>1, ArrivalOutcome DEF Send, SendAgain
<1>2. CASE Respond(h) \/ LoseAnswer(h)
  BY <1>2, IdleOutcome DEF Respond, LoseAnswer
<1>3. CASE Select(h)
  <2>1. CASE Continue(h, "insert")
    <3>1. pc(h) = "select" /\ Sub(h).op = "submit"
      BY <1>3, RequestInHand DEF Select, RequestTypeOK, pc, Sub
    <3> QED
      BY <2>1, <3>1, Continued DEF Working
  <2> QED
    BY <1>3, <2>1, FoundOutcome DEF Select
<1>4. CASE InsertRefused(h)
  BY <1>4, FoundOutcome DEF InsertRefused
<1>5. CASE Count(h)
  <2>1. PICK next \in {"signal_init", "store"} : Continue(h, next)
    BY <1>5 DEF Count
  <2>2. pc(h) = "signal"
    BY <1>5 DEF Count
  <2> QED
    BY <2>1, <2>2, Continued DEF Working
<1>6. CASE StartCounter(h) \/ SignalFails(h)
  <2>1. Continue(h, "store")
    BY <1>6 DEF StartCounter, SignalFails
  <2> QED
    BY <2>1, Continued DEF Working
<1>7. CASE Store(h)
  <2>1. Continue(h, "respond")
    BY <1>7 DEF Store
  <2> QED
    BY <2>1, Continued DEF Working
<1>8. CASE DeleteFails(h) \/ StatementFails(h)
  <2>1. PICK next \in {"store", "respond"}, no \in BOOLEAN : Answer(h, next, 500, NoEvent, no)
    BY <1>8 DEF DeleteFails, StatementFails
  <2> QED
    BY <2>1, Declined
<1> QED
  BY <1>1, <1>2, <1>3, <1>4, <1>5, <1>6, <1>7, <1>8, LookupOutcome, CheckOutcome, InsertOutcome,
     DeleteOutcome DEF Acts, Step

LEMMA RequestsStep ==
    TypeOK /\ [Next]_vars =>
        /\ req' \in [Handlers -> Request]
        /\ \A h \in Handlers : req'[h] = req[h] \/ Outcome(h, req'[h])
<1> SUFFICES ASSUME TypeOK, [Next]_vars
             PROVE  /\ req' \in [Handlers -> Request]
                    /\ \A h \in Handlers : req'[h] = req[h] \/ Outcome(h, req'[h])
    OBVIOUS
<1>1. req \in [Handlers -> Request]
  BY DEF TypeOK
<1>2. CASE UNCHANGED req
  BY <1>1, <1>2
<1>3. ASSUME NEW h \in Handlers, Acts(h)
      PROVE  /\ req' \in [Handlers -> Request]
             /\ \A g \in Handlers : req'[g] = req[g] \/ Outcome(g, req'[g])
  <2>1. PICK x \in Request : req' = [req EXCEPT ![h] = x] /\ Outcome(h, x)
    BY <1>3, HandlerOutcome
  <2>2. req'[h] = x /\ \A g \in Handlers \ {h} : req'[g] = req[g]
    BY <1>1, <2>1
  <2>3. Outcome(h, req'[h])
    BY <2>1, <2>2
  <2> QED
    BY <1>1, <2>1, <2>2, <2>3
<1>4. ASSUME NEW w \in Workers, Restart(w)
      PROVE  /\ req' \in [Handlers -> Request]
             /\ \A g \in Handlers : req'[g] = req[g] \/ Outcome(g, req'[g])
  <2>1. Refusal(Idle)
    BY IdleType DEF Refusal
  <2>2. \A g \in Handlers : req'[g] = IF WorkerOf[g] = w THEN Idle ELSE req[g]
    BY <1>4 DEF Restart
  <2>3. req' \in [Handlers -> Request]
    BY <1>1, <1>4, IdleType DEF Restart
  <2> QED
    BY <2>1, <2>2, <2>3 DEF Outcome
<1>5. ASSUME NEW w \in Workers, NEW slot \in Users \X Keys, Expire(w, slot) PROVE UNCHANGED req
  BY <1>5 DEF Expire
<1>6. ASSUME NEW w \in Workers, NEW u \in Users, CounterExpires(w, u) PROVE UNCHANGED req
  BY <1>6 DEF CounterExpires
<1>7. CASE UNCHANGED vars
  BY <1>2, <1>7 DEF vars
<1> QED
  BY <1>2, <1>3, <1>4, <1>5, <1>6, <1>7 DEF Next, Acts

\* What a request leaves in the cache.
EntryOf(h) == [body |-> Sub(h).body, status |-> req[h].status, event |-> req[h].event]

Stores(h, w, slot) == /\ Store(h) /\ Sub(h).key # NoKey /\ w = WorkerOf[h] /\ slot = Slot(h)
                      /\ cache'[w][slot] = EntryOf(h)

LEMMA CacheStep ==
    TypeOK /\ [Next]_vars =>
        /\ cache' \in [Workers -> [Users \X Keys -> Entry]]
        /\ \A w \in Workers, slot \in Users \X Keys :
              \/ cache'[w][slot] \in {cache[w][slot], NoEntry}
              \/ \E h \in Handlers : Stores(h, w, slot)
<1> DEFINE Goal == /\ cache' \in [Workers -> [Users \X Keys -> Entry]]
                   /\ \A w \in Workers, slot \in Users \X Keys :
                         \/ cache'[w][slot] \in {cache[w][slot], NoEntry}
                         \/ \E h \in Handlers : Stores(h, w, slot)
<1> SUFFICES ASSUME TypeOK, [Next]_vars PROVE Goal
    OBVIOUS
<1>1. cache \in [Workers -> [Users \X Keys -> Entry]]
  BY DEF TypeOK
<1>2. CASE UNCHANGED cache
  BY <1>1, <1>2
<1>3. ASSUME NEW h \in Handlers, Store(h) PROVE Goal
  <2>1. CASE Sub(h).key = NoKey
    BY <1>2, <1>3, <2>1 DEF Store
  <2>2. CASE Sub(h).key # NoKey
    <3>1. PICK w \in Workers : w = WorkerOf[h]
      BY RequestInHand
    <3>2. PICK slot \in Users \X Keys : slot = Slot(h)
      BY <2>2, RequestInHand, SubmissionFields DEF Slot
    <3>3. EntryOf(h) \in Entry
      BY RequestInHand, SubmissionFields DEF EntryOf, Entry, Request
    <3>4. cache' = [cache EXCEPT ![w][slot] = EntryOf(h)]
      BY <1>3, <2>2, <3>1, <3>2 DEF Store, EntryOf
    <3>5. cache' \in [Workers -> [Users \X Keys -> Entry]]
      BY <1>1, <3>3, <3>4
    <3>6. Stores(h, w, slot)
      BY <1>1, <1>3, <2>2, <3>1, <3>2, <3>4 DEF Stores
    <3>7. ASSUME NEW v \in Workers, NEW t \in Users \X Keys, v # w \/ t # slot
          PROVE  cache'[v][t] = cache[v][t]
      BY <1>1, <3>4, <3>7
    <3> QED
      BY <3>5, <3>6, <3>7
  <2> QED
    BY <2>1, <2>2
<1>4. ASSUME NEW w \in Workers, Restart(w) PROVE Goal
  <2>1. cache' = [cache EXCEPT ![w] = [slot \in Users \X Keys |-> NoEntry]]
    BY <1>4 DEF Restart
  <2>2. cache' \in [Workers -> [Users \X Keys -> Entry]]
    BY <1>1, <2>1, NoEntryType
  <2>3. ASSUME NEW v \in Workers, NEW slot \in Users \X Keys
        PROVE  cache'[v][slot] \in {cache[v][slot], NoEntry}
    BY <1>1, <2>1
  <2> QED
    BY <2>2, <2>3
<1>5. ASSUME NEW w \in Workers, NEW slot \in Users \X Keys, Expire(w, slot) PROVE Goal
  <2>1. cache' = [cache EXCEPT ![w][slot] = NoEntry]
    BY <1>5 DEF Expire
  <2>2. cache' \in [Workers -> [Users \X Keys -> Entry]]
    BY <1>1, <2>1, NoEntryType
  <2>3. ASSUME NEW v \in Workers, NEW t \in Users \X Keys
        PROVE  cache'[v][t] \in {cache[v][t], NoEntry}
    BY <1>1, <2>1
  <2> QED
    BY <2>2, <2>3
<1>6. ASSUME NEW w \in Workers, NEW u \in Users, CounterExpires(w, u) PROVE UNCHANGED cache
  BY <1>6 DEF CounterExpires
<1>7. ASSUME NEW h \in Handlers, NEW x \in Submissions, Send(h, x) \/ SendAgain(h, x)
      PROVE  UNCHANGED cache
  BY <1>7 DEF Send, SendAgain, Arrive
<1>8. ASSUME NEW h \in Handlers, Acts(h), ~Store(h) PROVE UNCHANGED cache
  BY <1>7, <1>8 DEF Acts, Step, Lookup, Check, Select, Insert, InsertRefused, Count, StartCounter,
                    DeleteCommits, Respond, DeleteFails, LoseAnswer, StatementFails, SignalFails
<1>9. CASE UNCHANGED vars
  BY <1>2, <1>9 DEF vars
<1>10. ASSUME NEW h \in Handlers, Acts(h) PROVE Goal
  BY <1>2, <1>3, <1>8, <1>10
<1> QED
  BY <1>2, <1>4, <1>5, <1>6, <1>9, <1>10 DEF Next, Acts

LEMMA AnswersStep ==
    ASSUME TypeOK, [Next]_vars, NEW a \in answers'
    PROVE  a \in answers \/ \E h \in Handlers : pc(h) = "respond" /\ a = AnswerOf(h)
<1>1. ASSUME NEW h \in Handlers, Respond(h) \/ LoseAnswer(h)
      PROVE  a \in answers \/ (pc(h) = "respond" /\ a = AnswerOf(h))
  BY <1>1 DEF Respond, LoseAnswer
<1>2. ASSUME NEW h \in Handlers, NEW x \in Submissions, Send(h, x) \/ SendAgain(h, x)
      PROVE  UNCHANGED answers
  BY <1>2 DEF Send, SendAgain, Arrive
<1>3. ASSUME NEW h \in Handlers, Acts(h), ~Respond(h), ~LoseAnswer(h) PROVE UNCHANGED answers
  BY <1>2, <1>3 DEF Acts, Step, Lookup, Check, Select, Insert, InsertRefused, Count, StartCounter,
                    DeleteCommits, Store, DeleteFails, StatementFails, SignalFails
<1>4. ASSUME NEW w \in Workers, Restart(w) PROVE UNCHANGED answers
  BY <1>4 DEF Restart
<1>5. ASSUME NEW w \in Workers, NEW slot \in Users \X Keys, Expire(w, slot)
      PROVE  UNCHANGED answers
  BY <1>5 DEF Expire
<1>6. ASSUME NEW w \in Workers, NEW u \in Users, CounterExpires(w, u) PROVE UNCHANGED answers
  BY <1>6 DEF CounterExpires
<1>7. CASE UNCHANGED vars
  BY <1>7 DEF vars
<1>8. ASSUME NEW h \in Handlers, Acts(h)
      PROVE  a \in answers \/ \E g \in Handlers : pc(g) = "respond" /\ a = AnswerOf(g)
  BY <1>1, <1>3, <1>8
<1> QED
  BY <1>4, <1>5, <1>6, <1>7, <1>8 DEF Next, Acts

(****************************************************************************)
(* Type correctness                                                         *)
(****************************************************************************)

CountersOK ==
    /\ counter \in [Workers -> [Users -> Nat]] /\ recorded \in [Workers -> [Users -> Nat]]
    /\ client \in [Submissions -> {"waiting", "done"}]
    /\ duplicates \in Nat /\ failures \in Nat

LEMMA CountersStep == TypeOK /\ [Next]_vars => CountersOK'
<1> SUFFICES ASSUME TypeOK, [Next]_vars PROVE CountersOK'
    OBVIOUS
<1> USE DEF CountersOK, signals
<1>1. CountersOK
  BY DEF TypeOK
<1>2. ASSUME NEW h \in Handlers, Count(h) PROVE CountersOK'
  <2>1. PICK w \in Workers, u \in Users : w = WorkerOf[h] /\ u = Fingerprint(h)
    BY <1>2, RequestInHand, FingerprintType DEF Count
  <2>2. /\ recorded' = [recorded EXCEPT ![w][u] = @ + 1]
        /\ counter' = [counter EXCEPT ![w][u] = IF @ = 0 THEN 0 ELSE @ + 1]
        /\ UNCHANGED <<client, duplicates, failures>>
    BY <1>2, <2>1 DEF Count
  <2> QED
    BY <1>1, <2>2
<1>3. ASSUME NEW h \in Handlers, StartCounter(h) PROVE CountersOK'
  <2>1. PICK w \in Workers, u \in Users : w = WorkerOf[h] /\ u = Fingerprint(h)
    BY <1>3, RequestInHand, FingerprintType DEF StartCounter
  <2>2. /\ counter' = [counter EXCEPT ![w][u] = 1]
        /\ UNCHANGED <<recorded, client, duplicates, failures>>
    BY <1>3, <2>1 DEF StartCounter
  <2> QED
    BY <1>1, <2>2
<1>4. ASSUME NEW h \in Handlers, Respond(h) PROVE CountersOK'
  BY <1>1, <1>4, RequestInHand DEF Respond
<1>5. ASSUME NEW h \in Handlers,
             DeleteFails(h) \/ LoseAnswer(h) \/ StatementFails(h) \/ SignalFails(h)
      PROVE  CountersOK'
  <2>1. UNCHANGED <<counter, recorded, client, duplicates>> /\ failures' = failures + 1
    BY <1>5 DEF DeleteFails, LoseAnswer, StatementFails, SignalFails
  <2> QED
    BY <1>1, <2>1
<1>6. ASSUME NEW h \in Handlers, NEW x \in Submissions, Send(h, x) \/ SendAgain(h, x)
      PROVE  CountersOK'
  BY <1>1, <1>6 DEF Send, SendAgain, Arrive
<1>7. ASSUME NEW w \in Workers, Restart(w) PROVE CountersOK'
  <2>1. [u \in Users |-> 0] \in [Users -> Nat]
    OBVIOUS
  <2> QED
    BY <1>1, <1>7, <2>1 DEF Restart
<1>8. ASSUME NEW w \in Workers, NEW u \in Users, CounterExpires(w, u) PROVE CountersOK'
  <2>1. IsFiniteSet(Starting(w, u))
    BY MutationAssumption, FS_Subset DEF Starting
  <2>2. PICK n \in Nat : n = Cardinality(Starting(w, u))
    BY <2>1, FS_CardinalityType
  <2>3. /\ recorded' = [recorded EXCEPT ![w][u] = n] /\ counter' = [counter EXCEPT ![w][u] = 0]
        /\ failures' = failures + 1 /\ UNCHANGED <<client, duplicates>>
    BY <1>8, <2>2 DEF CounterExpires
  <2> QED
    BY <1>1, <2>3
<1>9. ASSUME NEW w \in Workers, NEW slot \in Users \X Keys, Expire(w, slot) PROVE CountersOK'
  BY <1>1, <1>9 DEF Expire
<1>10. ASSUME NEW h \in Handlers, Step(h) PROVE CountersOK'
  BY <1>1, <1>2, <1>3, <1>4, <1>10 DEF Step, Lookup, Check, Select, Insert, InsertRefused,
                                       DeleteCommits, Store
<1>11. CASE UNCHANGED vars
  BY <1>1, <1>11 DEF vars
<1>12. ASSUME NEW h \in Handlers, Acts(h) PROVE CountersOK'
  BY <1>5, <1>6, <1>10, <1>12 DEF Acts
<1> QED
  BY <1>7, <1>8, <1>9, <1>11, <1>12 DEF Next, Acts

LEMMA RequestTypeStep ==
    ASSUME TypeOK, RowsKept, NEW h \in Handlers, NEW x \in Request, Outcome(h, x)
    PROVE  RequestTypeOK(x)'
<1>1. ASSUME x.event = req[h].event PROVE EventOK(x.event)'
  <2>1. EventOK(x.event)
    BY <1>1, RequestInHand DEF RequestTypeOK
  <2> QED
    BY <2>1, EventsStay
<1>2. EventOK(NoEvent)'
  BY DEF EventOK
<1>3. CASE Refusal(x)
  BY <1>2, <1>3 DEF Refusal, RequestTypeOK
<1>4. CASE GoesOn(h, x)
  <2>1. x.pc \in {"signal", "signal_init"} => req[h].event \in EventIds
    BY <1>4, FingerprintType DEF GoesOn
  <2>2. EventIds \subseteq EventIds'
    BY DEF RowsKept, EventIds
  <2> QED
    BY <1>1, <1>4, <2>1, <2>2 DEF GoesOn, RequestTypeOK
<1>5. CASE Replays(h, x)
  <2>1. WorkerOf[h] \in Workers /\ Slot(h) \in Users \X Keys
    BY <1>5, RequestInHand, SubmissionFields DEF Replays, Slot
  <2>2. EventOK(cache[WorkerOf[h]][Slot(h)].event)
    BY <2>1 DEF TypeOK
  <2>3. EventOK(x.event)
    BY <1>5, <2>2 DEF Replays
  <2>4. EventOK(x.event)'
    BY <2>3, EventsStay
  <2> QED
    BY <1>5, <2>4 DEF Replays, RequestTypeOK
<1>6. CASE Finds(h, x)
  <2>1. EventOK(x.event)
    BY <1>6 DEF Finds, Matching, EventOK
  <2>2. EventOK(x.event)' /\ x.event \in EventIds'
    BY <1>6, <2>1, EventsStay DEF Finds, Matching, RowsKept, EventIds
  <2> QED
    BY <1>6, <2>2 DEF Finds, RequestTypeOK
<1>7. CASE Creates(h, x)
  <2>1. Len(events') = Len(events) + 1 /\ Len(events) \in Nat
    BY <1>7, InsertedRow DEF Creates, RowsKept
  <2> QED
    BY <1>7, <2>1 DEF Creates, RequestTypeOK, EventOK, EventIds
<1>8. CASE Deletes(h, x)
  BY <1>2, <1>8 DEF Deletes, RequestTypeOK
<1> QED
  BY <1>3, <1>4, <1>5, <1>6, <1>7, <1>8 DEF Outcome

LEMMA TypeStep == TypeOK /\ [Next]_vars => TypeOK'
<1> SUFFICES ASSUME TypeOK, [Next]_vars PROVE TypeOK'
    OBVIOUS
<1>1. RowsKept
  BY RowsStep
<1>2. /\ req' \in [Handlers -> Request]
      /\ \A h \in Handlers : req'[h] = req[h] \/ Outcome(h, req'[h])
  BY RequestsStep
<1>3. ASSUME NEW h \in Handlers PROVE RequestTypeOK(req[h])'
  <2>1. CASE req'[h] = req[h]
    <3>1. PICK x \in Request : x = req[h] /\ RequestTypeOK(x)
      BY RequestInHand
    <3>2. EventOK(x.event)'
      BY <1>1, <3>1, EventsStay DEF RequestTypeOK
    <3>3. EventIds \subseteq EventIds'
      BY <1>1 DEF RowsKept, EventIds
    <3> QED
      BY <2>1, <3>1, <3>2, <3>3 DEF RequestTypeOK
  <2>2. CASE Outcome(h, req'[h])
    <3>1. PICK x \in Request : x = req'[h] /\ Outcome(h, x)
      BY <1>2, <2>2
    <3>2. RequestTypeOK(x)'
      BY <1>1, <3>1, RequestTypeStep
    <3> QED
      BY <3>1, <3>2 DEF RequestTypeOK
  <2> QED
    BY <1>2, <2>1, <2>2
<1>4. /\ cache' \in [Workers -> [Users \X Keys -> Entry]]
      /\ \A w \in Workers, slot \in Users \X Keys :
            \/ cache'[w][slot] \in {cache[w][slot], NoEntry}
            \/ \E h \in Handlers : Stores(h, w, slot)
  BY CacheStep
<1>5. ASSUME NEW w \in Workers, NEW slot \in Users \X Keys
      PROVE  EventOK(cache[w][slot].event)'
  <2>1. PICK event : event = cache'[w][slot].event
    OBVIOUS
  <2>2. EventOK(event)
    <3>1. CASE cache'[w][slot] = cache[w][slot]
      BY <2>1, <3>1 DEF TypeOK
    <3>2. CASE cache'[w][slot] = NoEntry
      BY <2>1, <3>2, NoEntryType DEF EventOK
    <3>3. ASSUME NEW h \in Handlers, Stores(h, w, slot) PROVE EventOK(event)
      BY <2>1, <3>3, RequestInHand DEF Stores, EntryOf, RequestTypeOK
    <3> QED
      BY <1>4, <3>1, <3>2, <3>3
  <2>3. EventOK(event)'
    BY <1>1, <2>2, EventsStay
  <2> QED
    BY <2>1, <2>3
<1>6. ASSUME NEW a \in answers' PROVE EventOK(a.event)'
  <2>1. a \in answers \/ \E h \in Handlers : pc(h) = "respond" /\ a = AnswerOf(h)
    BY AnswersStep
  <2>2. ASSUME a \in answers PROVE EventOK(a.event)
    BY <2>2 DEF TypeOK
  <2>3. ASSUME NEW h \in Handlers, a = AnswerOf(h) PROVE EventOK(a.event)
    BY <2>3, RequestInHand DEF AnswerOf, RequestTypeOK
  <2>4. EventOK(a.event)
    BY <2>1, <2>2, <2>3
  <2> QED
    BY <1>1, <2>4, EventsStay
<1>7. CountersOK'
  BY CountersStep
<1> QED
  BY <1>1, <1>2, <1>3, <1>4, <1>5, <1>6, <1>7 DEF TypeOK, RowsKept, CountersOK

LEMMA InitType == Init => TypeOK
<1> SUFFICES ASSUME Init PROVE TypeOK
    OBVIOUS
<1>1. events \in Seq(Event) /\ deleted \subseteq Users /\ duplicates \in Nat /\ failures \in Nat
  BY DEF Init
<1>2. cache \in [Workers -> [Users \X Keys -> Entry]]
  BY NoEntryType DEF Init
<1>3. /\ counter \in [Workers -> [Users -> Nat]] /\ recorded \in [Workers -> [Users -> Nat]]
      /\ client \in [Submissions -> {"waiting", "done"}]
  BY DEF Init
<1>4. req \in [Handlers -> Request] /\ \A h \in Handlers : RequestTypeOK(req[h])
  BY IdleType DEF Init, RequestTypeOK, EventOK
<1>5. \A w \in Workers, slot \in Users \X Keys : EventOK(cache[w][slot].event)
  BY NoEntryType DEF Init, EventOK
<1>6. \A a \in answers : EventOK(a.event)
  BY DEF Init
<1> QED
  BY <1>1, <1>2, <1>3, <1>4, <1>5, <1>6 DEF TypeOK

\* Every variable has its type, whatever fails, and no answer names an event that
\* does not exist.
THEOREM MutationTypeCorrect == Spec => []TypeOK
<1> QED
  BY InitType, TypeStep, PTL DEF Spec

(****************************************************************************)
(* One row for one client_generated_id                                      *)
(****************************************************************************)

LEMMA UniqueInit == Init => OneEventPerClientId
BY EmptySeq DEF Init, OneEventPerClientId, EventIds

\* A row is inserted only while no row has its client_generated_id.
LEMMA UniqueStep == TypeOK /\ OneEventPerClientId /\ [Next]_vars => OneEventPerClientId'
<1> SUFFICES ASSUME TypeOK, OneEventPerClientId, [Next]_vars PROVE OneEventPerClientId'
    OBVIOUS
<1>1. CASE UNCHANGED events
  BY <1>1 DEF OneEventPerClientId, EventIds
<1>2. ASSUME NEW h \in Handlers, Insert(h) PROVE OneEventPerClientId'
  <2>1. /\ Len(events) \in Nat /\ Len(events') = Len(events) + 1
        /\ \A i \in EventIds : events'[i] = events[i]
        /\ events'[Len(events) + 1] = NewRow(h)
    BY <1>2, InsertedRow DEF RowsKept
  <2>2. NewRow(h).client = ClientId[Sub(h).body]
    BY DEF NewRow
  <2>3. \A i \in EventIds : events[i].client # NewRow(h).client
    BY <1>2, <2>2 DEF Insert, Refuses, Matching
  <2>4. ASSUME NEW i \in EventIds', NEW j \in EventIds', events'[i].client = events'[j].client
        PROVE  i = j
    <3>1. /\ i \in EventIds \/ i = Len(events) + 1
          /\ j \in EventIds \/ j = Len(events) + 1
      BY <2>1 DEF EventIds
    <3> QED
      BY <2>1, <2>3, <2>4, <3>1 DEF OneEventPerClientId
  <2> QED
    BY <2>4 DEF OneEventPerClientId
<1>3. ASSUME NEW h \in Handlers, NEW x \in Submissions, Send(h, x) \/ SendAgain(h, x)
      PROVE  UNCHANGED events
  BY <1>3 DEF Send, SendAgain, Arrive
<1>4. ASSUME NEW h \in Handlers, Acts(h), ~Insert(h) PROVE UNCHANGED events
  BY <1>3, <1>4 DEF Acts, Step, Lookup, Check, Select, InsertRefused, Count, StartCounter,
                    DeleteCommits, Store, Respond, DeleteFails, LoseAnswer, StatementFails,
                    SignalFails
<1>5. ASSUME NEW w \in Workers, Restart(w) PROVE UNCHANGED events
  BY <1>5 DEF Restart
<1>6. ASSUME NEW w \in Workers, NEW slot \in Users \X Keys, Expire(w, slot)
      PROVE  UNCHANGED events
  BY <1>6 DEF Expire
<1>7. ASSUME NEW w \in Workers, NEW u \in Users, CounterExpires(w, u) PROVE UNCHANGED events
  BY <1>7 DEF CounterExpires
<1>8. CASE UNCHANGED vars
  BY <1>1, <1>8 DEF vars
<1>9. ASSUME NEW h \in Handlers, Acts(h) PROVE OneEventPerClientId'
  BY <1>1, <1>2, <1>4, <1>9
<1> QED
  BY <1>1, <1>5, <1>6, <1>7, <1>8, <1>9 DEF Next, Acts

\* However often a submission is sent, by however many requests at a time and to
\* whichever worker process, it has one row.
THEOREM EvidenceIsUnique == Spec => []OneEventPerClientId
<1> QED
  BY MutationTypeCorrect, UniqueInit, UniqueStep, PTL DEF Spec

(****************************************************************************)
(* What answers say                                                         *)
(****************************************************************************)

\* A success names the row of the submission, or a deletion that has committed.
Claim(body, user, status, event) ==
    status \in {200, 201} =>
        IF body = NoBody THEN user \in deleted
        ELSE event \in EventIds /\ events[event].client = ClientId[body]

RequestClaim(h) == Claim(Sub(h).body, Sub(h).user, req[h].status, req[h].event)
EntryClaim(slot, entry) == Claim(entry.body, slot[1], entry.status, entry.event)
AnswerClaim(a) == /\ a.op \in {"submit", "delete"} /\ (a.op = "delete" <=> a.body = NoBody)
                  /\ Claim(a.body, a.user, a.status, a.event)

\* It holds of an answer that a request has in hand, of one that a cache holds
\* for another request, and of one that was given.
ClaimInvariant ==
    /\ \A h \in Handlers : RequestClaim(h)
    /\ \A w \in Workers, slot \in Users \X Keys : EntryClaim(slot, cache[w][slot])
    /\ \A a \in answers : AnswerClaim(a)

LEMMA ClaimStays ==
    ASSUME RowsKept, NEW body, NEW user, NEW status, NEW event, Claim(body, user, status, event)
    PROVE  Claim(body, user, status, event)'
BY DEF RowsKept, Claim, EventIds

LEMMA OutcomeClaim ==
    ASSUME TypeOK, ClaimInvariant, RowsKept, NEW h \in Handlers, NEW x \in Request, Outcome(h, x)
    PROVE  Claim(x.sub.body, x.sub.user, x.status, x.event)'
<1> DEFINE Goal == Claim(x.sub.body, x.sub.user, x.status, x.event)
<1>1. CASE Refusal(x)
  BY <1>1 DEF Refusal, Claim
<1>2. CASE x.sub = Sub(h) /\ GoesOn(h, x)
  <2>1. Goal
    BY <1>2 DEF GoesOn, ClaimInvariant, RequestClaim
  <2> QED
    BY <2>1, ClaimStays
<1>3. CASE x.sub = Sub(h) /\ Replays(h, x)
  <2>1. PICK slot \in Users \X Keys : slot = Slot(h) /\ slot[1] = Sub(h).user
    BY <1>3, RequestInHand, SubmissionFields DEF Replays, Slot
  <2>2. PICK w \in Workers : w = WorkerOf[h]
    BY RequestInHand
  <2>3. EntryClaim(slot, cache[w][slot])
    BY DEF ClaimInvariant
  <2>4. Goal
    BY <1>3, <2>1, <2>2, <2>3 DEF Replays, EntryClaim
  <2> QED
    BY <2>4, ClaimStays
<1>4. CASE x.sub = Sub(h) /\ Finds(h, x)
  <2>1. Sub(h).body # NoBody
    BY <1>4, RequestInHand, SubmissionFields DEF Finds
  <2>2. Goal
    BY <1>4, <2>1 DEF Finds, Matching, Claim
  <2> QED
    BY <2>2, ClaimStays
<1>5. CASE x.sub = Sub(h) /\ Creates(h, x)
  <2>1. Sub(h).body # NoBody
    BY <1>5, RequestInHand, SubmissionFields DEF Creates
  <2>2. /\ Len(events) \in Nat /\ Len(events') = Len(events) + 1
        /\ events'[Len(events) + 1] = NewRow(h)
    BY <1>5, InsertedRow DEF Creates, RowsKept
  <2>3. NewRow(h).client = ClientId[Sub(h).body]
    BY DEF NewRow
  <2> QED
    BY <1>5, <2>1, <2>2, <2>3 DEF Creates, Claim, EventIds
<1>6. CASE x.sub = Sub(h) /\ Deletes(h, x)
  <2>1. Sub(h).body = NoBody
    BY <1>6, RequestInHand, SubmissionFields DEF Deletes
  <2> QED
    BY <1>6, <2>1 DEF Deletes, Claim
<1> QED
  BY <1>1, <1>2, <1>3, <1>4, <1>5, <1>6 DEF Outcome

LEMMA ClaimInit == Init => ClaimInvariant
<1> SUFFICES ASSUME Init PROVE ClaimInvariant
    OBVIOUS
<1>1. ASSUME NEW h \in Handlers PROVE RequestClaim(h)
  BY IdleType DEF Init, RequestClaim, Claim
<1>2. ASSUME NEW w \in Workers, NEW slot \in Users \X Keys PROVE EntryClaim(slot, cache[w][slot])
  BY NoEntryType DEF Init, EntryClaim, Claim
<1> QED
  BY <1>1, <1>2 DEF Init, ClaimInvariant

LEMMA ClaimStep == TypeOK /\ ClaimInvariant /\ [Next]_vars => ClaimInvariant'
<1> SUFFICES ASSUME TypeOK, ClaimInvariant, [Next]_vars PROVE ClaimInvariant'
    OBVIOUS
<1>1. RowsKept
  BY RowsStep
<1>2. ASSUME NEW h \in Handlers PROVE RequestClaim(h)'
  <2>1. req'[h] \in Request /\ (req'[h] = req[h] \/ Outcome(h, req'[h]))
    BY RequestsStep
  <2>2. PICK x \in Request : x = req'[h]
    BY <2>1
  <2>3. Claim(x.sub.body, x.sub.user, x.status, x.event)'
    <3>1. CASE x = req[h]
      <4>1. Claim(x.sub.body, x.sub.user, x.status, x.event)
        BY <3>1 DEF ClaimInvariant, RequestClaim, Sub
      <4> QED
        BY <1>1, <4>1, ClaimStays
    <3>2. CASE Outcome(h, x)
      BY <1>1, <3>2, OutcomeClaim
    <3> QED
      BY <2>1, <2>2, <3>1, <3>2
  <2> QED
    BY <2>2, <2>3 DEF RequestClaim, Sub
<1>3. ASSUME NEW w \in Workers, NEW slot \in Users \X Keys
      PROVE  EntryClaim(slot, cache[w][slot])'
  <2>1. PICK entry : entry = cache'[w][slot]
    OBVIOUS
  <2>2. Claim(entry.body, slot[1], entry.status, entry.event)
    <3>1. CASE entry = cache[w][slot]
      BY <3>1 DEF ClaimInvariant, EntryClaim
    <3>2. CASE entry = NoEntry
      BY <3>2, NoEntryType DEF Claim
    <3>3. ASSUME NEW h \in Handlers, Stores(h, w, slot)
          PROVE  Claim(entry.body, slot[1], entry.status, entry.event)
      BY <2>1, <3>3 DEF ClaimInvariant, RequestClaim, Stores, EntryOf, Slot
    <3> QED
      BY <2>1, <3>1, <3>2, <3>3, CacheStep
  <2>3. Claim(entry.body, slot[1], entry.status, entry.event)'
    BY <1>1, <2>2, ClaimStays
  <2> QED
    BY <2>1, <2>3 DEF EntryClaim
<1>4. ASSUME NEW a \in answers' PROVE AnswerClaim(a)'
  <2>1. AnswerClaim(a)
    <3>1. a \in answers \/ \E h \in Handlers : pc(h) = "respond" /\ a = AnswerOf(h)
      BY AnswersStep
    <3>2. ASSUME a \in answers PROVE AnswerClaim(a)
      BY <3>2 DEF ClaimInvariant
    <3>3. ASSUME NEW h \in Handlers, a = AnswerOf(h) PROVE AnswerClaim(a)
      BY <3>3, RequestInHand, SubmissionFields DEF ClaimInvariant, RequestClaim, AnswerOf,
                                                   AnswerClaim
    <3> QED
      BY <3>1, <3>2, <3>3
  <2>2. Claim(a.body, a.user, a.status, a.event)'
    BY <1>1, <2>1, ClaimStays DEF AnswerClaim
  <2> QED
    BY <2>1, <2>2 DEF AnswerClaim
<1> QED
  BY <1>2, <1>3, <1>4 DEF ClaimInvariant

\* Replayed or not, a success is true of the very request it answers, and stays
\* true.
THEOREM SuccessesAreTrue == Spec => []AnswersAreTrue
<1>1. ClaimInvariant => AnswersAreTrue
  BY DEF ClaimInvariant, AnswerClaim, Claim, AnswersAreTrue
<1> QED
  BY <1>1, MutationTypeCorrect, ClaimInit, ClaimStep, PTL DEF Spec

(****************************************************************************)
(* Who hears 201                                                            *)
(****************************************************************************)

\* The requests and keys to which a 201 names an event: in hand, cached or given.
CreditOf(user, key, body, event) == <<user, key, body, event>>

CreditInHand(c) ==
    \E h \in Handlers : /\ req[h].status = 201
                        /\ c = CreditOf(Sub(h).user, Sub(h).key, Sub(h).body, req[h].event)

CreditCached(c) ==
    \E w \in Workers, slot \in Users \X Keys :
        /\ cache[w][slot].status = 201
        /\ c = CreditOf(slot[1], slot[2], cache[w][slot].body, cache[w][slot].event)

CreditGiven(c) ==
    \E a \in answers : a.status = 201 /\ c = CreditOf(a.user, a.key, a.body, a.event)

Credit(c) == CreditInHand(c) \/ CreditCached(c) \/ CreditGiven(c)

\* An event is credited once, and only when it exists.
CreditInvariant ==
    \A c : Credit(c) => /\ c[4] \in EventIds
                        /\ \A d : Credit(d) /\ c[4] = d[4] => c = d

\* A step credits one event at most, the one it inserts.
LEMMA OneInserts ==
    ASSUME TypeOK, NEW h \in Handlers, NEW g \in Handlers, Insert(h), Insert(g)
    PROVE  h = g
<1>1. ASSUME NEW f \in Handlers, Insert(f)
      PROVE  /\ req[f].pc = "insert" /\ req'[f].pc = "signal"
             /\ \A e \in Handlers \ {f} : req'[e] = req[e]
  <2>1. PICK i \in Nat : i = Len(events) + 1
    BY LenProperties DEF TypeOK
  <2>2. Answer(f, "signal", 201, i, FALSE)
    BY <1>1, <2>1 DEF Insert
  <2>3. PICK no \in BOOLEAN : Answer(f, "signal", 201, i, no)
    BY <2>2
  <2>4. PICK x \in Request : req' = [req EXCEPT ![f] = x] /\ x.pc = "signal"
    BY <2>3, Answered DEF Statuses
  <2> QED
    BY <1>1, <2>4 DEF TypeOK, Insert, pc
<1>2. req[g].pc = "insert" /\ req'[g].pc = "signal" /\ (g # h => req'[g] = req[g])
  BY <1>1
<1> QED
  BY <1>2

NewCredit(h) == CreditOf(Sub(h).user, Sub(h).key, Sub(h).body, Len(events) + 1)

LEMMA CreditSource ==
    ASSUME TypeOK, [Next]_vars, NEW c, Credit(c)'
    PROVE  Credit(c) \/ \E h \in Handlers : Insert(h) /\ c = NewCredit(h)
<1>1. ASSUME CreditInHand(c)'
      PROVE  Credit(c) \/ \E h \in Handlers : Insert(h) /\ c = NewCredit(h)
  <2>1. PICK h \in Handlers :
           /\ req'[h].status = 201
           /\ c = CreditOf(req'[h].sub.user, req'[h].sub.key, req'[h].sub.body, req'[h].event)
    BY <1>1 DEF CreditInHand, CreditOf, Sub
  <2>2. req'[h] = req[h] \/ Outcome(h, req'[h])
    BY RequestsStep
  <2>3. PICK x : x = req'[h]
    OBVIOUS
  <2>4. CASE x = req[h]
    BY <2>1, <2>3, <2>4 DEF Credit, CreditInHand, Sub
  <2>5. CASE x.sub = Sub(h) /\ GoesOn(h, x)
    BY <2>1, <2>3, <2>5 DEF Credit, CreditInHand, GoesOn
  <2>6. CASE x.sub = Sub(h) /\ Replays(h, x)
    <3>1. PICK w \in Workers : w = WorkerOf[h]
      BY RequestInHand
    <3>2. PICK slot \in Users \X Keys :
             slot = Slot(h) /\ slot[1] = Sub(h).user /\ slot[2] = Sub(h).key
      BY <2>6, RequestInHand, SubmissionFields DEF Replays, Slot
    <3>3. /\ cache[w][slot].status = 201
          /\ c = CreditOf(slot[1], slot[2], cache[w][slot].body, cache[w][slot].event)
      BY <2>1, <2>3, <2>6, <3>1, <3>2 DEF Replays
    <3> QED
      BY <3>3 DEF Credit, CreditCached
  <2>7. CASE x.sub = Sub(h) /\ Creates(h, x)
    BY <2>1, <2>3, <2>7 DEF Creates, NewCredit
  <2>8. ~Refusal(x) /\ ~Finds(h, x) /\ ~Deletes(h, x)
    BY <2>1, <2>3 DEF Refusal, Finds, Deletes
  <2> QED
    BY <2>2, <2>3, <2>4, <2>5, <2>6, <2>7, <2>8 DEF Outcome
<1>2. ASSUME CreditCached(c)' PROVE Credit(c)
  <2>1. PICK w \in Workers, slot \in Users \X Keys :
           /\ cache'[w][slot].status = 201
           /\ c = CreditOf(slot[1], slot[2], cache'[w][slot].body, cache'[w][slot].event)
    BY <1>2 DEF CreditCached, CreditOf
  <2>2. CASE cache'[w][slot] = cache[w][slot]
    BY <2>1, <2>2 DEF Credit, CreditCached
  <2>3. cache'[w][slot] # NoEntry
    BY <2>1, NoEntryType
  <2>4. ASSUME NEW h \in Handlers, Stores(h, w, slot) PROVE Credit(c)
    <3>1. /\ slot[1] = Sub(h).user /\ slot[2] = Sub(h).key /\ cache'[w][slot].body = Sub(h).body
          /\ cache'[w][slot].status = req[h].status /\ cache'[w][slot].event = req[h].event
      BY <2>4 DEF Stores, Slot, EntryOf
    <3> QED
      BY <2>1, <3>1 DEF Credit, CreditInHand
  <2> QED
    BY <2>2, <2>3, <2>4, CacheStep
<1>3. ASSUME CreditGiven(c)' PROVE Credit(c)
  <2>1. PICK a \in answers' : a.status = 201 /\ c = CreditOf(a.user, a.key, a.body, a.event)
    BY <1>3 DEF CreditGiven, CreditOf
  <2>2. CASE a \in answers
    BY <2>1, <2>2 DEF Credit, CreditGiven
  <2>3. ASSUME NEW h \in Handlers, a = AnswerOf(h) PROVE Credit(c)
    BY <2>1, <2>3 DEF AnswerOf, Credit, CreditInHand
  <2> QED
    BY <2>2, <2>3, AnswersStep
<1> QED
  BY <1>1, <1>2, <1>3 DEF Credit

LEMMA CreditInit == Init => CreditInvariant
<1> SUFFICES ASSUME Init, NEW c, Credit(c) PROVE FALSE
    BY DEF CreditInvariant
<1>1. ~CreditInHand(c)
  BY IdleType DEF Init, CreditInHand
<1>2. ~CreditCached(c)
  BY NoEntryType DEF Init, CreditCached
<1>3. ~CreditGiven(c)
  BY DEF Init, CreditGiven
<1> QED
  BY <1>1, <1>2, <1>3 DEF Credit

LEMMA CreditStep == TypeOK /\ CreditInvariant /\ [Next]_vars => CreditInvariant'
<1> SUFFICES ASSUME TypeOK, CreditInvariant, [Next]_vars, NEW c, Credit(c)'
             PROVE  /\ c[4] \in EventIds'
                    /\ \A d : Credit(d)' /\ c[4] = d[4] => c = d
    BY DEF CreditInvariant
<1>1. Len(events) \in Nat /\ EventIds \subseteq EventIds'
  BY RowsStep DEF RowsKept, EventIds
<1>2. ASSUME NEW b, Credit(b)
      PROVE  b[4] \in EventIds /\ b[4] # Len(events) + 1
  BY <1>1, <1>2 DEF CreditInvariant, EventIds
<1>3. ASSUME NEW h \in Handlers, Insert(h)
      PROVE  NewCredit(h)[4] = Len(events) + 1 /\ NewCredit(h)[4] \in EventIds'
  BY <1>1, <1>3, InsertedRow DEF NewCredit, CreditOf, EventIds
<1>4. c[4] \in EventIds'
  BY <1>1, <1>2, <1>3, CreditSource
<1>5. ASSUME NEW d, Credit(d)', c[4] = d[4] PROVE c = d
  <2>1. Credit(c) \/ \E h \in Handlers : Insert(h) /\ c = NewCredit(h)
    BY CreditSource
  <2>2. Credit(d) \/ \E h \in Handlers : Insert(h) /\ d = NewCredit(h)
    BY <1>5, CreditSource
  <2>3. CASE Credit(c) /\ Credit(d)
    BY <1>5, <2>3 DEF CreditInvariant
  <2>4. ASSUME NEW h \in Handlers, Insert(h), c = NewCredit(h),
               NEW g \in Handlers, Insert(g), d = NewCredit(g)
        PROVE  c = d
    BY <2>4, OneInserts
  <2> QED
    BY <1>2, <1>3, <1>5, <2>1, <2>2, <2>3, <2>4
<1> QED
  BY <1>4, <1>5

\* An event is answered with 201 to the submission that created it, under its own
\* key, and to no other.
THEOREM CreatorsAreUnique == Spec => []CreatedOnce
<1>1. CreditInvariant => CreatedOnce
  <2> SUFFICES ASSUME CreditInvariant, NEW a \in answers, NEW b \in answers,
                      a.status = 201, b.status = 201, a.event = b.event
               PROVE  a.user = b.user /\ a.key = b.key /\ a.body = b.body
    BY DEF CreatedOnce
  <2> DEFINE c == CreditOf(a.user, a.key, a.body, a.event)
             d == CreditOf(b.user, b.key, b.body, b.event)
  <2>1. Credit(c) /\ Credit(d)
    BY DEF Credit, CreditGiven
  <2>2. c[4] = d[4]
    BY DEF CreditOf
  <2>3. c = d
    BY <2>1, <2>2 DEF CreditInvariant
  <2> QED
    BY <2>3 DEF CreditOf
<1> QED
  BY <1>1, MutationTypeCorrect, CreditInit, CreditStep, PTL DEF Spec

(****************************************************************************)
(* What deleted accounts hear                                               *)
(****************************************************************************)

RequestLimit(x) ==
    /\ x.pc \in Working => x.active
    /\ x.status \in {200, 201} /\ ~x.active => x.replayed

ActivityInvariant == (\A h \in Handlers : RequestLimit(req[h])) /\ DeletedHearOnlyReplays

LEMMA ActivityInit == Init => ActivityInvariant
BY IdleType DEF Init, ActivityInvariant, RequestLimit, Working, DeletedHearOnlyReplays

LEMMA ActivityStep == TypeOK /\ ActivityInvariant /\ [Next]_vars => ActivityInvariant'
<1> SUFFICES ASSUME TypeOK, ActivityInvariant, [Next]_vars PROVE ActivityInvariant'
    OBVIOUS
<1>1. ASSUME NEW h \in Handlers PROVE RequestLimit(req'[h])
  <2>1. RequestLimit(req[h])
    BY DEF ActivityInvariant
  <2>2. req'[h] = req[h] \/ Outcome(h, req'[h])
    BY RequestsStep
  <2>3. PICK x : x = req'[h]
    OBVIOUS
  <2>4. ASSUME Refusal(x) PROVE RequestLimit(x)
    BY <2>4 DEF Refusal, RequestLimit, Working
  <2>5. ASSUME x.active = req[h].active, GoesOn(h, x) PROVE RequestLimit(x)
    BY <2>1, <2>5 DEF GoesOn, RequestLimit, pc
  <2>6. ASSUME x.active = req[h].active, Replays(h, x) PROVE RequestLimit(x)
    BY <2>6 DEF Replays, RequestLimit, Working
  <2>7. ASSUME x.active = req[h].active, Finds(h, x) \/ Creates(h, x) \/ Deletes(h, x)
        PROVE  RequestLimit(x)
    BY <2>1, <2>7 DEF Finds, Creates, Deletes, RequestLimit, Working, pc
  <2> QED
    BY <2>1, <2>2, <2>3, <2>4, <2>5, <2>6, <2>7 DEF Outcome
<1>2. ASSUME NEW a \in answers', ~a.active, a.status \in {200, 201} PROVE a.replayed
  <2>1. CASE a \in answers
    BY <1>2, <2>1 DEF ActivityInvariant, DeletedHearOnlyReplays
  <2>2. ASSUME NEW h \in Handlers, a = AnswerOf(h) PROVE a.replayed
    BY <1>2, <2>2 DEF ActivityInvariant, RequestLimit, AnswerOf
  <2> QED
    BY <2>1, <2>2, AnswersStep
<1> QED
  BY <1>1, <1>2 DEF ActivityInvariant, RequestLimit, DeletedHearOnlyReplays

\* A request that arrives after its account's deletion succeeds only by the
\* answer to an earlier one.
THEOREM DeletedAreReadOnly == Spec => []DeletedHearOnlyReplays
<1>1. ActivityInvariant => DeletedHearOnlyReplays
  BY DEF ActivityInvariant
<1> QED
  BY <1>1, MutationTypeCorrect, ActivityInit, ActivityStep, PTL DEF Spec

(****************************************************************************)
(* The abuse counter                                                        *)
(****************************************************************************)

Begins(h, x, w, u) == x.pc = "signal_init" /\ WorkerOf[h] = w /\ events[x.event].user = u

LEMMA StartingFinite ==
    ASSUME NEW w, NEW u
    PROVE  IsFiniteSet(Starting(w, u)) /\ Cardinality(Starting(w, u)) \in Nat
<1>1. Starting(w, u) \subseteq Handlers
  BY DEF Starting
<1> QED
  BY <1>1, MutationAssumption, FS_Subset, FS_CardinalityType

\* What the step of one thread makes of the requests that will start a counter.
LEMMA StartingStep ==
    ASSUME TypeOK, RowsKept, NEW h \in Handlers, NEW x, req' = [req EXCEPT ![h] = x],
           x.pc = "signal_init" => UNCHANGED events, NEW w, NEW u
    PROVE  Starting(w, u)' = IF Begins(h, x, w, u) THEN Starting(w, u) \cup {h}
                             ELSE Starting(w, u) \ {h}
<1>1. req'[h] = x /\ \A g \in Handlers \ {h} : req'[g] = req[g]
  BY DEF TypeOK
<1>2. ASSUME NEW g \in Handlers
      PROVE  g \in Starting(w, u)' <=> /\ req'[g].pc = "signal_init" /\ WorkerOf[g] = w
                                       /\ events'[req'[g].event].user = u
  BY DEF Starting, pc, Fingerprint
<1>3. ASSUME NEW g \in Handlers PROVE g \in Starting(w, u) <=> Begins(g, req[g], w, u)
  BY DEF Starting, Begins, pc, Fingerprint
<1>4. Starting(w, u)' \subseteq Handlers /\ Starting(w, u) \subseteq Handlers
  BY DEF Starting
<1>5. ASSUME NEW g \in Handlers, g # h PROVE g \in Starting(w, u)' <=> g \in Starting(w, u)
  <2>1. req[g].pc = "signal_init" => events'[req[g].event] = events[req[g].event]
    BY FingerprintType DEF RowsKept, pc
  <2> QED
    BY <1>1, <1>2, <1>3, <1>5, <2>1 DEF Begins
<1>6. h \in Starting(w, u)' <=> Begins(h, x, w, u)
  BY <1>1, <1>2 DEF Begins
<1> QED
  BY <1>4, <1>5, <1>6

\* A thread's request after Continue.
LEMMA ContinuedAs ==
    ASSUME TypeOK, NEW h \in Handlers, NEW next, Continue(h, next)
    PROVE  \E x : req' = [req EXCEPT ![h] = x] /\ x.pc = next /\ x.event = req[h].event
<1>1. PICK y \in Request : y = req[h]
  BY DEF TypeOK
<1> DEFINE x == [y EXCEPT !.pc = next]
<1>2. req' = [req EXCEPT ![h] = x]
  BY <1>1 DEF Continue
<1>3. x.pc = next /\ x.event = y.event
  BY DEF Request
<1> QED
  BY <1>1, <1>2, <1>3

LEMMA CountAlarm ==
    ASSUME TypeOK, CountedAtMostOnce, RowsKept, NEW h \in Handlers, Count(h)
    PROVE  CountedAtMostOnce'
<1>1. PICK v \in Workers, t \in Users : v = WorkerOf[h] /\ t = Fingerprint(h)
  BY RequestInHand, FingerprintType DEF Count
<1>2. PICK next : next = IF counter[v][t] = 0 THEN "signal_init" ELSE "store"
  OBVIOUS
<1>3. /\ pc(h) = "signal" /\ Continue(h, next) /\ UNCHANGED events
      /\ recorded' = [recorded EXCEPT ![v][t] = @ + 1]
      /\ counter' = [counter EXCEPT ![v][t] = IF @ = 0 THEN 0 ELSE @ + 1]
  BY <1>1, <1>2 DEF Count
<1>4. PICK x : req' = [req EXCEPT ![h] = x] /\ x.pc = next /\ x.event = req[h].event
  BY <1>3, ContinuedAs
<1>5. ASSUME NEW w \in Workers, NEW u \in Users
      PROVE  counter'[w][u] + Cardinality(Starting(w, u)') <= recorded'[w][u]
  <2>1. /\ counter[w][u] \in Nat /\ recorded[w][u] \in Nat
        /\ counter[w][u] + Cardinality(Starting(w, u)) <= recorded[w][u]
    BY DEF TypeOK, CountedAtMostOnce
  <2>2. IsFiniteSet(Starting(w, u)) /\ Cardinality(Starting(w, u)) \in Nat
    BY StartingFinite
  <2>3. h \notin Starting(w, u)
    BY <1>3 DEF Starting
  <2>4. Starting(w, u)' = IF Begins(h, x, w, u) THEN Starting(w, u) \cup {h} ELSE Starting(w, u) \ {h}
    BY <1>3, <1>4, StartingStep
  <2>5. Cardinality(Starting(w, u) \cup {h}) = Cardinality(Starting(w, u)) + 1
    BY <2>2, <2>3, FS_AddElement
  <2>6. Starting(w, u) \ {h} = Starting(w, u)
    BY <2>3
  <2>7. CASE w = v /\ u = t
    <3>1. /\ recorded'[w][u] = recorded[w][u] + 1
          /\ counter'[w][u] = IF counter[w][u] = 0 THEN 0 ELSE counter[w][u] + 1
      BY <1>3, <2>7 DEF TypeOK
    <3>2. Begins(h, x, w, u) <=> counter[w][u] = 0
      BY <1>1, <1>2, <1>4, <2>7 DEF Begins, Fingerprint
    <3>3. CASE counter[w][u] = 0
      <4>1. Cardinality(Starting(w, u)') = Cardinality(Starting(w, u)) + 1
        BY <2>4, <2>5, <3>2, <3>3
      <4> QED
        BY <2>1, <2>2, <3>1, <3>3, <4>1
    <3>4. CASE counter[w][u] # 0
      <4>1. Starting(w, u)' = Starting(w, u)
        BY <2>4, <2>6, <3>2, <3>4
      <4> QED
        BY <2>1, <2>2, <3>1, <3>4, <4>1
    <3> QED
      BY <3>3, <3>4
  <2>8. CASE w # v \/ u # t
    <3>1. recorded'[w][u] = recorded[w][u] /\ counter'[w][u] = counter[w][u]
      BY <1>3, <2>8 DEF TypeOK
    <3>2. ~Begins(h, x, w, u)
      BY <1>1, <1>4, <2>8 DEF Begins, Fingerprint
    <3> QED
      BY <2>1, <2>4, <2>6, <3>1, <3>2
  <2> QED
    BY <2>7, <2>8
<1> QED
  BY <1>5 DEF CountedAtMostOnce

LEMMA StartAlarm ==
    ASSUME TypeOK, CountedAtMostOnce, RowsKept, NEW h \in Handlers, StartCounter(h)
    PROVE  CountedAtMostOnce'
<1>1. PICK v \in Workers, t \in Users : v = WorkerOf[h] /\ t = Fingerprint(h)
  BY RequestInHand, FingerprintType DEF StartCounter
<1>2. /\ pc(h) = "signal_init" /\ Continue(h, "store") /\ UNCHANGED recorded
      /\ counter' = [counter EXCEPT ![v][t] = 1]
  BY <1>1 DEF StartCounter
<1>3. PICK x : req' = [req EXCEPT ![h] = x] /\ x.pc = "store"
  BY <1>2, ContinuedAs
<1>4. ASSUME NEW w \in Workers, NEW u \in Users
      PROVE  counter'[w][u] + Cardinality(Starting(w, u)') <= recorded'[w][u]
  <2>1. /\ counter[w][u] \in Nat /\ recorded[w][u] \in Nat
        /\ counter[w][u] + Cardinality(Starting(w, u)) <= recorded[w][u]
    BY DEF TypeOK, CountedAtMostOnce
  <2>2. IsFiniteSet(Starting(w, u)) /\ Cardinality(Starting(w, u)) \in Nat
    BY StartingFinite
  <2>3. Starting(w, u)' = Starting(w, u) \ {h}
    <3>1. ~Begins(h, x, w, u)
      BY <1>3 DEF Begins
    <3> QED
      BY <1>3, <3>1, StartingStep
  <2>4. CASE w = v /\ u = t
    <3>1. counter'[w][u] = 1 /\ recorded'[w][u] = recorded[w][u]
      BY <1>2, <2>4 DEF TypeOK
    <3>2. h \in Starting(w, u)
      BY <1>1, <1>2, <2>4 DEF Starting
    <3>3. Cardinality(Starting(w, u) \ {h}) = Cardinality(Starting(w, u)) - 1
      BY <2>2, <3>2, FS_RemoveElement
    <3> QED
      BY <2>1, <2>2, <2>3, <3>1, <3>3
  <2>5. CASE w # v \/ u # t
    <3>1. recorded'[w][u] = recorded[w][u] /\ counter'[w][u] = counter[w][u]
      BY <1>2, <2>5 DEF TypeOK
    <3>2. h \notin Starting(w, u)
      BY <1>1, <2>5 DEF Starting
    <3>3. Starting(w, u)' = Starting(w, u)
      BY <2>3, <3>2
    <3> QED
      BY <2>1, <3>1, <3>3
  <2> QED
    BY <2>4, <2>5
<1> QED
  BY <1>4 DEF CountedAtMostOnce

\* Any step that leaves the counters and lets no request begin to start one.
LEMMA QuietAlarm ==
    ASSUME TypeOK, CountedAtMostOnce, UNCHANGED signals,
           \A w \in Workers, u \in Users : Starting(w, u)' \subseteq Starting(w, u)
    PROVE  CountedAtMostOnce'
<1>1. UNCHANGED <<counter, recorded>>
  BY DEF signals
<1>2. ASSUME NEW w \in Workers, NEW u \in Users
      PROVE  counter'[w][u] + Cardinality(Starting(w, u)') <= recorded'[w][u]
  <2>1. /\ counter[w][u] \in Nat /\ recorded[w][u] \in Nat
        /\ counter[w][u] + Cardinality(Starting(w, u)) <= recorded[w][u]
    BY DEF TypeOK, CountedAtMostOnce
  <2>2. IsFiniteSet(Starting(w, u)) /\ Cardinality(Starting(w, u)) \in Nat
    BY StartingFinite
  <2>3. /\ Cardinality(Starting(w, u)') \in Nat
        /\ Cardinality(Starting(w, u)') <= Cardinality(Starting(w, u))
    BY <2>2, FS_Subset, FS_CardinalityType
  <2> QED
    BY <1>1, <2>1, <2>2, <2>3
<1> QED
  BY <1>2 DEF CountedAtMostOnce

LEMMA QuietStep ==
    ASSUME TypeOK, RowsKept, NEW h \in Handlers, Acts(h), ~Count(h), ~StartCounter(h), NEW w, NEW u
    PROVE  UNCHANGED signals /\ Starting(w, u)' \subseteq Starting(w, u)
<1>1. ASSUME NEW x, req' = [req EXCEPT ![h] = x], x.pc # "signal_init"
      PROVE  Starting(w, u)' \subseteq Starting(w, u)
  <2>1. ~Begins(h, x, w, u)
    BY <1>1 DEF Begins
  <2>2. Starting(w, u)' = Starting(w, u) \ {h}
    BY <1>1, <2>1, StartingStep
  <2> QED
    BY <2>2
<1>2. ASSUME NEW next, next # "signal_init", Continue(h, next)
      PROVE  Starting(w, u)' \subseteq Starting(w, u)
  BY <1>1, <1>2, ContinuedAs
<1>3. ASSUME NEW next, next # "signal_init", NEW status, NEW event, NEW replayed,
             Answer(h, next, status, event, replayed)
      PROVE  Starting(w, u)' \subseteq Starting(w, u)
  <2>1. PICK y \in Request : y = req[h]
    BY DEF TypeOK
  <2> DEFINE x == [y EXCEPT !.pc = next, !.status = status, !.event = event,
                            !.replayed = replayed]
  <2>2. req' = [req EXCEPT ![h] = x]
    BY <1>3, <2>1 DEF Answer
  <2>3. x.pc = next
    BY DEF Request
  <2> QED
    BY <1>1, <1>3, <2>2, <2>3
<1>4. ASSUME NEW x \in Submissions, Arrive(h, x)
      PROVE  UNCHANGED signals /\ Starting(w, u)' \subseteq Starting(w, u)
  <2>1. PICK next \in {"lookup", "respond"}, active \in BOOLEAN :
           req' = [req EXCEPT ![h] = [Idle EXCEPT !.pc = next, !.sub = x, !.active = active]]
    BY <1>4 DEF Arrive
  <2> DEFINE y == [Idle EXCEPT !.pc = next, !.sub = x, !.active = active]
  <2>2. y.pc = next
    BY IdleType DEF Request
  <2>3. Starting(w, u)' \subseteq Starting(w, u)
    BY <1>1, <2>1, <2>2
  <2> QED
    BY <1>4, <2>3 DEF Arrive
<1>5. CASE Lookup(h) \/ Check(h)
  BY <1>2, <1>3, <1>5 DEF Lookup, Check
<1>6. CASE Select(h) \/ Insert(h) \/ InsertRefused(h)
  BY <1>2, <1>3, <1>6 DEF Select, Insert, InsertRefused
<1>7. CASE DeleteCommits(h) \/ Store(h) \/ DeleteFails(h) \/ StatementFails(h) \/ SignalFails(h)
  BY <1>2, <1>3, <1>7 DEF DeleteCommits, Store, DeleteFails, StatementFails, SignalFails
<1>8. CASE Respond(h) \/ LoseAnswer(h)
  BY <1>1, <1>8, IdleType DEF Respond, LoseAnswer
<1> QED
  BY <1>4, <1>5, <1>6, <1>7, <1>8 DEF Acts, Step, Send, SendAgain

LEMMA AlarmInit == Init => CountedAtMostOnce
<1> SUFFICES ASSUME Init, NEW w \in Workers, NEW u \in Users
             PROVE  counter[w][u] + Cardinality(Starting(w, u)) <= recorded[w][u]
    BY DEF CountedAtMostOnce
<1>1. Starting(w, u) = {}
  BY IdleType DEF Init, Starting, pc
<1> QED
  BY <1>1, FS_EmptySet DEF Init

LEMMA AlarmStep == TypeOK /\ CountedAtMostOnce /\ [Next]_vars => CountedAtMostOnce'
<1> SUFFICES ASSUME TypeOK, CountedAtMostOnce, [Next]_vars PROVE CountedAtMostOnce'
    OBVIOUS
<1>0. RowsKept
  BY RowsStep
<1>1. ASSUME NEW h \in Handlers, Acts(h) PROVE CountedAtMostOnce'
  <2>1. CASE Count(h)
    BY <1>0, <2>1, CountAlarm
  <2>2. CASE StartCounter(h)
    BY <1>0, <2>2, StartAlarm
  <2>3. CASE ~Count(h) /\ ~StartCounter(h)
    BY <1>0, <1>1, <2>3, QuietStep, QuietAlarm
  <2> QED
    BY <2>1, <2>2, <2>3
<1>2. ASSUME UNCHANGED <<signals, req, events>> PROVE CountedAtMostOnce'
  <2>1. \A w \in Workers, u \in Users : Starting(w, u)' \subseteq Starting(w, u)
    BY <1>2 DEF Starting, pc, Fingerprint
  <2> QED
    BY <1>2, <2>1, QuietAlarm
<1>3. ASSUME NEW v \in Workers, Restart(v) PROVE CountedAtMostOnce'
  <2>1. /\ counter' = [counter EXCEPT ![v] = [u \in Users |-> 0]]
        /\ recorded' = [recorded EXCEPT ![v] = [u \in Users |-> 0]]
        /\ \A h \in Handlers : req'[h] = IF WorkerOf[h] = v THEN Idle ELSE req[h]
        /\ UNCHANGED events
    BY <1>3 DEF Restart
  <2>2. ASSUME NEW w \in Workers, NEW u \in Users
        PROVE  counter'[w][u] + Cardinality(Starting(w, u)') <= recorded'[w][u]
    <3>1. CASE w = v
      <4>1. Starting(w, u)' = {}
        BY <2>1, <3>1, IdleType DEF Starting, pc
      <4>2. counter'[w][u] = 0 /\ recorded'[w][u] = 0
        BY <2>1, <3>1 DEF TypeOK
      <4> QED
        BY <4>1, <4>2, FS_EmptySet
    <3>2. CASE w # v
      <4>1. Starting(w, u)' = Starting(w, u)
        BY <2>1, <3>2 DEF Starting, pc, Fingerprint
      <4>2. counter'[w][u] = counter[w][u] /\ recorded'[w][u] = recorded[w][u]
        BY <2>1, <3>2 DEF TypeOK
      <4> QED
        BY <4>1, <4>2 DEF CountedAtMostOnce
    <3> QED
      BY <3>1, <3>2
  <2> QED
    BY <2>2 DEF CountedAtMostOnce
<1>4. ASSUME NEW v \in Workers, NEW t \in Users, CounterExpires(v, t) PROVE CountedAtMostOnce'
  <2>1. PICK n : n = Cardinality(Starting(v, t))
    OBVIOUS
  <2>2. /\ counter' = [counter EXCEPT ![v][t] = 0] /\ recorded' = [recorded EXCEPT ![v][t] = n]
        /\ UNCHANGED <<req, events>>
    BY <1>4, <2>1 DEF CounterExpires
  <2>3. ASSUME NEW w \in Workers, NEW u \in Users
        PROVE  counter'[w][u] + Cardinality(Starting(w, u)') <= recorded'[w][u]
    <3>1. Starting(w, u)' = Starting(w, u)
      BY <2>2 DEF Starting, pc, Fingerprint
    <3>2. Cardinality(Starting(w, u)) \in Nat
      BY StartingFinite
    <3>3. CASE w = v /\ u = t
      <4>1. counter'[w][u] = 0 /\ recorded'[w][u] = Cardinality(Starting(w, u))
        BY <2>1, <2>2, <3>3 DEF TypeOK
      <4> QED
        BY <3>1, <3>2, <4>1
    <3>4. CASE w # v \/ u # t
      <4>1. counter'[w][u] = counter[w][u] /\ recorded'[w][u] = recorded[w][u]
        BY <2>2, <3>4 DEF TypeOK
      <4> QED
        BY <3>1, <4>1 DEF CountedAtMostOnce
    <3> QED
      BY <3>3, <3>4
  <2> QED
    BY <2>3 DEF CountedAtMostOnce
<1>5. ASSUME NEW w \in Workers, NEW slot \in Users \X Keys, Expire(w, slot) PROVE CountedAtMostOnce'
  BY <1>2, <1>5 DEF Expire
<1>6. CASE UNCHANGED vars
  BY <1>2, <1>6 DEF vars
<1> QED
  BY <1>1, <1>3, <1>4, <1>5, <1>6 DEF Next, Acts

\* Lost counts or not, the counter of a fingerprint never exceeds the submissions
\* recorded on it in its window, from whichever accounts they come.
THEOREM AlarmsAreEarned == Spec => []CountedAtMostOnce
<1> QED
  BY MutationTypeCorrect, AlarmInit, AlarmStep, PTL DEF Spec
=============================================================================
