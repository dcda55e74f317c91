----------------------- MODULE AccountCreationProofs -----------------------
(****************************************************************************)
(* Theorems about AccountCreation, for every set of accounts, emails,       *)
(* usernames and concurrent requests that CreationAssumption allows, among  *)
(* them emails that share a local part.                                     *)
(****************************************************************************)
EXTENDS AccountCreation, TLAPS

(****************************************************************************)
(* The inductive invariant                                                  *)
(****************************************************************************)

\* A request works on a row that exists, unless it is inserting it.
WorksOnRow ==
    \A r \in Requests :
        pc(r) \in {"touch", "issue", "delete_clear", "delete_commit"} /\ ~req[r].created
            => Exists(req[r].user)

\* The row that a link has found has its email, until it is anonymised.
FoundIsOwn ==
    \A r \in Requests :
        pc(r) \in {"touch", "issue"} /\ ~req[r].created
            => users[req[r].user].email \in {req[r].email, Nobody}

\* Whoever got an account with this email since the lookup has the username, too,
\* and the INSERT will be refused.
RivalHoldsName ==
    \A r \in Requests :
        pc(r) = "insert" => \A u \in Bearers(req[r].email) : users[u].name = LocalPart[req[r].email]

\* A row that a transaction has inserted is the only one with its email.
InsertedAlone ==
    \A r \in Requests : req[r].created =>
        /\ ~Exists(req[r].user)
        /\ Bearers(req[r].email) = {}
        /\ \A q \in Requests \ {r} : req[q].created => /\ req[q].email # req[r].email
                                                       /\ req[q].user # req[r].user

CreationInvariant == WorksOnRow /\ FoundIsOwn /\ RivalHoldsName /\ InsertedAlone

(****************************************************************************)
(* Type correctness                                                         *)
(****************************************************************************)

\* The row that a transaction is about to commit is a row.
LEMMA OpenRowType ==
    ASSUME TypeOK, WorksOnRow, NEW r \in Requests, HasWritten(r)
    PROVE  OpenRow(r) \in Row
<1>1. CASE req[r].created
  BY <1>1, CreationAssumption DEF TypeOK, RequestTypeOK, OpenRow, Row
<1>2. CASE ~req[r].created
  BY <1>2, CreationAssumption
     DEF TypeOK, RequestTypeOK, WorksOnRow, Exists, HasWritten, OpenRow, Row
<1> QED
  BY <1>1, <1>2

LEMMA InitCorrect == Init => TypeOK /\ CreationInvariant /\ OneAccountPerEmail
BY CreationAssumption
   DEF Init, TypeOK, RequestTypeOK, CreationInvariant, WorksOnRow, FoundIsOwn, RivalHoldsName,
       InsertedAlone, OneAccountPerEmail, Exists, Idle, pc

LEMMA TypeStep == TypeOK /\ WorksOnRow /\ [Next]_vars => TypeOK'
<1> SUFFICES ASSUME TypeOK, WorksOnRow, [Next]_vars PROVE TypeOK'
    OBVIOUS
<1> USE DEF TypeOK, RequestTypeOK, pc
<1>1. ASSUME NEW r \in Requests, NEW e \in Emails, OpenLink(r, e) PROVE TypeOK'
  BY <1>1 DEF OpenLink, Idle
<1>2. ASSUME NEW r \in Requests, NEW u \in UserIds, Delete(r, u) PROVE TypeOK'
  BY <1>2 DEF Delete, Idle
<1>3. ASSUME NEW r \in Requests, Found(r) PROVE TypeOK'
  <2>1. PICK u \in UserIds : req' = [req EXCEPT ![r].pc = "touch", ![r].user = u]
    BY <1>3 DEF Found, Chosen, Bearers
  <2>2. req[r].email \in Emails /\ ~req[r].created
    BY <1>3 DEF Found
  <2> QED
    BY <1>3, <2>1, <2>2 DEF Found
<1>4. ASSUME NEW r \in Requests, FoundNone(r) \/ InsertRefused(r) \/ Touch(r) \/ DeleteClear(r)
      PROVE TypeOK'
  BY <1>4 DEF FoundNone, InsertRefused, Touch, DeleteClear, Goto
<1>5. ASSUME NEW r \in Requests, Insert(r) PROVE TypeOK'
  BY <1>5 DEF Insert, FreshIds
<1>6. ASSUME NEW r \in Requests, GiveUp(r) \/ Fails(r) PROVE TypeOK'
  <2>1. CASE GiveUp(r)
    BY <2>1 DEF GiveUp, Refused, Idle
  <2>2. CASE Fails(r)
    BY <2>2 DEF Fails, Idle
  <2> QED
    BY <1>6, <2>1, <2>2
<1>7. ASSUME NEW r \in Requests, Issue(r) PROVE TypeOK'
  <2>1. OpenRow(r) \in Row
    BY <1>7, OpenRowType DEF Issue, HasWritten
  <2> QED
    BY <1>7, <2>1 DEF Issue, Idle
<1>8. ASSUME NEW r \in Requests, DeleteCommit(r) PROVE TypeOK'
  BY <1>8 DEF DeleteCommit, Idle, Anonymised, Row
<1>9. CASE UNCHANGED vars
  BY <1>9 DEF vars
<1> QED
  BY <1>1, <1>2, <1>3, <1>4, <1>5, <1>6, <1>7, <1>8, <1>9 DEF Next, Statement

(****************************************************************************)
(* What the steps do to the rows                                            *)
(****************************************************************************)

\* Only a commit changes rows.  It adds the row that the request has inserted, or
\* anonymises one, or (the UPDATE of a found row) changes none.
LEMMA RowsChange ==
    ASSUME TypeOK, [Next]_vars
    PROVE  \/ UNCHANGED users
           \/ \E r \in Requests : /\ Issue(r) /\ req[r].created
                                  /\ users' = [users EXCEPT ![req[r].user] =
                                                  [email |-> req[r].email,
                                                   name |-> LocalPart[req[r].email]]]
           \/ \E r \in Requests : /\ DeleteCommit(r)
                                  /\ users' = [users EXCEPT ![req[r].user] = Anonymised]
<1>1. ASSUME NEW r \in Requests, Issue(r), ~req[r].created PROVE UNCHANGED users
  BY <1>1 DEF Issue, OpenRow, TypeOK, RequestTypeOK
<1>2. ASSUME NEW r \in Requests, Issue(r), req[r].created
      PROVE  users' = [users EXCEPT ![req[r].user] = [email |-> req[r].email,
                                                       name |-> LocalPart[req[r].email]]]
  BY <1>2 DEF Issue, OpenRow
<1>3. ASSUME NEW r \in Requests, DeleteCommit(r)
      PROVE  users' = [users EXCEPT ![req[r].user] = Anonymised]
  BY <1>3 DEF DeleteCommit
<1>4. ASSUME NEW r \in Requests, ~Issue(r), ~DeleteCommit(r),
             \/ \E e \in Emails : OpenLink(r, e)
             \/ \E u \in UserIds : Delete(r, u)
             \/ Statement(r) \/ Fails(r)
      PROVE  UNCHANGED users
  BY <1>4 DEF OpenLink, Delete, Statement, Fails, Found, FoundNone, Insert, InsertRefused,
              GiveUp, Touch, DeleteClear
<1> QED
  BY <1>1, <1>2, <1>3, <1>4 DEF Next, vars

\* A row that exists keeps its contents or is anonymised.
LEMMA RowsPersist ==
    ASSUME TypeOK, InsertedAlone, [Next]_vars, NEW u \in UserIds, Exists(u)
    PROVE  users'[u] # Absent /\ users'[u] \in {users[u], Anonymised}
<1> USE DEF TypeOK, Exists
<1>1. ASSUME NEW r \in Requests, Issue(r), req[r].created,
             users' = [users EXCEPT ![req[r].user] = [email |-> req[r].email,
                                                      name |-> LocalPart[req[r].email]]]
      PROVE  users'[u] = users[u]
  BY <1>1 DEF InsertedAlone
<1>2. ASSUME NEW r \in Requests, users' = [users EXCEPT ![req[r].user] = Anonymised]
      PROVE  users'[u] \in {users[u], Anonymised}
  BY <1>2
<1>3. users'[u] \in {users[u], Anonymised}
  BY <1>1, <1>2, RowsChange
<1>4. Anonymised # Absent
  BY CreationAssumption DEF Anonymised
<1> QED
  BY <1>3, <1>4

\* A row that comes to exist is the one that a request has inserted.
LEMMA RowsAppear ==
    ASSUME TypeOK, WorksOnRow, [Next]_vars, NEW u \in UserIds, ~Exists(u), users'[u] # Absent
    PROVE  \E r \in Requests : /\ Issue(r) /\ req[r].created /\ req[r].user = u
                              /\ users'[u] = [email |-> req[r].email,
                                             name |-> LocalPart[req[r].email]]
<1> USE DEF TypeOK, Exists
<1>1. ASSUME NEW r \in Requests, DeleteCommit(r),
             users' = [users EXCEPT ![req[r].user] = Anonymised]
      PROVE  FALSE
  BY <1>1 DEF DeleteCommit, WorksOnRow, RequestTypeOK, pc
<1>2. PICK r \in Requests : /\ Issue(r) /\ req[r].created
                            /\ users' = [users EXCEPT ![req[r].user] =
                                            [email |-> req[r].email,
                                             name |-> LocalPart[req[r].email]]]
  BY <1>1, RowsChange
<1>3. req[r].user = u
  BY <1>2
<1> QED
  BY <1>2, <1>3

(****************************************************************************)
(* What the steps do to a request                                           *)
(****************************************************************************)

\* The request q has moved: where to, and what was the case then.
Moved(q) ==
    \/ pc(q)' = "idle" /\ req'[q].user = Absent
    \/ pc(q)' = "refused" /\ req'[q].user = Absent /\ Bearers(req[q].email) = {}
    \/ pc(q)' = "get"
    \/ pc(q)' = "get_again"
    \/ /\ pc(q)' = "touch" /\ req'[q].email = req[q].email
       /\ req'[q].user \in Bearers(req[q].email)
    \/ /\ pc(q)' = "insert" /\ req'[q].email = req[q].email
       /\ Bearers(req[q].email) = {}
    \/ /\ pc(q)' = "issue" /\ pc(q) = "touch" /\ ~req[q].created /\ ~req'[q].created
       /\ req'[q].email = req[q].email /\ req'[q].user = req[q].user
    \/ /\ pc(q)' \in {"delete_clear", "delete_commit"}
       /\ Exists(req'[q].user)

\* The request q has inserted a row.
Inserted(q) ==
    /\ pc(q) = "insert" /\ pc(q)' = "issue" /\ req'[q].created
    /\ req'[q].email = req[q].email /\ req'[q].user \in FreshIds
    /\ NameFree(q, LocalPart[req[q].email]) /\ Holders(LocalPart[req[q].email]) = {}

LEMMA Moves ==
    ASSUME TypeOK, WorksOnRow, [Next]_vars, NEW q \in Requests, req'[q] # req[q]
    PROVE  /\ \A p \in Requests \ {q} : req'[p] = req[p]
           /\ \/ Moved(q) /\ ~req'[q].created
              \/ Inserted(q)
           /\ ~Ended(q)' => UNCHANGED users
<1> DEFINE Acts(r) == \/ \E e \in Emails : OpenLink(r, e)
                      \/ \E u \in UserIds : Delete(r, u)
                      \/ Statement(r) \/ Fails(r)
<1>1. ASSUME NEW r \in Requests, Acts(r) PROVE \A p \in Requests \ {r} : req'[p] = req[p]
  BY <1>1 DEF TypeOK, OpenLink, Delete, Statement, Fails, Found, FoundNone, Insert,
              InsertRefused, GiveUp, Touch, DeleteClear, DeleteCommit, Issue, Goto
<1>2. Acts(q)
  BY <1>1 DEF Next, vars
<1> USE DEF TypeOK, RequestTypeOK, pc
<1>3. CASE \E e \in Emails : OpenLink(q, e)
  BY <1>1, <1>2, <1>3 DEF OpenLink, Idle, Moved, Ended
<1>4. CASE \E u \in UserIds : Delete(q, u)
  <2>1. PICK u \in UserIds : Exists(u) /\ UNCHANGED users
           /\ req' = [req EXCEPT ![q] = [Idle EXCEPT !.pc = "delete_clear", !.user = u]]
    BY <1>4 DEF Delete
  <2> QED
    BY <1>1, <1>2, <2>1 DEF Idle, Moved, Ended
<1>5. CASE Found(q)
  BY <1>1, <1>2, <1>5 DEF Found, Chosen, Moved, Ended
<1>6. CASE FoundNone(q) \/ InsertRefused(q)
  BY <1>1, <1>2, <1>6 DEF FoundNone, InsertRefused, Goto, Chosen, Moved, Ended
<1>7. CASE Insert(q)
  BY <1>1, <1>2, <1>7 DEF Insert, Inserted, Ended, FreshIds
<1>8. CASE Touch(q) \/ DeleteClear(q)
  BY <1>1, <1>2, <1>8 DEF Touch, DeleteClear, Goto, Moved, Ended, WorksOnRow
<1>9. CASE Fails(q) \/ Issue(q) \/ DeleteCommit(q)
  <2>1. req'[q] = Idle
    BY <1>9 DEF Fails, Issue, DeleteCommit
  <2> QED
    BY <1>1, <1>2, <2>1 DEF Idle, Ended, Moved
<1>10. CASE GiveUp(q)
  <2>1. req'[q] = Refused /\ Bearers(req[q].email) = {}
    BY <1>10 DEF GiveUp, Chosen
  <2> QED
    BY <1>1, <1>2, <2>1 DEF Idle, Refused, Ended, Moved
<1> QED
  BY <1>2, <1>3, <1>4, <1>5, <1>6, <1>7, <1>8, <1>9, <1>10 DEF Statement

(****************************************************************************)
(* Every step preserves the invariant                                       *)
(****************************************************************************)

LEMMA WorksOnRowStep == TypeOK /\ CreationInvariant /\ [Next]_vars => WorksOnRow'
<1> SUFFICES ASSUME TypeOK, CreationInvariant, [Next]_vars, NEW q \in Requests,
                    pc(q)' \in {"touch", "issue", "delete_clear", "delete_commit"},
                    ~req'[q].created
             PROVE  users'[req'[q].user] # Absent
    BY DEF WorksOnRow, Exists
<1> USE DEF CreationInvariant
<1>1. CASE req'[q] = req[q]
  <2>1. Exists(req[q].user) /\ req[q].user \in UserIds
    BY <1>1 DEF WorksOnRow, TypeOK, RequestTypeOK, pc
  <2> QED
    BY <1>1, <2>1, RowsPersist
<1>2. CASE req'[q] # req[q]
  <2>1. Moved(q) /\ UNCHANGED users
    BY <1>2, Moves DEF Inserted, Ended, pc
  <2> QED
    BY <2>1 DEF Moved, Ended, WorksOnRow, Bearers, Exists, pc
<1> QED
  BY <1>1, <1>2

LEMMA FoundIsOwnStep == TypeOK /\ CreationInvariant /\ [Next]_vars => FoundIsOwn'
<1> SUFFICES ASSUME TypeOK, CreationInvariant, [Next]_vars, NEW q \in Requests,
                    pc(q)' \in {"touch", "issue"}, ~req'[q].created
             PROVE  users'[req'[q].user].email \in {req'[q].email, Nobody}
    BY DEF FoundIsOwn
<1> USE DEF CreationInvariant
<1>1. CASE req'[q] = req[q]
  <2>1. Exists(req[q].user) /\ req[q].user \in UserIds
    BY <1>1 DEF WorksOnRow, TypeOK, RequestTypeOK, pc
  <2>2. users'[req[q].user] \in {users[req[q].user], Anonymised}
    BY <2>1, RowsPersist
  <2> QED
    BY <1>1, <2>2 DEF FoundIsOwn, Anonymised, pc
<1>2. CASE req'[q] # req[q]
  <2>1. Moved(q) /\ UNCHANGED users
    BY <1>2, Moves DEF Inserted, Ended, pc
  <2> QED
    BY <2>1 DEF Moved, Ended, FoundIsOwn, Bearers, pc
<1> QED
  BY <1>1, <1>2

\* A row that bears an address either bore it before or was just inserted.
LEMMA BearersChange ==
    ASSUME TypeOK, CreationInvariant, [Next]_vars, NEW e \in Emails,
           NEW u \in UserIds, users'[u] # Absent, users'[u].email = e
    PROVE  \/ u \in Bearers(e) /\ users'[u] = users[u]
           \/ \E r \in Requests :
                 /\ Issue(r) /\ req[r].created /\ req[r].user = u /\ req[r].email = e
                 /\ users'[u] = [email |-> e, name |-> LocalPart[e]]
<1> USE DEF CreationInvariant
<1>1. CASE Exists(u)
  <2>1. users'[u] \in {users[u], Anonymised}
    BY <1>1, RowsPersist
  <2>2. users'[u] # Anonymised
    BY CreationAssumption DEF Anonymised
  <2> QED
    BY <1>1, <2>1, <2>2 DEF Bearers
<1>2. CASE ~Exists(u)
  <2>1. PICK r \in Requests : /\ Issue(r) /\ req[r].created /\ req[r].user = u
                              /\ users'[u] = [email |-> req[r].email,
                                             name |-> LocalPart[req[r].email]]
    BY <1>2, RowsAppear
  <2>2. req[r].email = e
    BY <2>1
  <2> QED
    BY <1>2, <2>1, <2>2
<1> QED
  BY <1>1, <1>2

LEMMA RivalHoldsNameStep == TypeOK /\ CreationInvariant /\ [Next]_vars => RivalHoldsName'
<1> SUFFICES ASSUME TypeOK, CreationInvariant, [Next]_vars, NEW q \in Requests,
                    pc(q)' = "insert", NEW u \in UserIds,
                    users'[u] # Absent, users'[u].email = req'[q].email
             PROVE  users'[u].name = LocalPart[req'[q].email]
    BY DEF RivalHoldsName, Bearers, Exists
<1>1. CASE req'[q] = req[q]
  <2>1. PICK e \in Emails : e = req[q].email
    BY <1>1 DEF TypeOK, RequestTypeOK, pc
  <2>2. CASE u \in Bearers(e) /\ users'[u] = users[u]
    BY <1>1, <2>1, <2>2 DEF CreationInvariant, RivalHoldsName, pc
  <2>3. CASE users'[u] = [email |-> e, name |-> LocalPart[e]]
    BY <1>1, <2>1, <2>3
  <2>4. users'[u].email = e
    BY <1>1, <2>1
  <2> QED
    BY <2>2, <2>3, <2>4, BearersChange
<1>2. CASE req'[q] # req[q]
  <2>1. Moved(q) /\ UNCHANGED users
    BY <1>2, Moves DEF CreationInvariant, Inserted, Ended, pc
  <2> QED
    BY <2>1 DEF Moved, Ended, Bearers, Exists, pc
<1> QED
  BY <1>1, <1>2

\* The unique username keeps two open transactions from inserting one email.
LEMMA InsertsDiffer ==
    ASSUME TypeOK, NEW q \in Requests, NEW r \in Requests \ {q}, req[r].created, Inserted(q)
    PROVE  req'[q].email # req[r].email /\ req'[q].user # req[r].user
<1>1. HasWritten(r) /\ OpenRow(r).name = LocalPart[req[r].email]
  BY DEF TypeOK, RequestTypeOK, HasWritten, OpenRow
<1> QED
  BY <1>1 DEF Inserted, NameFree, FreshIds

LEMMA InsertedAloneStep == TypeOK /\ CreationInvariant /\ [Next]_vars => InsertedAlone'
<1> SUFFICES ASSUME TypeOK, CreationInvariant, [Next]_vars, NEW r \in Requests,
                    req'[r].created
             PROVE  /\ users'[req'[r].user] = Absent
                    /\ \A u \in UserIds : users'[u] # Absent => users'[u].email # req'[r].email
                    /\ \A q \in Requests \ {r} : req'[q].created =>
                          req'[q].email # req'[r].email /\ req'[q].user # req'[r].user
    BY DEF InsertedAlone, Bearers, Exists
<1> USE DEF CreationInvariant
<1>1. CASE req'[r] = req[r]
  <2>1. pc(r) = "issue" /\ req[r].email \in Emails /\ req[r].user \in UserIds
    BY <1>1 DEF TypeOK, RequestTypeOK, pc
  <2>2. ~Issue(r)
    BY <1>1 DEF Issue, Idle, TypeOK
  <2>3. users'[req[r].user] = Absent
    <3>1. PICK u \in UserIds : u = req[r].user
      BY <2>1
    <3>2. ~Exists(u) /\ \A q \in Requests : Issue(q) /\ req[q].created => req[q].user # u
      BY <1>1, <2>2, <3>1 DEF InsertedAlone
    <3> QED
      BY <3>1, <3>2, RowsAppear
  <2>4. ASSUME NEW u \in UserIds, users'[u] # Absent PROVE users'[u].email # req[r].email
    <3>1. SUFFICES ASSUME NEW e \in Emails, e = req[r].email, users'[u].email = e
                   PROVE  FALSE
      BY <2>1
    <3>2. Bearers(e) = {} /\ \A q \in Requests : Issue(q) /\ req[q].created => req[q].email # e
      BY <1>1, <2>2, <3>1 DEF InsertedAlone
    <3> QED
      BY <2>4, <3>1, <3>2, BearersChange
  <2>5. ASSUME NEW q \in Requests \ {r}, req'[q].created
        PROVE  req'[q].email # req'[r].email /\ req'[q].user # req'[r].user
    <3>1. CASE req'[q] = req[q]
      BY <1>1, <2>5, <3>1 DEF InsertedAlone
    <3>2. CASE req'[q] # req[q]
      BY <1>1, <2>5, <3>2, Moves, InsertsDiffer
    <3> QED
      BY <3>1, <3>2
  <2> QED
    BY <1>1, <2>3, <2>4, <2>5
<1>2. CASE req'[r] # req[r]
  <2>1. Inserted(r) /\ UNCHANGED users /\ \A q \in Requests \ {r} : req'[q] = req[q]
    BY <1>2, Moves DEF Inserted, Ended, pc
  <2>2. Bearers(req[r].email) = {}
    BY <2>1 DEF Inserted, RivalHoldsName, Bearers, Holders
  <2>3. users'[req'[r].user] = Absent
    BY <2>1 DEF Inserted, FreshIds, Exists
  <2>4. \A q \in Requests \ {r} : req'[q].created =>
           req'[q].email # req'[r].email /\ req'[q].user # req'[r].user
    BY <2>1, InsertsDiffer
  <2> QED
    BY <2>1, <2>2, <2>3, <2>4 DEF Inserted, Bearers, Exists
<1> QED
  BY <1>1, <1>2

LEMMA CreationStep ==
    TypeOK /\ CreationInvariant /\ [Next]_vars => TypeOK' /\ CreationInvariant'
BY TypeStep, WorksOnRowStep, FoundIsOwnStep, RivalHoldsNameStep, InsertedAloneStep
   DEF CreationInvariant

\* Before a row bears a new address, a request has inserted it.
LEMMA NewBearer ==
    ASSUME TypeOK, CreationInvariant, [Next]_vars, NEW e \in Emails,
           NEW u \in UserIds, users'[u] # Absent, users'[u].email = e, u \notin Bearers(e)
    PROVE  \E r \in Requests : req[r].created /\ req[r].email = e /\ req[r].user = u
<1>1. \/ u \in Bearers(e) /\ users'[u] = users[u]
      \/ \E r \in Requests :
            /\ Issue(r) /\ req[r].created /\ req[r].user = u /\ req[r].email = e
            /\ users'[u] = [email |-> e, name |-> LocalPart[e]]
  BY BearersChange
<1> QED
  BY <1>1

\* No step gives a second row an address.
LEMMA OneAccountStep ==
    TypeOK /\ CreationInvariant /\ OneAccountPerEmail /\ [Next]_vars => OneAccountPerEmail'
<1> SUFFICES ASSUME TypeOK, CreationInvariant, OneAccountPerEmail, [Next]_vars,
                    NEW u \in UserIds, NEW v \in UserIds, NEW e \in Emails,
                    users'[u] # Absent, users'[v] # Absent, users'[u].email = e, users'[v].email = e
             PROVE  u = v
    BY DEF OneAccountPerEmail, Exists
<1>1. CASE u \in Bearers(e) /\ v \in Bearers(e)
  BY <1>1 DEF OneAccountPerEmail, Bearers
<1>2. CASE ~(u \in Bearers(e) /\ v \in Bearers(e))
  <2>1. PICK r \in Requests : req[r].created /\ req[r].email = e
    BY <1>2, NewBearer
  <2>2. Bearers(e) = {}
    BY <2>1 DEF CreationInvariant, InsertedAlone
  <2>3. PICK p \in Requests : req[p].created /\ req[p].email = e /\ req[p].user = u
    BY <2>2, NewBearer
  <2>4. PICK q \in Requests : req[q].created /\ req[q].email = e /\ req[q].user = v
    BY <2>2, NewBearer
  <2> QED
    BY <2>3, <2>4 DEF CreationInvariant, InsertedAlone
<1> QED
  BY <1>1, <1>2

(****************************************************************************)
(* The theorems                                                             *)
(****************************************************************************)

\* Every request has what its next statement needs (api/views/auth.py:223-258).
THEOREM CreationTypeCorrect == Spec => []TypeOK
<1>1. Spec => [](TypeOK /\ CreationInvariant)
  BY InitCorrect, CreationStep, PTL DEF Spec
<1> QED
  BY <1>1, PTL

\* Who is about to insert an account does so only while the email has none, and
\* who has found one works on that one (api/views/auth.py:223-245).
THEOREM CreationCorrect == Spec => []CreationInvariant
BY InitCorrect, CreationStep, PTL DEF Spec

\* However many links to one address are opened at once, it gets one account
\* (api/views/auth.py:223-229).
THEOREM AccountsAreUnique == Spec => []OneAccountPerEmail
BY InitCorrect, OneAccountStep, CreationTypeCorrect, CreationCorrect, PTL DEF Spec

\* A link opens no account but the one of its address (api/views/auth.py:223-258).
THEOREM LinksOpenTheirAccount == Spec => []SessionsAreOwn
<1>1. TypeOK /\ CreationInvariant => SessionsAreOwn
  BY DEF TypeOK, RequestTypeOK, CreationInvariant, FoundIsOwn, SessionsAreOwn, OpenRow, pc
<1> QED
  BY <1>1, CreationTypeCorrect, CreationCorrect, PTL

\* The loser of the race to create an account is not turned away
\* (api/views/auth.py:223).
THEOREM LosersSignIn == Spec => RefusedOnlyWithoutAccount
<1>1. ASSUME TypeOK, WorksOnRow, [Next]_vars, NEW r \in Requests, ~Ended(r),
             pc(r)' = "refused"
      PROVE  Bearers(req[r].email) = {}
  <2>1. req'[r] # req[r]
    BY <1>1 DEF Ended, pc
  <2>2. Moved(r)
    BY <1>1, <2>1, Moves DEF Inserted, pc
  <2> QED
    BY <1>1, <2>2 DEF Moved, pc
<1>2. TypeOK /\ CreationInvariant /\ [Next]_vars =>
         [\A r \in Requests : ~Ended(r) /\ pc(r)' = "refused" => Bearers(req[r].email) = {}]_vars
  BY <1>1 DEF CreationInvariant
<1> QED
  BY <1>2, CreationTypeCorrect, CreationCorrect, PTL DEF Spec, RefusedOnlyWithoutAccount
=============================================================================
