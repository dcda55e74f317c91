-------------------------- MODULE AccountCreation --------------------------
(****************************************************************************)
(* Who gets which account by a magic link.  User.email is not unique and    *)
(* User.username is; MagicLinkVerifyView looks an account up by email and   *)
(* creates a missing one under the local part of the email, in one          *)
(* transaction at READ COMMITTED.  A step is one database statement.        *)
(****************************************************************************)
EXTENDS Naturals, FiniteSets

CONSTANTS
    UserIds,        \* primary keys (UUIDs), of rows that exist or come to exist
    Founders,       \* those made by createsuperuser or the admin, before
    Emails,         \* normalised addresses
    Names,          \* usernames
    LocalPart,      \* email -> its part before the @
    Nobody,         \* the anonymised email and username of a deleted account
    Absent,         \* in place of a row that does not exist, and of an id
    Requests        \* requests that may be under way at the same time

VARIABLES
    users,          \* committed User rows
    req             \* request -> what it is doing

vars == <<users, req>>

ASSUME CreationAssumption ==
    /\ Founders \subseteq UserIds
    /\ LocalPart \in [Emails -> Names]
    /\ Nobody \notin Emails \cup Names
    /\ Absent \notin UserIds
    /\ Absent \notin [email : Emails \cup {Nobody}, name : Names \cup {Nobody}]

Row == [email : Emails \cup {Nobody}, name : Names \cup {Nobody}]

\* deleted_<hash of the id>, which no other row has.
Anonymised == [email |-> Nobody, name |-> Nobody]

\* A request: its next statement, the email of its link, its user row, and
\* whether its own transaction has inserted that row.
Idle == [pc |-> "idle", email |-> Nobody, user |-> Absent, created |-> FALSE]
Refused == [Idle EXCEPT !.pc = "refused"]

pc(r) == req[r].pc
Ended(r) == pc(r) \in {"idle", "refused"}

Exists(u) == users[u] # Absent

\* The committed rows that User.objects.get(email=...) matches.
Bearers(e) == {u \in UserIds : Exists(u) /\ users[u].email = e}
Holders(n) == {u \in UserIds : Exists(u) /\ users[u].name = n}

\* An open transaction that has inserted or updated its user's row.
HasWritten(q) == pc(q) \in {"issue", "delete_commit"}

\* MUTANT of OpenRow: the username of a new account is its email.
OpenRowUnderEmail(q) == IF req[q].created
                        THEN [email |-> req[q].email, name |-> req[q].email]
                        ELSE users[req[q].user]

OpenRow(q) == IF req[q].created
              THEN [email |-> req[q].email, name |-> LocalPart[req[q].email]]
              ELSE users[req[q].user]

\* An UPDATE waits for the transaction that has written the row before it, and
\* an INSERT for one that has written a row with the same unique key.
RowFree(r, u) == \A q \in Requests \ {r} : HasWritten(q) => req[q].user # u
NameFree(r, n) == \A q \in Requests \ {r} : HasWritten(q) => OpenRow(q).name # n

\* Ids that no row and no open transaction has.
FreshIds == {u \in UserIds : ~Exists(u) /\ \A q \in Requests : req[q].user # u}

-----------------------------------------------------------------------------
(* Magic links *)

\* Requests that may still insert a row.
Creating == {q \in Requests : pc(q) \in {"get", "insert"}}

\* MagicLinkVerifyView with a valid link: it is valid for 15 minutes, however
\* often it was opened.  Bound: there are ids left for every request that may
\* need one.
OpenLink(r, e) ==
    /\ Ended(r)
    /\ Cardinality(Creating) < Cardinality(FreshIds)
    /\ req' = [req EXCEPT ![r] = [Idle EXCEPT !.pc = "get", !.email = e]]
    /\ UNCHANGED users

Goto(r, next) == [req EXCEPT ![r].pc = next]

\* MUTANT of Chosen: an account with the username will do, too.
ChosenByName(e) == Bearers(e) \cup Holders(LocalPart[e])

\* The rows that get_or_create's lookup returns.
Chosen(e) == Bearers(e)

\* The lookup at the start, and after the INSERT was refused.  For several rows
\* it raises MultipleObjectsReturned: OneAccountPerEmail keeps that from happening.
Found(r) ==
    /\ pc(r) \in {"get", "get_again"}
    /\ Cardinality(Chosen(req[r].email)) = 1
    /\ \E u \in Chosen(req[r].email) : req' = [req EXCEPT ![r].pc = "touch", ![r].user = u]
    /\ UNCHANGED users

FoundNone(r) ==
    /\ pc(r) = "get"
    /\ Chosen(req[r].email) = {}
    /\ req' = Goto(r, "insert")
    /\ UNCHANGED users

\* MUTANT of Insert: a username that is always free.
InsertUnderFreshName(r) ==
    /\ pc(r) = "insert"
    /\ \E u \in FreshIds :
          req' = [req EXCEPT ![r].pc = "issue", ![r].user = u, ![r].created = TRUE]
    /\ UNCHANGED users

\* The INSERT, and the UPDATEs of password and last_login of the same row.
Insert(r) ==
    LET name == LocalPart[req[r].email] IN
    /\ pc(r) = "insert"
    /\ NameFree(r, name) /\ Holders(name) = {}
    /\ \E u \in FreshIds :
          req' = [req EXCEPT ![r].pc = "issue", ![r].user = u, ![r].created = TRUE]
    /\ UNCHANGED users

\* MUTANT of InsertRefused: the IntegrityError is passed on.
InsertRaises(r) ==
    LET name == LocalPart[req[r].email] IN
    /\ pc(r) = "insert"
    /\ NameFree(r, name) /\ Holders(name) # {}
    /\ req' = [req EXCEPT ![r] = Refused]
    /\ UNCHANGED users

\* IntegrityError: the savepoint is rolled back and the lookup repeated.
InsertRefused(r) ==
    LET name == LocalPart[req[r].email] IN
    /\ pc(r) = "insert"
    /\ NameFree(r, name) /\ Holders(name) # {}
    /\ req' = Goto(r, "get_again")
    /\ UNCHANGED users

\* MUTANT of GiveUp: get_or_create is called until it succeeds.
TryAgain(r) ==
    /\ pc(r) = "get_again"
    /\ Chosen(req[r].email) = {}
    /\ req' = Goto(r, "insert")
    /\ UNCHANGED users

\* The IntegrityError is raised again.
GiveUp(r) ==
    /\ pc(r) = "get_again"
    /\ Chosen(req[r].email) = {}
    /\ req' = [req EXCEPT ![r] = Refused]
    /\ UNCHANGED users

\* UPDATE email_verified and last_login of the account that was found.
Touch(r) ==
    /\ pc(r) = "touch"
    /\ RowFree(r, req[r].user)
    /\ req' = Goto(r, "issue")
    /\ UNCHANGED users

\* INSERT of the refresh token for the row (AccountSessions), and COMMIT.
Issue(r) ==
    /\ pc(r) = "issue"
    /\ users' = [users EXCEPT ![req[r].user] = OpenRow(r)]
    /\ req' = [req EXCEPT ![r] = Idle]

-----------------------------------------------------------------------------
(* Deletion (AccountSessions has its other statements) *)

\* Authentication reads the user, who must be active.
Delete(r, u) ==
    /\ Ended(r)
    /\ Exists(u) /\ users[u] # Anonymised
    /\ req' = [req EXCEPT ![r] = [Idle EXCEPT !.pc = "delete_clear", !.user = u]]
    /\ UNCHANGED users

\* _clear_user_identity
DeleteClear(r) ==
    /\ pc(r) = "delete_clear"
    /\ RowFree(r, req[r].user)
    /\ req' = Goto(r, "delete_commit")
    /\ UNCHANGED users

DeleteCommit(r) ==
    /\ pc(r) = "delete_commit"
    /\ users' = [users EXCEPT ![req[r].user] = Anonymised]
    /\ req' = [req EXCEPT ![r] = Idle]

-----------------------------------------------------------------------------
(* Specification *)

\* A statement fails or the process dies: the open transaction is rolled back.
Fails(r) ==
    /\ ~Ended(r)
    /\ req' = [req EXCEPT ![r] = Idle]
    /\ UNCHANGED users

\* The founders have any username; it need not be the local part.
Init ==
    /\ users \in [UserIds -> Row \cup {Absent}]
    /\ \A u \in UserIds : IF u \in Founders THEN users[u] \in [email : Emails, name : Names]
                                            ELSE users[u] = Absent
    /\ \A u, v \in Founders : u # v => /\ users[u].email # users[v].email
                                       /\ users[u].name # users[v].name
    /\ req = [r \in Requests |-> Idle]

Statement(r) ==
    \/ Found(r) \/ FoundNone(r)
    \/ Insert(r) \/ InsertRefused(r) \/ GiveUp(r)
    \/ Touch(r) \/ Issue(r)
    \/ DeleteClear(r) \/ DeleteCommit(r)

Next ==
    \E r \in Requests : \/ \E e \in Emails : OpenLink(r, e)
                        \/ \E u \in UserIds : Delete(r, u)
                        \/ Statement(r) \/ Fails(r)

Spec == Init /\ [][Next]_vars

\* A web worker that serves a request keeps executing it, and PostgreSQL serves
\* the transactions that wait for a row or a key in turn: strong fairness, as
\* every new transaction may lock the row again for a while.
FairSpec == Spec /\ \A r \in Requests : SF_vars(Statement(r))

-----------------------------------------------------------------------------
(* Properties *)

RequestTypeOK(r) ==
    /\ pc(r) \in {"get", "insert", "get_again", "touch", "issue"} => req[r].email \in Emails
    /\ pc(r) \in {"touch", "issue", "delete_clear", "delete_commit"} => req[r].user \in UserIds
    /\ req[r].created => pc(r) = "issue"

\* Every variable has its type, and a request has what its next statement needs.
TypeOK ==
    /\ users \in [UserIds -> Row \cup {Absent}]
    /\ req \in [Requests ->
                 [pc : {"idle", "refused", "get", "insert", "get_again", "touch", "issue",
                        "delete_clear", "delete_commit"},
                  email : Emails \cup {Nobody}, user : UserIds \cup {Absent},
                  created : BOOLEAN]]
    /\ \A r \in Requests : RequestTypeOK(r)

\* No two accounts have one email, however many links to it are opened at the
\* same time and whatever is deleted meanwhile: only the username that is made
\* of the email keeps a second row out (api/views/auth.py:223-229).  With two,
\* every later link and login of the person would fail (MultipleObjectsReturned,
\* api/serializers/auth.py:90).
OneAccountPerEmail ==
    \A u, v \in UserIds :
        Exists(u) /\ Exists(v) /\ users[u].email = users[v].email /\ users[u].email \in Emails
            => u = v

\* A link opens no account but the one of its address: whoever is about to get
\* a token gets it for a row with that email, unless the account was deleted
\* since it was read (api/views/auth.py:223-258).
SessionsAreOwn ==
    \A r \in Requests : pc(r) = "issue" => OpenRow(r).email \in {req[r].email, Nobody}

\* A request is refused only when its email has no account: one that loses the
\* race to create it signs in to the winner's (api/views/auth.py:223).
RefusedOnlyWithoutAccount ==
    [][\A r \in Requests : ~Ended(r) /\ pc(r)' = "refused" => Bearers(req[r].email) = {}]_vars

\* Every request gets its answer: an INSERT that waits for a username, an UPDATE
\* that waits for a row and a deletion never wait for each other.
RequestsEnd ==
    \A r \in Requests : ~Ended(r) ~> Ended(r)

-----------------------------------------------------------------------------
(* What the documentation says and the code does not do *)

\* "If the email doesn't exist, a new user is created": no request is refused.
NewEmailGetsAccount ==
    [][\A r \in Requests : ~Ended(r) => pc(r)' # "refused"]_vars
=============================================================================
