-------------------------- MODULE AccountSessions --------------------------
(****************************************************************************)
(* Refresh tokens, logins, contributions and account deletion: the requests *)
(* of api/views/auth.py, api/views/me.py and the contribution view, one     *)
(* database statement per step.  Only magic-link verification and account   *)
(* deletion run in a transaction; every other statement commits by itself   *)
(* (READ COMMITTED, no ATOMIC_REQUESTS).                                    *)
(****************************************************************************)
EXTENDS Naturals, Sequences

CONSTANTS
    Users,             \* accounts, all of them present from the start
    NoUser,            \* the contributor of a de-identified contribution
    Requests,          \* requests that may be under way at the same time
    NoRequest,         \* the holder of an unlocked row
    MaxArrivals,       \* bound: requests that arrive; each adds at most one row
    MaxFailures        \* bound: requests that die half-way

VARIABLES
    tokens,        \* committed RefreshToken rows, by id
    account,       \* committed User rows
    link,          \* user -> whether a magic link that was sent is valid
    contributions, \* committed ContributionEvent rows, by id
    rowLock,       \* user -> the open transaction that updated the User row
    req,           \* request -> what it is doing and what it has read
    past,          \* history: user -> the rows when a completed deletion began
    arrivals,      \* requests that have arrived
    failures       \* requests that have died

data == <<tokens, account, link, contributions>>
vars == <<tokens, account, link, contributions, rowLock, req, past, arrivals, failures>>

ASSUME AccountAssumption ==
    /\ NoUser \notin Users /\ NoRequest \notin Requests
    /\ MaxArrivals \in Nat /\ MaxFailures \in Nat

NoToken == 0

\* RefreshToken: replaced_by is next; parent is history, the token it replaced.
Token == [user : Users, revoked : BOOLEAN, expired : BOOLEAN, next : Nat, parent : Nat]

NewToken(u, parent) ==
    [user |-> u, revoked |-> FALSE, expired |-> FALSE, next |-> NoToken, parent |-> parent]

\* The copy of a token row that a request has in memory, NoRow if it has none.
Copy == [user : Users \cup {NoUser}, revoked : BOOLEAN, expired : BOOLEAN, next : Nat, parent : Nat]
NoRow == NewToken(NoUser, NoToken)

\* User: is_active, whether email and names are still the person's own, and
\* email_verified.
Account == [active : BOOLEAN, identity : BOOLEAN, verified : BOOLEAN]
Deleted == [active |-> FALSE, identity |-> FALSE, verified |-> FALSE]

\* ContributionEvent: contributor and contributor_fingerprint.
Contribution == [contributor : Users \cup {NoUser}, fingerprint : Users]

\* Extent of the tables, as a deletion finds them when it begins.
Extent == [tokens : Nat, contributions : Nat]
Now == [tokens |-> Len(tokens), contributions |-> Len(contributions)]

\* A request: its next statement, its user and token, the copies of both rows
\* in its memory, the token it has inserted, whether it revokes all tokens, and
\* the rows its open transaction has updated.
Request == [pc : {"idle", "login_touch", "login_issue", "magic_verify", "magic_touch",
                  "magic_commit", "refresh_check", "refresh_insert", "refresh_mark",
                  "view_check", "revoke_check", "revoke_write", "revoke_all", "submit",
                  "export_read", "delete_revoke", "delete_hide", "delete_clear", "delete_commit"},
            user : Users \cup {NoUser}, token : Nat, new : Nat, all : BOOLEAN, saw : Account,
            row : Copy, revoking : SUBSET Nat, hiding : SUBSET Nat, began : Extent]

Idle == [pc |-> "idle", user |-> NoUser, token |-> NoToken, new |-> NoToken, all |-> FALSE,
         saw |-> Deleted, row |-> NoRow, revoking |-> {}, hiding |-> {},
         began |-> [tokens |-> 0, contributions |-> 0]]

pc(r) == req[r].pc

-----------------------------------------------------------------------------
(* Rows and row locks *)

TokenIds == 1..Len(tokens)
ContributionIds == 1..Len(contributions)

Dead(token) == token.revoked \/ token.expired \/ token.next # NoToken

\* MUTANT of ActiveTokens: only the latest session is revoked.
LatestToken(u) == {i \in TokenIds : tokens[i].user = u /\ ~tokens[i].revoked /\ i = Len(tokens)}

\* The rows that revoke_all_for_user updates.
ActiveTokens(u) == {i \in TokenIds : tokens[i].user = u /\ ~tokens[i].revoked}

OwnContributions(u) == {i \in ContributionIds : contributions[i].contributor = u}

\* An UPDATE waits for the transaction that has updated the row before it.
TokenFree(r, i) == \A q \in Requests \ {r} : i \notin req[q].revoking
ContributionFree(r, i) == \A q \in Requests \ {r} : i \notin req[q].hiding
UserFree(r, u) == rowLock[u] \in {r, NoRequest}

\* An INSERT that refers to the user waits only for a deletion, which changes
\* the unique username.
UserReferable(u) == \A q \in Requests : rowLock[u] = q => pc(q) # "delete_commit"

Revoked(ids) == [i \in TokenIds |-> [tokens[i] EXCEPT !.revoked = @ \/ i \in ids]]

-----------------------------------------------------------------------------
(* Requests arrive and end *)

Arrive(r, request) ==
    /\ pc(r) = "idle"
    /\ arrivals < MaxArrivals
    /\ arrivals' = arrivals + 1
    /\ req' = [req EXCEPT ![r] = request]
    /\ UNCHANGED <<data, rowLock, past, failures>>

Goto(r, next) == req' = [req EXCEPT ![r].pc = next]

Finish(r) == req' = [req EXCEPT ![r] = Idle]

\* Whoever was given a token for the account may hold an access token of it.
HasAccess(u) == \E i \in TokenIds : tokens[i].user = u

\* LoginSerializer: the password of a deleted account is unusable.
Login(r, u) ==
    /\ account[u].active
    /\ Arrive(r, [Idle EXCEPT !.pc = "login_touch", !.user = u])

\* MagicLinkVerifyView: the link is valid and names the email of the account.
OpenLink(r, u) ==
    /\ link[u] /\ account[u].identity
    /\ Arrive(r, [Idle EXCEPT !.pc = IF account[u].verified THEN "magic_touch" ELSE "magic_verify",
                              !.user = u, !.saw = account[u]])

Refresh(r, i) ==
    Arrive(r, [Idle EXCEPT !.pc = "refresh_check", !.user = tokens[i].user, !.token = i])

\* TokenRevokeView checks the token before it revokes it, or all of them.
Revoke(r, i, all) ==
    Arrive(r, [Idle EXCEPT !.pc = "view_check", !.user = tokens[i].user, !.token = i, !.all = all])

\* LogoutView, with one of the user's refresh tokens or for all of them.
Logout(r, i) ==
    Arrive(r, [Idle EXCEPT !.pc = "revoke_check", !.user = tokens[i].user, !.token = i])

LogoutAll(r, u) ==
    /\ HasAccess(u)
    /\ Arrive(r, [Idle EXCEPT !.pc = "revoke_all", !.user = u])

\* AccountDeletionView: authentication reads the user, who must be active.
Delete(r, u) ==
    /\ HasAccess(u) /\ account[u].active
    /\ Arrive(r, [Idle EXCEPT !.pc = "delete_revoke", !.user = u, !.began = Now])

\* ContributionSubmissionView, likewise, where the deployment authenticates it
\* (IdempotentMutations has the case where it does not).
Submit(r, u) ==
    /\ HasAccess(u) /\ account[u].active
    /\ Arrive(r, [Idle EXCEPT !.pc = "submit", !.user = u])

\* ContributionExportView, likewise.
Export(r, u) ==
    /\ HasAccess(u) /\ account[u].active
    /\ Arrive(r, [Idle EXCEPT !.pc = "export_read", !.user = u, !.began = Now])

\* MagicLinkRequestView: a new link for the email of the account.
SendLink(u) ==
    /\ account[u].identity
    /\ ~link[u]
    /\ link' = [link EXCEPT ![u] = TRUE]
    /\ UNCHANGED <<tokens, account, contributions, rowLock, req, past, arrivals, failures>>

-----------------------------------------------------------------------------
(* Login and magic link *)

\* UPDATE last_login, by itself and in the transaction of the magic link.
LoginTouch(r) ==
    /\ pc(r) = "login_touch"
    /\ UserFree(r, req[r].user)
    /\ Goto(r, "login_issue")
    /\ UNCHANGED <<data, rowLock, past, arrivals, failures>>

LoginIssue(r) ==
    /\ pc(r) = "login_issue"
    /\ UserReferable(req[r].user)
    /\ tokens' = Append(tokens, NewToken(req[r].user, NoToken))
    /\ Finish(r)
    /\ UNCHANGED <<account, link, contributions, rowLock, past, arrivals, failures>>

\* UPDATE email_verified, in the transaction.
MagicVerify(r) ==
    /\ pc(r) = "magic_verify"
    /\ UserFree(r, req[r].user)
    /\ rowLock' = [rowLock EXCEPT ![req[r].user] = r]
    /\ Goto(r, "magic_touch")
    /\ UNCHANGED <<data, past, arrivals, failures>>

\* MUTANT of MagicTouch: last_login is written over another connection, outside
\* of the transaction.
MagicTouchOutside(r) ==
    /\ pc(r) = "magic_touch"
    /\ rowLock[req[r].user] = NoRequest
    /\ Goto(r, "magic_commit")
    /\ UNCHANGED <<data, rowLock, past, arrivals, failures>>

MagicTouch(r) ==
    /\ pc(r) = "magic_touch"
    /\ UserFree(r, req[r].user)
    /\ rowLock' = [rowLock EXCEPT ![req[r].user] = r]
    /\ Goto(r, "magic_commit")
    /\ UNCHANGED <<data, past, arrivals, failures>>

\* MUTANT of MagicCommit: user.save() without update_fields.
MagicCommitAllFields(r) ==
    LET u == req[r].user IN
    /\ pc(r) = "magic_commit"
    /\ tokens' = Append(tokens, NewToken(u, NoToken))
    /\ account' = [account EXCEPT ![u] = [req[r].saw EXCEPT !.verified = TRUE]]
    /\ rowLock' = [rowLock EXCEPT ![u] = NoRequest]
    /\ Finish(r)
    /\ UNCHANGED <<link, contributions, past, arrivals, failures>>

\* INSERT of the token and COMMIT; email_verified was written if it was not set
\* in the copy that the request had read.
MagicCommit(r) ==
    LET u == req[r].user IN
    /\ pc(r) = "magic_commit"
    /\ tokens' = Append(tokens, NewToken(u, NoToken))
    /\ account' = [account EXCEPT ![u].verified = @ \/ ~req[r].saw.verified]
    /\ rowLock' = [rowLock EXCEPT ![u] = NoRequest]
    /\ Finish(r)
    /\ UNCHANGED <<link, contributions, past, arrivals, failures>>

-----------------------------------------------------------------------------
(* Rotation *)

\* verify_and_get refuses: the request ends with 401 (refresh) or 400.
CheckFails(r) ==
    /\ pc(r) \in {"refresh_check", "view_check", "revoke_check"}
    /\ Dead(tokens[req[r].token])
    /\ Finish(r)
    /\ UNCHANGED <<data, rowLock, past, arrivals, failures>>

\* verify_and_get returns the row; from here on rotate() works on this copy.
RefreshCheck(r) ==
    /\ pc(r) = "refresh_check"
    /\ ~Dead(tokens[req[r].token])
    /\ req' = [req EXCEPT ![r].pc = "refresh_insert", ![r].row = tokens[req[r].token]]
    /\ UNCHANGED <<data, rowLock, past, arrivals, failures>>

\* What rotate() checks: the clock again, but revoked and replaced_by as they
\* were read, so its branch for a replayed token is never taken.
Held(r) == [req[r].row EXCEPT !.expired = tokens[req[r].token].expired]

RefreshExpired(r) ==
    /\ pc(r) = "refresh_insert"
    /\ Dead(Held(r))
    /\ Finish(r)
    /\ UNCHANGED <<data, rowLock, past, arrivals, failures>>

\* MUTANT of RefreshInsert: the new token is returned but never saved.
RefreshInsertUnsaved(r) ==
    /\ pc(r) = "refresh_insert"
    /\ ~Dead(Held(r))
    /\ UserReferable(req[r].user)
    /\ req' = [req EXCEPT ![r].pc = "refresh_mark", ![r].new = Len(tokens) + 1]
    /\ UNCHANGED <<data, rowLock, past, arrivals, failures>>

\* create_for_user
RefreshInsert(r) ==
    /\ pc(r) = "refresh_insert"
    /\ ~Dead(Held(r))
    /\ UserReferable(req[r].user)
    /\ tokens' = Append(tokens, NewToken(req[r].user, req[r].token))
    /\ req' = [req EXCEPT ![r].pc = "refresh_mark", ![r].new = Len(tokens) + 1]
    /\ UNCHANGED <<account, link, contributions, rowLock, past, arrivals, failures>>

\* MUTANT of RefreshMark: self.save() without update_fields.
RefreshMarkAllFields(r) ==
    /\ pc(r) = "refresh_mark"
    /\ TokenFree(r, req[r].token)
    /\ tokens' = [tokens EXCEPT ![req[r].token] = [req[r].row EXCEPT !.next = req[r].new]]
    /\ Finish(r)
    /\ UNCHANGED <<account, link, contributions, rowLock, past, arrivals, failures>>

\* MUTANT of RefreshMark: replaced by the token that was issued last.
RefreshMarkLatest(r) ==
    /\ pc(r) = "refresh_mark"
    /\ TokenFree(r, req[r].token)
    /\ tokens' = [tokens EXCEPT ![req[r].token].next = Len(tokens)]
    /\ Finish(r)
    /\ UNCHANGED <<account, link, contributions, rowLock, past, arrivals, failures>>

\* save(update_fields=["replaced_by", "last_used_at"]).
RefreshMark(r) ==
    /\ pc(r) = "refresh_mark"
    /\ TokenFree(r, req[r].token)
    /\ tokens' = [tokens EXCEPT ![req[r].token].next = req[r].new]
    /\ Finish(r)
    /\ UNCHANGED <<account, link, contributions, rowLock, past, arrivals, failures>>

-----------------------------------------------------------------------------
(* Revocation *)

\* TokenRevokeView goes on to all tokens, or to revoke_refresh_token.
ViewCheck(r) ==
    /\ pc(r) = "view_check"
    /\ ~Dead(tokens[req[r].token])
    /\ Goto(r, IF req[r].all THEN "revoke_all" ELSE "revoke_check")
    /\ UNCHANGED <<data, rowLock, past, arrivals, failures>>

RevokeCheck(r) ==
    /\ pc(r) = "revoke_check"
    /\ ~Dead(tokens[req[r].token])
    /\ Goto(r, "revoke_write")
    /\ UNCHANGED <<data, rowLock, past, arrivals, failures>>

RevokeWrite(r) ==
    /\ pc(r) = "revoke_write"
    /\ TokenFree(r, req[r].token)
    /\ tokens' = Revoked({req[r].token})
    /\ Finish(r)
    /\ UNCHANGED <<account, link, contributions, rowLock, past, arrivals, failures>>

RevokeAll(r) ==
    /\ pc(r) = "revoke_all"
    /\ \A i \in ActiveTokens(req[r].user) : TokenFree(r, i)
    /\ tokens' = Revoked(ActiveTokens(req[r].user))
    /\ Finish(r)
    /\ UNCHANGED <<account, link, contributions, rowLock, past, arrivals, failures>>

-----------------------------------------------------------------------------
(* Submission, export and deletion *)

SubmitInsert(r) ==
    /\ pc(r) = "submit"
    /\ UserReferable(req[r].user)
    /\ contributions' = Append(contributions,
                               [contributor |-> req[r].user, fingerprint |-> req[r].user])
    /\ Finish(r)
    /\ UNCHANGED <<tokens, account, link, rowLock, past, arrivals, failures>>

\* The one query of the export; the answer lists what it returns.
Exported(r) == OwnContributions(req[r].user)

ExportRead(r) ==
    /\ pc(r) = "export_read"
    /\ Finish(r)
    /\ UNCHANGED <<data, rowLock, past, arrivals, failures>>

\* _revoke_all_tokens
DeleteRevoke(r) ==
    /\ pc(r) = "delete_revoke"
    /\ \A i \in ActiveTokens(req[r].user) : TokenFree(r, i)
    /\ req' = [req EXCEPT ![r].pc = "delete_hide", ![r].revoking = ActiveTokens(req[r].user)]
    /\ UNCHANGED <<data, rowLock, past, arrivals, failures>>

\* MUTANT of DeleteHide: the UPDATE commits by itself, without a transaction.
DeleteHideAutocommit(r) ==
    LET own == OwnContributions(req[r].user) IN
    /\ pc(r) = "delete_hide"
    /\ \A i \in own : ContributionFree(r, i)
    /\ contributions' = [i \in ContributionIds |->
          IF i \in own THEN [contributions[i] EXCEPT !.contributor = NoUser] ELSE contributions[i]]
    /\ Goto(r, "delete_clear")
    /\ UNCHANGED <<tokens, account, link, rowLock, past, arrivals, failures>>

\* _deidentify_contributions
DeleteHide(r) ==
    /\ pc(r) = "delete_hide"
    /\ \A i \in OwnContributions(req[r].user) : ContributionFree(r, i)
    /\ req' = [req EXCEPT ![r].pc = "delete_clear", ![r].hiding = OwnContributions(req[r].user)]
    /\ UNCHANGED <<data, rowLock, past, arrivals, failures>>

\* _clear_user_identity, and _deactivate_user on the same row
DeleteClear(r) ==
    /\ pc(r) = "delete_clear"
    /\ UserFree(r, req[r].user)
    /\ rowLock' = [rowLock EXCEPT ![req[r].user] = r]
    /\ Goto(r, "delete_commit")
    /\ UNCHANGED <<data, past, arrivals, failures>>

DeleteCommit(r) ==
    LET u == req[r].user IN
    /\ pc(r) = "delete_commit"
    /\ tokens' = Revoked(req[r].revoking)
    /\ contributions' = [i \in ContributionIds |->
          IF i \in req[r].hiding THEN [contributions[i] EXCEPT !.contributor = NoUser]
          ELSE contributions[i]]
    /\ account' = [account EXCEPT ![u] = Deleted]
    /\ rowLock' = [rowLock EXCEPT ![u] = NoRequest]
    /\ past' = [past EXCEPT ![u] = req[r].began]
    /\ Finish(r)
    /\ UNCHANGED <<link, arrivals, failures>>

-----------------------------------------------------------------------------
(* Failures and time *)

\* A statement fails or the process dies: the open transaction is rolled back.
Fails(r) ==
    /\ pc(r) # "idle"
    /\ failures < MaxFailures
    /\ failures' = failures + 1
    /\ rowLock' = [u \in Users |-> IF rowLock[u] = r THEN NoRequest ELSE rowLock[u]]
    /\ Finish(r)
    /\ UNCHANGED <<data, past, arrivals>>

TokenExpires(i) ==
    /\ ~tokens[i].expired
    /\ tokens' = [tokens EXCEPT ![i].expired = TRUE]
    /\ UNCHANGED <<account, link, contributions, rowLock, req, past, arrivals, failures>>

LinkExpires(u) ==
    /\ link[u]
    /\ link' = [link EXCEPT ![u] = FALSE]
    /\ UNCHANGED <<tokens, account, contributions, rowLock, req, past, arrivals, failures>>

-----------------------------------------------------------------------------
(* Specification *)

Init ==
    /\ tokens = <<>> /\ contributions = <<>>
    /\ account \in [Users -> {[active |-> TRUE, identity |-> TRUE, verified |-> v] : v \in BOOLEAN}]
    /\ link = [u \in Users |-> FALSE]
    /\ rowLock = [u \in Users |-> NoRequest]
    /\ req = [r \in Requests |-> Idle]
    /\ past = [u \in Users |-> [tokens |-> 0, contributions |-> 0]]
    /\ arrivals = 0 /\ failures = 0

Arrival(r) ==
    \/ \E u \in Users : \/ Login(r, u) \/ OpenLink(r, u) \/ LogoutAll(r, u)
                        \/ Delete(r, u) \/ Submit(r, u) \/ Export(r, u)
    \/ \E i \in TokenIds : \/ Refresh(r, i) \/ Logout(r, i)
                           \/ \E all \in BOOLEAN : Revoke(r, i, all)

Statement(r) ==
    \/ LoginTouch(r) \/ LoginIssue(r) \/ MagicVerify(r) \/ MagicTouch(r) \/ MagicCommit(r)
    \/ CheckFails(r) \/ RefreshCheck(r) \/ RefreshExpired(r) \/ RefreshInsert(r) \/ RefreshMark(r)
    \/ ViewCheck(r) \/ RevokeCheck(r) \/ RevokeWrite(r) \/ RevokeAll(r)
    \/ SubmitInsert(r) \/ ExportRead(r)
    \/ DeleteRevoke(r) \/ DeleteHide(r) \/ DeleteClear(r) \/ DeleteCommit(r)

Next ==
    \/ \E r \in Requests : Arrival(r) \/ Statement(r) \/ Fails(r)
    \/ \E u \in Users : SendLink(u) \/ LinkExpires(u)
    \/ \E i \in TokenIds : TokenExpires(i)

Spec == Init /\ [][Next]_vars

\* A web worker that serves a request keeps executing it.
FairSpec == Spec /\ \A r \in Requests : WF_vars(Statement(r))

-----------------------------------------------------------------------------
(* Properties *)

RequestTypeOK(x) ==
    /\ x.pc # "idle" => x.user \in Users
    /\ x.pc \in {"refresh_check", "refresh_insert", "refresh_mark", "view_check",
                 "revoke_check", "revoke_write"}
          => x.token \in TokenIds /\ tokens[x.token].user = x.user
    /\ x.pc = "refresh_mark" => x.new \in TokenIds
    /\ x.revoking \subseteq TokenIds
    /\ x.hiding \subseteq ContributionIds
    /\ x.began.tokens <= Len(tokens) /\ x.began.contributions <= Len(contributions)

\* Every variable has its type, and a request works on rows that exist.
TypeOK ==
    /\ tokens \in Seq(Token) /\ contributions \in Seq(Contribution)
    /\ account \in [Users -> Account]
    /\ link \in [Users -> BOOLEAN]
    /\ rowLock \in [Users -> Requests \cup {NoRequest}]
    /\ req \in [Requests -> Request] /\ past \in [Users -> Extent]
    /\ arrivals \in Nat /\ failures \in Nat
    /\ \A r \in Requests : RequestTypeOK(req[r])

\* Revocation and replacement are permanent: no request that works on a copy of
\* the row writes it back to life (rotate and revoke save with update_fields,
\* accounts/models.py:243-253).
DeadTokensStayDead ==
    [][\A i \in TokenIds :
          /\ tokens[i].revoked => tokens'[i].revoked
          /\ tokens[i].next # NoToken => tokens'[i].next # NoToken]_vars

\* replaced_by points to a token that was issued for this very token, whatever
\* else was inserted in between (accounts/models.py:233-245).
SuccessorIsOwn ==
    \A i \in TokenIds : tokens[i].next # NoToken =>
        LET successor == tokens[tokens[i].next] IN
        successor.parent = i /\ successor.user = tokens[i].user

\* A completed deletion covers everything that existed when it was asked for:
\* each earlier token of the account is dead and each earlier contribution is
\* de-identified, whatever ran meanwhile (account_deletion.py:149-174).
DeletionCoversItsPast ==
    \A u \in Users : ~account[u].active =>
        /\ \A i \in 1..past[u].tokens : tokens[i].user = u => Dead(tokens[i])
        /\ \A i \in 1..past[u].contributions : contributions[i].contributor # u

\* An export is complete: it lists every contribution that the account had made
\* when the request arrived, unless the account is deleted by now.  A deletion
\* that is still to commit, or fails, takes nothing out of it, although it has
\* updated the same rows (api/views/export.py:130, account_deletion.py:149).
ExportIsComplete ==
    [][\A r \in Requests : ExportRead(r) /\ account[req[r].user].active =>
          \A i \in 1..req[r].began.contributions :
              contributions[i].fingerprint = req[r].user => i \in Exported(r)]_vars

\* "Allow deletion reversal" is a non-goal (account_deletion.py:22): no request
\* that read the account before its deletion brings identity or access back.
DeletionIsFinal ==
    [][\A u \in Users : ~account[u].active =>
          ~account'[u].active /\ ~account'[u].identity]_vars

\* Every request gets its answer: no two of them wait for each other's rows,
\* and a failed one leaves no row locked.
RequestsEnd ==
    \A r \in Requests : pc(r) # "idle" ~> pc(r) = "idle"

-----------------------------------------------------------------------------
(* What the documentation says and the code does not do *)

\* "Refresh Tokens: Single-use": at most one token is issued for each token.
TokensAreSingleUse ==
    \A i, j \in TokenIds : tokens[i].parent = tokens[j].parent /\ i # j
        => tokens[i].parent = NoToken

\* "If rotation fails due to replay, revoke all user tokens": a refresh request
\* that is refused because its token was used leaves no token of the user live.
ReplayRevokesAll ==
    [][\A r \in Requests :
          pc(r) = "refresh_check" /\ tokens[req[r].token].next # NoToken /\ pc(r)' = "idle"
             => \A i \in TokenIds : tokens[i].user = req[r].user => Dead(tokens'[i])]_vars

\* "Handles race conditions with token creation during deletion": no token of a
\* deleted account is live.
NoTokenAfterDeletion ==
    \A u \in Users : ~account[u].active =>
        \A i \in TokenIds : tokens[i].user = u => Dead(tokens[i])

\* "De-identifies ContributionEvents": none names a deleted account.
NoNameAfterDeletion ==
    \A u \in Users : ~account[u].active => OwnContributions(u) = {}

\* "Clear email verification status": it stays cleared.
DeletedIsUnverified ==
    \A u \in Users : ~account[u].active => ~account[u].verified
=============================================================================
