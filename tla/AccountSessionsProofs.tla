----------------------- MODULE AccountSessionsProofs -----------------------
(****************************************************************************)
(* Theorems about AccountSessions, for every set of accounts, any number of *)
(* concurrent requests and any bounds on arrivals and failures.             *)
(****************************************************************************)
EXTENDS AccountSessions, SequenceTheorems, TLAPS

(****************************************************************************)
(* What a step does to the tables                                           *)
(****************************************************************************)

\* No token row is deleted; its owner and origin are fixed; revocation, expiry
\* and replacement are permanent.  A new row has no successor.
TokensKept ==
    /\ tokens' \in Seq(Token) /\ Len(tokens) \in Nat /\ Len(tokens') \in Nat
    /\ Len(tokens) <= Len(tokens')
    /\ \A i \in TokenIds :
          /\ tokens'[i].user = tokens[i].user /\ tokens'[i].parent = tokens[i].parent
          /\ tokens[i].revoked => tokens'[i].revoked
          /\ tokens[i].expired => tokens'[i].expired
          /\ tokens[i].next # NoToken => tokens'[i].next # NoToken
    /\ \A i \in 1..Len(tokens') : i \notin TokenIds => tokens'[i].next = NoToken

\* No contribution is deleted; its author is fixed, and only the link to the
\* account may go.
ContributionsKept ==
    /\ contributions' \in Seq(Contribution)
    /\ Len(contributions) \in Nat /\ Len(contributions') \in Nat
    /\ Len(contributions) <= Len(contributions')
    /\ \A i \in ContributionIds :
          /\ contributions'[i].fingerprint = contributions[i].fingerprint
          /\ contributions'[i].contributor \in {contributions[i].contributor, NoUser}

LEMMA SameTokens == tokens \in Seq(Token) /\ UNCHANGED tokens => TokensKept
BY LenProperties DEF TokensKept, TokenIds

LEMMA AppendedToken ==
    ASSUME tokens \in Seq(Token), NEW u \in Users, NEW p \in Nat,
           tokens' = Append(tokens, NewToken(u, p))
    PROVE  /\ TokensKept /\ Len(tokens') = Len(tokens) + 1
           /\ \A i \in TokenIds : tokens'[i] = tokens[i]
           /\ tokens'[Len(tokens) + 1] = NewToken(u, p)
<1>1. NewToken(u, p) \in Token
  BY DEF NewToken, Token, NoToken
<1>2. /\ tokens' \in Seq(Token) /\ Len(tokens') = Len(tokens) + 1
      /\ \A i \in 1..Len(tokens) : tokens'[i] = tokens[i]
      /\ tokens'[Len(tokens) + 1] = NewToken(u, p)
  BY <1>1, AppendProperties
<1>3. Len(tokens) \in Nat
  BY LenProperties
<1>4. NewToken(u, p).next = NoToken
  BY DEF NewToken
<1> QED
  BY <1>2, <1>3, <1>4 DEF TokensKept, TokenIds

\* An UPDATE of some rows, each of them on its own.
LEMMA UpdatedTokens ==
    ASSUME tokens \in Seq(Token), tokens' \in [TokenIds -> Token],
           \A i \in TokenIds :
              /\ tokens'[i].user = tokens[i].user /\ tokens'[i].parent = tokens[i].parent
              /\ tokens[i].revoked => tokens'[i].revoked
              /\ tokens[i].expired => tokens'[i].expired
              /\ tokens[i].next # NoToken => tokens'[i].next # NoToken
    PROVE  TokensKept /\ Len(tokens') = Len(tokens)
<1>1. Len(tokens) \in Nat
  BY LenProperties
<1>2. tokens' \in Seq(Token)
  BY <1>1, SeqDef DEF TokenIds
<1>3. Len(tokens') = Len(tokens)
  BY <1>1, <1>2, LenProperties DEF TokenIds
<1> QED
  BY <1>1, <1>2, <1>3 DEF TokensKept, TokenIds

LEMMA RevokedTokens ==
    ASSUME tokens \in Seq(Token), NEW ids, tokens' = Revoked(ids)
    PROVE  /\ TokensKept /\ Len(tokens') = Len(tokens)
           /\ \A i \in TokenIds : /\ tokens'[i].next = tokens[i].next
                                  /\ i \in ids => tokens'[i].revoked
<1>1. \A i \in TokenIds : tokens[i] \in Token
  BY ElementOfSeq DEF TokenIds
<1>2. \A i \in TokenIds : tokens'[i] = [tokens[i] EXCEPT !.revoked = @ \/ i \in ids]
  BY DEF Revoked
<1>3. \A i \in TokenIds : /\ tokens'[i] \in Token
                          /\ tokens'[i].user = tokens[i].user
                          /\ tokens'[i].parent = tokens[i].parent
                          /\ tokens'[i].expired = tokens[i].expired
                          /\ tokens'[i].next = tokens[i].next
                          /\ tokens'[i].revoked = (tokens[i].revoked \/ i \in ids)
  BY <1>1, <1>2 DEF Token
<1>4. tokens' \in [TokenIds -> Token]
  BY <1>3 DEF Revoked
<1> QED
  BY <1>3, <1>4, UpdatedTokens

LEMMA MarkedToken ==
    ASSUME tokens \in Seq(Token), NEW i \in TokenIds, NEW n \in TokenIds,
           tokens' = [tokens EXCEPT ![i].next = n]
    PROVE  /\ TokensKept /\ Len(tokens') = Len(tokens)
           /\ tokens'[i].next = n
           /\ \A j \in TokenIds \ {i} : tokens'[j].next = tokens[j].next
<1>1. \A j \in TokenIds : tokens[j] \in Token
  BY ElementOfSeq DEF TokenIds
<1>2. tokens \in [TokenIds -> Token] /\ n \in Nat /\ n # NoToken
  BY LenProperties DEF TokenIds, NoToken
<1>3. /\ tokens'[i] = [tokens[i] EXCEPT !.next = n]
      /\ \A j \in TokenIds \ {i} : tokens'[j] = tokens[j]
  BY <1>2
<1>4. /\ tokens'[i] \in Token /\ tokens'[i].user = tokens[i].user
      /\ tokens'[i].parent = tokens[i].parent /\ tokens'[i].revoked = tokens[i].revoked
      /\ tokens'[i].expired = tokens[i].expired /\ tokens'[i].next = n
  BY <1>1, <1>2, <1>3 DEF Token
<1>5. tokens' \in [TokenIds -> Token]
  BY <1>1, <1>2, <1>3, <1>4
<1> QED
  BY <1>2, <1>3, <1>4, <1>5, UpdatedTokens

LEMMA ExpiredRow ==
    ASSUME NEW t \in Token
    PROVE  /\ [t EXCEPT !.expired = TRUE] \in Token
           /\ [t EXCEPT !.expired = TRUE].user = t.user
           /\ [t EXCEPT !.expired = TRUE].parent = t.parent
           /\ [t EXCEPT !.expired = TRUE].revoked = t.revoked
           /\ [t EXCEPT !.expired = TRUE].next = t.next
           /\ [t EXCEPT !.expired = TRUE].expired
<1>1. [t EXCEPT !.expired = TRUE] \in Token
  BY DEF Token
<1> QED
  BY <1>1 DEF Token

LEMMA ExpiredToken ==
    ASSUME tokens \in Seq(Token), NEW i \in TokenIds,
           tokens' = [tokens EXCEPT ![i].expired = TRUE]
    PROVE  /\ TokensKept /\ Len(tokens') = Len(tokens)
           /\ \A j \in TokenIds : tokens'[j].next = tokens[j].next
<1>1. \A j \in TokenIds : tokens[j] \in Token
  BY ElementOfSeq DEF TokenIds
<1>2. tokens \in [TokenIds -> Token]
  BY LenProperties DEF TokenIds
<1>3. /\ tokens'[i] = [tokens[i] EXCEPT !.expired = TRUE]
      /\ \A j \in TokenIds \ {i} : tokens'[j] = tokens[j]
  BY <1>2
<1>4. /\ tokens'[i] \in Token /\ tokens'[i].user = tokens[i].user
      /\ tokens'[i].parent = tokens[i].parent /\ tokens'[i].revoked = tokens[i].revoked
      /\ tokens'[i].expired /\ tokens'[i].next = tokens[i].next
  <2>1. PICK t \in Token : t = tokens[i]
    BY <1>1
  <2>2. tokens'[i] = [t EXCEPT !.expired = TRUE]
    BY <1>3, <2>1
  <2> QED
    BY <2>1, <2>2, ExpiredRow
<1>5. tokens' \in [TokenIds -> Token]
  BY <1>1, <1>2, <1>3, <1>4
<1> QED
  BY <1>3, <1>4, <1>5, UpdatedTokens

LEMMA SameContributions ==
    contributions \in Seq(Contribution) /\ UNCHANGED contributions => ContributionsKept
BY LenProperties DEF ContributionsKept, ContributionIds

LEMMA AppendedContribution ==
    ASSUME contributions \in Seq(Contribution), NEW u \in Users,
           contributions' = Append(contributions, [contributor |-> u, fingerprint |-> u])
    PROVE  /\ ContributionsKept /\ Len(contributions') = Len(contributions) + 1
           /\ \A i \in ContributionIds : contributions'[i] = contributions[i]
           /\ contributions'[Len(contributions) + 1] = [contributor |-> u, fingerprint |-> u]
<1>1. [contributor |-> u, fingerprint |-> u] \in Contribution
  BY DEF Contribution
<1>2. /\ contributions' \in Seq(Contribution) /\ Len(contributions') = Len(contributions) + 1
      /\ \A i \in 1..Len(contributions) : contributions'[i] = contributions[i]
      /\ contributions'[Len(contributions) + 1] = [contributor |-> u, fingerprint |-> u]
  BY <1>1, AppendProperties
<1>3. Len(contributions) \in Nat
  BY LenProperties
<1> QED
  BY <1>2, <1>3 DEF ContributionsKept, ContributionIds

\* The UPDATE of a deletion.
LEMMA HiddenContributions ==
    ASSUME contributions \in Seq(Contribution), NEW ids,
           contributions' = [i \in ContributionIds |->
              IF i \in ids THEN [contributions[i] EXCEPT !.contributor = NoUser]
              ELSE contributions[i]]
    PROVE  /\ ContributionsKept /\ Len(contributions') = Len(contributions)
           /\ \A i \in ContributionIds :
                 contributions'[i].contributor =
                    IF i \in ids THEN NoUser ELSE contributions[i].contributor
<1>1. Len(contributions) \in Nat
  BY LenProperties
<1>2. \A i \in ContributionIds : contributions[i] \in Contribution
  BY ElementOfSeq DEF ContributionIds
<1>3. \A i \in ContributionIds :
        /\ contributions'[i] \in Contribution
        /\ contributions'[i].fingerprint = contributions[i].fingerprint
        /\ contributions'[i].contributor = IF i \in ids THEN NoUser
                                           ELSE contributions[i].contributor
  BY <1>2 DEF Contribution
<1>4. contributions' \in [1..Len(contributions) -> Contribution]
  BY <1>3 DEF ContributionIds
<1>5. contributions' \in Seq(Contribution)
  BY <1>1, <1>4, SeqDef
<1>6. Len(contributions') = Len(contributions)
  BY <1>1, <1>4, <1>5, LenProperties
<1> QED
  BY <1>1, <1>3, <1>5, <1>6 DEF ContributionsKept, ContributionIds

(****************************************************************************)
(* Type correctness                                                         *)
(****************************************************************************)

\* What a request knows of the tables stays right while others write.
LEMMA RequestKept ==
    ASSUME TokensKept, ContributionsKept, NEW x \in Request, RequestTypeOK(x)
    PROVE  RequestTypeOK(x)'
<1> USE DEF TokensKept, ContributionsKept, TokenIds, ContributionIds
<1>1. /\ x.began.tokens \in Nat /\ x.began.contributions \in Nat
      /\ x.token \in Nat /\ x.new \in Nat /\ x.revoking \subseteq Nat /\ x.hiding \subseteq Nat
  BY DEF Request, Extent
<1>2. TokenIds \subseteq 1..Len(tokens') /\ ContributionIds \subseteq 1..Len(contributions')
  OBVIOUS
<1>3. x.token \in TokenIds => tokens'[x.token].user = tokens[x.token].user
  OBVIOUS
<1> QED
  BY <1>1, <1>2, <1>3 DEF RequestTypeOK

\* One request goes on; the others keep what they know.
LEMMA RequestStep ==
    ASSUME TypeOK, TokensKept, ContributionsKept, NEW r \in Requests, NEW x \in Request,
           req' = [req EXCEPT ![r] = x], RequestTypeOK(x)'
    PROVE  req' \in [Requests -> Request] /\ \A q \in Requests : RequestTypeOK(req[q])'
<1>1. req \in [Requests -> Request]
  BY DEF TypeOK
<1>2. req' \in [Requests -> Request]
  BY <1>1
<1>3. ASSUME NEW q \in Requests PROVE RequestTypeOK(req[q])'
  <2>1. CASE q = r
    <3>1. req'[q] = x
      BY <1>1, <2>1
    <3> QED
      BY <3>1 DEF RequestTypeOK
  <2>2. CASE q # r
    <3>1. PICK y \in Request : y = req[q]
      BY <1>1
    <3>2. req'[q] = y
      BY <1>1, <2>2, <3>1
    <3>3. RequestTypeOK(y)
      BY <3>1 DEF TypeOK
    <3>4. RequestTypeOK(y)'
      BY <3>3, RequestKept
    <3> QED
      BY <3>2, <3>4 DEF RequestTypeOK
  <2> QED
    BY <2>1, <2>2
<1> QED
  BY <1>2, <1>3

LEMMA IdleType == Idle \in Request
BY DEF Idle, Request, Deleted, Account, NoRow, NewToken, NoToken, Copy, Extent

LEMMA IdleTypeOK == ASSUME TokensKept, ContributionsKept PROVE RequestTypeOK(Idle)'
BY DEF Idle, RequestTypeOK, TokensKept, ContributionsKept

\* A request that ends.
LEMMA FinishStep ==
    ASSUME TypeOK, TokensKept, ContributionsKept, NEW r \in Requests, Finish(r)
    PROVE  req' \in [Requests -> Request] /\ \A q \in Requests : RequestTypeOK(req[q])'
<1>1. req' = [req EXCEPT ![r] = Idle]
  BY DEF Finish
<1> QED
  BY <1>1, IdleType, IdleTypeOK, RequestStep

\* A request that goes on to a statement that needs no more than it has.
LEMMA GotoStep ==
    ASSUME TypeOK, UNCHANGED <<tokens, contributions>>, NEW r \in Requests,
           pc(r) # "idle", NEW next,
           \/ next \in {"login_issue", "magic_touch", "magic_commit", "revoke_all", "delete_commit"}
           \/ /\ next \in {"revoke_check", "revoke_write"}
              /\ pc(r) \in {"view_check", "revoke_check"},
           Goto(r, next)
    PROVE  req' \in [Requests -> Request] /\ \A q \in Requests : RequestTypeOK(req[q])'
<1>1. TokensKept /\ ContributionsKept
  BY SameTokens, SameContributions DEF TypeOK
<1>2. PICK y \in Request : y = req[r]
  BY DEF TypeOK
<1> DEFINE x == [y EXCEPT !.pc = next]
<1>3. req' = [req EXCEPT ![r] = x]
  BY <1>2 DEF Goto
<1>4. x \in Request
  BY <1>2 DEF Request
<1>5. RequestTypeOK(y) /\ y.pc = pc(r)
  BY <1>2 DEF TypeOK, pc
<1>6. RequestTypeOK(y)'
  BY <1>1, <1>5, RequestKept
<1>7. /\ x.pc = next /\ x.user = y.user /\ x.token = y.token /\ x.revoking = y.revoking
      /\ x.hiding = y.hiding /\ x.began = y.began
  BY DEF Request
<1>8. RequestTypeOK(x)'
  BY <1>5, <1>6, <1>7 DEF RequestTypeOK
<1> QED
  BY <1>1, <1>3, <1>4, <1>8, RequestStep

\* The request is in no rotation that has inserted its token and in no deletion
\* that has revoked the others.
Aside(x) == x.pc \notin {"refresh_mark", "delete_hide", "delete_clear", "delete_commit"}

\* A request arrives.
LEMMA ArrivingRequest ==
    ASSUME TypeOK, NEW r \in Requests, Arrival(r)
    PROVE  \E x \in Request : /\ req' = [req EXCEPT ![r] = x]
                             /\ RequestTypeOK(x) /\ Aside(x) /\ x.hiding = {}
<1>1. UNCHANGED <<tokens, contributions>>
  BY DEF Arrival, Login, OpenLink, LogoutAll, Delete, Submit, Export, Refresh, Logout, Revoke,
         Arrive, data
<1>2. TokensKept /\ ContributionsKept
  BY <1>1, SameTokens, SameContributions DEF TypeOK
<1>3. \A i \in TokenIds : tokens[i] \in Token
  BY ElementOfSeq DEF TypeOK, TokenIds
<1> DEFINE Fresh(x) == RequestTypeOK(x) /\ Aside(x) /\ x.hiding = {}
           Goal == \E x \in Request : req' = [req EXCEPT ![r] = x] /\ Fresh(x)
<1>4. ASSUME NEW u \in Users, Login(r, u) \/ LogoutAll(r, u) \/ Submit(r, u) PROVE Goal
  <2>1. PICK p \in {"login_touch", "revoke_all", "submit"} :
           req' = [req EXCEPT ![r] = [Idle EXCEPT !.pc = p, !.user = u]]
    BY <1>4 DEF Login, LogoutAll, Submit, Arrive
  <2>2. [Idle EXCEPT !.pc = p, !.user = u] \in Request
    BY IdleType DEF Request
  <2>3. Fresh([Idle EXCEPT !.pc = p, !.user = u])
    BY <1>2 DEF RequestTypeOK, Aside, Idle, TokensKept, ContributionsKept
  <2> QED
    BY <2>1, <2>2, <2>3
<1>5. ASSUME NEW u \in Users, OpenLink(r, u) PROVE Goal
  <2>1. PICK p \in {"magic_touch", "magic_verify"} :
           req' = [req EXCEPT ![r] = [Idle EXCEPT !.pc = p, !.user = u, !.saw = account[u]]]
    BY <1>5 DEF OpenLink, Arrive
  <2>2. account[u] \in Account
    BY DEF TypeOK
  <2>3. [Idle EXCEPT !.pc = p, !.user = u, !.saw = account[u]] \in Request
    BY <2>2, IdleType DEF Request
  <2>4. Fresh([Idle EXCEPT !.pc = p, !.user = u, !.saw = account[u]])
    BY <1>2 DEF RequestTypeOK, Aside, Idle, TokensKept, ContributionsKept
  <2> QED
    BY <2>1, <2>3, <2>4
<1>6. ASSUME NEW u \in Users, Delete(r, u) \/ Export(r, u) PROVE Goal
  <2>1. PICK p \in {"delete_revoke", "export_read"} :
           req' = [req EXCEPT ![r] = [Idle EXCEPT !.pc = p, !.user = u, !.began = Now]]
    BY <1>6 DEF Delete, Export, Arrive
  <2>2. Now \in Extent /\ Now.tokens = Len(tokens) /\ Now.contributions = Len(contributions)
    BY <1>2 DEF TokensKept, ContributionsKept, Now, Extent
  <2>3. [Idle EXCEPT !.pc = p, !.user = u, !.began = Now] \in Request
    BY <2>2, IdleType DEF Request
  <2>4. Fresh([Idle EXCEPT !.pc = p, !.user = u, !.began = Now])
    BY <1>2, <2>2 DEF RequestTypeOK, Aside, Idle, TokensKept, ContributionsKept
  <2> QED
    BY <2>1, <2>3, <2>4
<1>7. ASSUME NEW i \in TokenIds, Refresh(r, i) \/ Logout(r, i) PROVE Goal
  <2>1. PICK p \in {"refresh_check", "revoke_check"} :
           req' = [req EXCEPT ![r] = [Idle EXCEPT !.pc = p, !.user = tokens[i].user, !.token = i]]
    BY <1>7 DEF Refresh, Logout, Arrive
  <2>2. tokens[i].user \in Users /\ i \in Nat
    BY <1>3 DEF Token, TokenIds
  <2>3. [Idle EXCEPT !.pc = p, !.user = tokens[i].user, !.token = i] \in Request
    BY <2>2, IdleType DEF Request
  <2>4. Fresh([Idle EXCEPT !.pc = p, !.user = tokens[i].user, !.token = i])
    BY <1>2, <2>2 DEF RequestTypeOK, Aside, Idle, TokensKept, ContributionsKept
  <2> QED
    BY <2>1, <2>3, <2>4
<1>8. ASSUME NEW i \in TokenIds, NEW all \in BOOLEAN, Revoke(r, i, all) PROVE Goal
  <2>1. PICK p \in {"view_check"} :
           req' = [req EXCEPT ![r] = [Idle EXCEPT !.pc = p, !.user = tokens[i].user, !.token = i, !.all = all]]
    BY <1>8 DEF Revoke, Arrive
  <2>2. tokens[i].user \in Users /\ i \in Nat
    BY <1>3 DEF Token, TokenIds
  <2>3. [Idle EXCEPT !.pc = p, !.user = tokens[i].user, !.token = i, !.all = all] \in Request
    BY <2>2, IdleType DEF Request
  <2>4. Fresh([Idle EXCEPT !.pc = p, !.user = tokens[i].user, !.token = i, !.all = all])
    BY <1>2, <2>2 DEF RequestTypeOK, Aside, Idle, TokensKept, ContributionsKept
  <2> QED
    BY <2>1, <2>3, <2>4
<1> QED
  BY <1>4, <1>5, <1>6, <1>7, <1>8 DEF Arrival

LEMMA ArrivalStep ==
    ASSUME TypeOK, NEW r \in Requests, Arrival(r)
    PROVE  req' \in [Requests -> Request] /\ \A q \in Requests : RequestTypeOK(req[q])'
<1>1. UNCHANGED <<tokens, contributions>>
  BY DEF Arrival, Login, OpenLink, LogoutAll, Delete, Submit, Export, Refresh, Logout, Revoke,
         Arrive, data
<1>2. TokensKept /\ ContributionsKept
  BY <1>1, SameTokens, SameContributions DEF TypeOK
<1>3. PICK x \in Request : req' = [req EXCEPT ![r] = x] /\ RequestTypeOK(x)
  BY ArrivingRequest
<1>4. RequestTypeOK(x)'
  BY <1>2, <1>3, RequestKept
<1> QED
  BY <1>2, <1>3, <1>4, RequestStep

\* The statements that read a token work on a row.
LEMMA TokenAtHand ==
    ASSUME TypeOK, NEW r \in Requests,
           pc(r) \in {"refresh_check", "refresh_insert", "refresh_mark", "view_check",
                     "revoke_check", "revoke_write"}
    PROVE  /\ req[r].token \in TokenIds /\ tokens[req[r].token] \in Token
           /\ tokens[req[r].token].user = req[r].user
BY ElementOfSeq DEF TypeOK, RequestTypeOK, pc, TokenIds

\* No step loses a row, nor anything that is permanent in it.
LEMMA TablesStep == TypeOK /\ [Next]_vars => TokensKept /\ ContributionsKept
<1> SUFFICES ASSUME TypeOK, [Next]_vars PROVE TokensKept /\ ContributionsKept
    OBVIOUS
<1>1. tokens \in Seq(Token) /\ contributions \in Seq(Contribution)
  BY DEF TypeOK
<1>2. \A r \in Requests : pc(r) # "idle" => req[r].user \in Users
  BY DEF TypeOK, RequestTypeOK, pc
<1>3. CASE UNCHANGED <<tokens, contributions>>
  BY <1>1, <1>3, SameTokens, SameContributions
<1>4. ASSUME NEW r \in Requests, LoginIssue(r) PROVE TokensKept /\ ContributionsKept
  <2>1. req[r].user \in Users /\ NoToken \in Nat
    BY <1>2, <1>4 DEF LoginIssue, NoToken
  <2> QED
    BY <1>1, <1>4, <2>1, AppendedToken, SameContributions DEF LoginIssue
<1>5. ASSUME NEW r \in Requests, MagicCommit(r) PROVE TokensKept /\ ContributionsKept
  <2>1. req[r].user \in Users /\ NoToken \in Nat
    BY <1>2, <1>5 DEF MagicCommit, NoToken
  <2> QED
    BY <1>1, <1>5, <2>1, AppendedToken, SameContributions DEF MagicCommit
<1>6. ASSUME NEW r \in Requests, RefreshInsert(r) PROVE TokensKept /\ ContributionsKept
  <2>1. req[r].user \in Users /\ req[r].token \in Nat
    BY <1>2, <1>6, TokenAtHand DEF RefreshInsert, TokenIds
  <2> QED
    BY <1>1, <1>6, <2>1, AppendedToken, SameContributions DEF RefreshInsert
<1>7. ASSUME NEW r \in Requests, RefreshMark(r) PROVE TokensKept /\ ContributionsKept
  <2>1. req[r].token \in TokenIds /\ req[r].new \in TokenIds
    BY <1>7, TokenAtHand DEF RefreshMark, TypeOK, RequestTypeOK, pc
  <2> QED
    BY <1>1, <1>7, <2>1, MarkedToken, SameContributions DEF RefreshMark
<1>8. ASSUME NEW r \in Requests, RevokeWrite(r) \/ RevokeAll(r)
      PROVE  TokensKept /\ ContributionsKept
  BY <1>1, <1>8, RevokedTokens, SameContributions DEF RevokeWrite, RevokeAll
<1>9. ASSUME NEW r \in Requests, SubmitInsert(r) PROVE TokensKept /\ ContributionsKept
  <2>1. req[r].user \in Users
    BY <1>2, <1>9 DEF SubmitInsert
  <2> QED
    BY <1>1, <1>9, <2>1, AppendedContribution, SameTokens DEF SubmitInsert
<1>10. ASSUME NEW r \in Requests, DeleteCommit(r) PROVE TokensKept /\ ContributionsKept
  BY <1>1, <1>10, RevokedTokens, HiddenContributions DEF DeleteCommit
<1>11. ASSUME NEW i \in TokenIds, TokenExpires(i) PROVE TokensKept /\ ContributionsKept
  BY <1>1, <1>11, ExpiredToken, SameContributions DEF TokenExpires
<1>12. ASSUME NEW r \in Requests, Arrival(r) PROVE UNCHANGED <<tokens, contributions>>
  BY <1>12 DEF Arrival, Login, OpenLink, LogoutAll, Delete, Submit, Export, Refresh, Logout,
               Revoke, Arrive, data
<1>13. ASSUME NEW r \in Requests,
              \/ LoginTouch(r) \/ MagicVerify(r) \/ MagicTouch(r) \/ CheckFails(r)
              \/ RefreshCheck(r) \/ RefreshExpired(r) \/ ViewCheck(r) \/ RevokeCheck(r)
              \/ ExportRead(r) \/ DeleteRevoke(r) \/ DeleteHide(r) \/ DeleteClear(r) \/ Fails(r)
       PROVE  UNCHANGED <<tokens, contributions>>
  BY <1>13 DEF LoginTouch, MagicVerify, MagicTouch, CheckFails, RefreshCheck, RefreshExpired,
               ViewCheck, RevokeCheck, ExportRead, DeleteRevoke, DeleteHide, DeleteClear, Fails, data
<1>14. ASSUME NEW u \in Users, SendLink(u) \/ LinkExpires(u)
       PROVE  UNCHANGED <<tokens, contributions>>
  BY <1>14 DEF SendLink, LinkExpires
<1>15. ASSUME NEW r \in Requests, Statement(r) PROVE TokensKept /\ ContributionsKept
  BY <1>3, <1>4, <1>5, <1>6, <1>7, <1>8, <1>9, <1>10, <1>13, <1>15 DEF Statement
<1> QED
  BY <1>3, <1>11, <1>12, <1>13, <1>14, <1>15 DEF Next, vars

\* A request executes a statement.
LEMMA StatementStep ==
    ASSUME TypeOK, [Next]_vars, NEW r \in Requests, Statement(r) \/ Fails(r)
    PROVE  req' \in [Requests -> Request] /\ \A q \in Requests : RequestTypeOK(req[q])'
<1> DEFINE Goal == req' \in [Requests -> Request] /\ \A q \in Requests : RequestTypeOK(req[q])'
<1>1. TokensKept /\ ContributionsKept
  BY TablesStep
<1>2. PICK y \in Request : y = req[r] /\ y.pc = pc(r) /\ RequestTypeOK(y)
  BY DEF TypeOK, pc
<1>3. RequestTypeOK(y)'
  BY <1>1, <1>2, RequestKept
<1>4. CASE Finish(r)
  BY <1>1, <1>4, FinishStep
<1>5. CASE \/ LoginIssue(r) \/ MagicCommit(r) \/ CheckFails(r) \/ RefreshExpired(r)
           \/ RefreshMark(r) \/ RevokeWrite(r) \/ RevokeAll(r) \/ SubmitInsert(r)
           \/ ExportRead(r) \/ DeleteCommit(r) \/ Fails(r)
  BY <1>4, <1>5 DEF LoginIssue, MagicCommit, CheckFails, RefreshExpired, RefreshMark, RevokeWrite,
                    RevokeAll, SubmitInsert, ExportRead, DeleteCommit, Fails
<1>6. CASE LoginTouch(r) \/ MagicVerify(r) \/ MagicTouch(r) \/ DeleteClear(r)
  <2>1. CASE LoginTouch(r)
    BY <2>1, GotoStep DEF LoginTouch, data
  <2>2. CASE MagicVerify(r)
    BY <2>2, GotoStep DEF MagicVerify, data
  <2>3. CASE MagicTouch(r)
    BY <2>3, GotoStep DEF MagicTouch, data
  <2>4. CASE DeleteClear(r)
    BY <2>4, GotoStep DEF DeleteClear, data
  <2> QED
    BY <1>6, <2>1, <2>2, <2>3, <2>4
<1>7. CASE ViewCheck(r)
  <2>1. PICK next \in {"revoke_all", "revoke_check"} : Goto(r, next)
    BY <1>7 DEF ViewCheck
  <2> QED
    BY <1>7, <2>1, GotoStep DEF ViewCheck, data
<1>8. CASE RevokeCheck(r)
  BY <1>8, GotoStep DEF RevokeCheck, data
<1>9. CASE RefreshCheck(r)
  <2>1. PICK t \in Token : t = tokens[req[r].token]
    BY <1>9, TokenAtHand DEF RefreshCheck
  <2> DEFINE x == [y EXCEPT !.pc = "refresh_insert", !.row = t]
  <2>2. req' = [req EXCEPT ![r] = x]
    BY <1>2, <1>9, <2>1 DEF RefreshCheck
  <2>3. t \in Copy
    BY DEF Token, Copy
  <2>4. x \in Request
    BY <2>3 DEF Request
  <2>5. RequestTypeOK(x)'
    BY <1>2, <1>3, <1>9 DEF RequestTypeOK, RefreshCheck, Request
  <2> QED
    BY <1>1, <2>2, <2>4, <2>5, RequestStep
<1>10. CASE RefreshInsert(r)
  <2>1. req[r].user \in Users /\ req[r].token \in Nat
    BY <1>2, <1>10 DEF RefreshInsert, RequestTypeOK, Request
  <2>2. PICK n \in Nat : n = Len(tokens) + 1 /\ n \in 1..Len(tokens')
    BY <1>1, <1>10, <2>1, AppendedToken DEF RefreshInsert, TypeOK, TokensKept
  <2> DEFINE x == [y EXCEPT !.pc = "refresh_mark", !.new = n]
  <2>3. req' = [req EXCEPT ![r] = x]
    BY <1>2, <1>10, <2>2 DEF RefreshInsert
  <2>4. x \in Request
    BY DEF Request
  <2>5. RequestTypeOK(x)'
    BY <1>2, <1>3, <1>10, <2>2 DEF RequestTypeOK, RefreshInsert, Request, TokenIds
  <2> QED
    BY <1>1, <2>3, <2>4, <2>5, RequestStep
<1>11. CASE DeleteRevoke(r)
  <2>0. ActiveTokens(req[r].user) \in SUBSET Nat /\ ActiveTokens(req[r].user) \subseteq 1..Len(tokens')
    BY <1>1 DEF ActiveTokens, TokensKept, TokenIds
  <2>1. PICK ids \in SUBSET Nat : ids = ActiveTokens(req[r].user) /\ ids \subseteq 1..Len(tokens')
    BY <2>0
  <2> DEFINE x == [y EXCEPT !.pc = "delete_hide", !.revoking = ids]
  <2>2. req' = [req EXCEPT ![r] = x]
    BY <1>2, <1>11, <2>1 DEF DeleteRevoke
  <2>3. x \in Request
    BY DEF Request
  <2>4. RequestTypeOK(x)'
    BY <1>2, <1>3, <1>11, <2>1 DEF RequestTypeOK, DeleteRevoke, Request, TokenIds
  <2> QED
    BY <1>1, <2>2, <2>3, <2>4, RequestStep
<1>12. CASE DeleteHide(r)
  <2>0. /\ OwnContributions(req[r].user) \in SUBSET Nat
        /\ OwnContributions(req[r].user) \subseteq 1..Len(contributions')
    BY <1>1 DEF OwnContributions, ContributionsKept, ContributionIds
  <2>1. PICK ids \in SUBSET Nat : /\ ids = OwnContributions(req[r].user)
                                  /\ ids \subseteq 1..Len(contributions')
    BY <2>0
  <2> DEFINE x == [y EXCEPT !.pc = "delete_clear", !.hiding = ids]
  <2>2. req' = [req EXCEPT ![r] = x]
    BY <1>2, <1>12, <2>1 DEF DeleteHide
  <2>3. x \in Request
    BY DEF Request
  <2>4. RequestTypeOK(x)'
    BY <1>2, <1>3, <1>12, <2>1 DEF RequestTypeOK, DeleteHide, Request, ContributionIds
  <2> QED
    BY <1>1, <2>2, <2>3, <2>4, RequestStep
<1> QED
  BY <1>5, <1>6, <1>7, <1>8, <1>9, <1>10, <1>11, <1>12 DEF Statement

\* What a step does to the accounts: it may delete one or verify its email.
AccountsKept ==
    /\ account' \in [Users -> Account]
    /\ \A u \in Users : \/ account'[u] = Deleted
                        \/ /\ account'[u].active = account[u].active
                           /\ account'[u].identity = account[u].identity

LEMMA AccountsStep == TypeOK /\ [Next]_vars => AccountsKept
<1> SUFFICES ASSUME TypeOK, [Next]_vars PROVE AccountsKept
    OBVIOUS
<1>1. account \in [Users -> Account]
  BY DEF TypeOK
<1>2. CASE UNCHANGED account
  BY <1>1, <1>2 DEF AccountsKept
<1>3. ASSUME NEW r \in Requests, MagicCommit(r) PROVE AccountsKept
  <2>1. PICK u \in Users : u = req[r].user
    BY <1>3 DEF MagicCommit, TypeOK, RequestTypeOK, pc
  <2>2. PICK a \in Account : a = account[u]
    BY <1>1
  <2>3. PICK b \in BOOLEAN : b = (a.verified \/ ~req[r].saw.verified)
    OBVIOUS
  <2>4. account' = [account EXCEPT ![u] = [a EXCEPT !.verified = b]]
    BY <1>3, <2>1, <2>2, <2>3 DEF MagicCommit
  <2>5. /\ [a EXCEPT !.verified = b] \in Account
        /\ [a EXCEPT !.verified = b].active = a.active
        /\ [a EXCEPT !.verified = b].identity = a.identity
    BY DEF Account
  <2> QED
    BY <1>1, <2>2, <2>4, <2>5 DEF AccountsKept
<1>4. ASSUME NEW r \in Requests, DeleteCommit(r) PROVE AccountsKept
  <2>1. account' = [account EXCEPT ![req[r].user] = Deleted] /\ Deleted \in Account
    BY <1>4 DEF DeleteCommit, Deleted, Account
  <2> QED
    BY <1>1, <2>1 DEF AccountsKept
<1>5. ASSUME ~UNCHANGED account, NEW r \in Requests, Arrival(r) \/ Statement(r) \/ Fails(r)
      PROVE  MagicCommit(r) \/ DeleteCommit(r)
  <2>1. ASSUME Arrival(r) PROVE FALSE
    BY <1>5, <2>1 DEF Arrival, Login, OpenLink, LogoutAll, Delete, Submit, Export, Refresh, Logout,
                      Revoke, Arrive, data
  <2>2. ASSUME Fails(r) PROVE FALSE
    BY <1>5, <2>2 DEF Fails, data
  <2> QED
    BY <1>5, <2>1, <2>2
       DEF Statement, LoginTouch, LoginIssue, MagicVerify, MagicTouch, CheckFails, RefreshCheck,
           RefreshExpired, RefreshInsert, RefreshMark, ViewCheck, RevokeCheck, RevokeWrite,
           RevokeAll, SubmitInsert, ExportRead, DeleteRevoke, DeleteHide, DeleteClear, data
<1> QED
  BY <1>2, <1>3, <1>4, <1>5 DEF Next, vars, SendLink, LinkExpires, TokenExpires

LEMMA InitType == Init => TypeOK
<1> SUFFICES ASSUME Init PROVE TypeOK
    OBVIOUS
<1>1. tokens \in Seq(Token) /\ contributions \in Seq(Contribution)
  BY EmptySeq DEF Init
<1>2. \A v \in BOOLEAN : [active |-> TRUE, identity |-> TRUE, verified |-> v] \in Account
  BY DEF Account
<1>3. account \in [Users -> Account]
  BY <1>2 DEF Init
<1>4. req \in [Requests -> Request] /\ \A r \in Requests : req[r] = Idle
  BY IdleType DEF Init
<1>5. Len(tokens) = 0 /\ Len(contributions) = 0
  BY EmptySeq DEF Init
<1>6. RequestTypeOK(Idle)
  BY <1>5 DEF RequestTypeOK, Idle
<1>7. past \in [Users -> Extent]
  BY DEF Init, Extent
<1> QED
  BY <1>1, <1>3, <1>4, <1>6, <1>7 DEF Init, TypeOK

\* Row locks, links, bounds, and what a completed deletion has left behind.
LEMMA LocksStep ==
    TypeOK /\ [Next]_vars =>
        /\ rowLock' \in [Users -> Requests \cup {NoRequest}] /\ link' \in [Users -> BOOLEAN]
        /\ past' \in [Users -> Extent] /\ arrivals' \in Nat /\ failures' \in Nat
<1> SUFFICES ASSUME TypeOK, [Next]_vars
             PROVE  /\ rowLock' \in [Users -> Requests \cup {NoRequest}]
                    /\ link' \in [Users -> BOOLEAN] /\ past' \in [Users -> Extent]
                    /\ arrivals' \in Nat /\ failures' \in Nat
    OBVIOUS
<1> DEFINE Goal == /\ rowLock' \in [Users -> Requests \cup {NoRequest}]
                   /\ link' \in [Users -> BOOLEAN] /\ past' \in [Users -> Extent]
                   /\ arrivals' \in Nat /\ failures' \in Nat
<1>1. ASSUME UNCHANGED <<link, rowLock, past, failures>>,
             arrivals' \in {arrivals, arrivals + 1}
      PROVE  Goal
  BY <1>1 DEF TypeOK
<1>2. ASSUME NEW r \in Requests, Arrival(r) PROVE Goal
  BY <1>1, <1>2 DEF Arrival, Login, OpenLink, LogoutAll, Delete, Submit, Export, Refresh, Logout,
                    Revoke, Arrive, data
<1>3. ASSUME NEW r \in Requests, MagicVerify(r) \/ MagicTouch(r) \/ DeleteClear(r) PROVE Goal
  <2>1. /\ rowLock' = [rowLock EXCEPT ![req[r].user] = r]
        /\ UNCHANGED <<link, past, arrivals, failures>>
    BY <1>3 DEF MagicVerify, MagicTouch, DeleteClear, data
  <2> QED
    BY <2>1 DEF TypeOK
<1>4. ASSUME NEW r \in Requests, MagicCommit(r) PROVE Goal
  BY <1>4 DEF MagicCommit, TypeOK
<1>5. ASSUME NEW r \in Requests, DeleteCommit(r) PROVE Goal
  <2>1. req[r].began \in Extent
    BY DEF TypeOK, Request
  <2> QED
    BY <1>5, <2>1 DEF DeleteCommit, TypeOK
<1>6. ASSUME NEW r \in Requests, Fails(r) PROVE Goal
  BY <1>6 DEF Fails, data, TypeOK
<1>7. ASSUME NEW u \in Users, SendLink(u) \/ LinkExpires(u) PROVE Goal
  <2>1. PICK b \in BOOLEAN : link' = [link EXCEPT ![u] = b]
    BY <1>7 DEF SendLink, LinkExpires
  <2> QED
    BY <1>7, <2>1 DEF SendLink, LinkExpires, TypeOK
<1>8. ASSUME NEW r \in Requests,
             \/ LoginTouch(r) \/ LoginIssue(r) \/ CheckFails(r) \/ RefreshCheck(r)
             \/ RefreshExpired(r) \/ RefreshInsert(r) \/ RefreshMark(r) \/ ViewCheck(r)
             \/ RevokeCheck(r) \/ RevokeWrite(r) \/ RevokeAll(r) \/ SubmitInsert(r)
             \/ ExportRead(r) \/ DeleteRevoke(r) \/ DeleteHide(r)
      PROVE  Goal
  BY <1>1, <1>8 DEF LoginTouch, LoginIssue, CheckFails, RefreshCheck, RefreshExpired,
                    RefreshInsert, RefreshMark, ViewCheck, RevokeCheck, RevokeWrite, RevokeAll,
                    SubmitInsert, ExportRead, DeleteRevoke, DeleteHide, data
<1>9. ASSUME NEW r \in Requests, Statement(r) PROVE Goal
  BY <1>3, <1>4, <1>5, <1>8, <1>9 DEF Statement
<1>10. ASSUME NEW i \in TokenIds, TokenExpires(i) PROVE Goal
  BY <1>1, <1>10 DEF TokenExpires
<1>11. CASE UNCHANGED vars
  BY <1>1, <1>11 DEF vars
<1> QED
  BY <1>2, <1>6, <1>7, <1>9, <1>10, <1>11 DEF Next

LEMMA TypeStep == TypeOK /\ [Next]_vars => TypeOK'
<1> SUFFICES ASSUME TypeOK, [Next]_vars PROVE TypeOK'
    OBVIOUS
<1>1. TokensKept /\ ContributionsKept /\ AccountsKept
  BY TablesStep, AccountsStep
<1>2. req' \in [Requests -> Request] /\ \A r \in Requests : RequestTypeOK(req[r])'
  <2>1. CASE UNCHANGED req
    <3>1. ASSUME NEW r \in Requests PROVE RequestTypeOK(req[r])'
      <4>1. PICK y \in Request : y = req[r] /\ RequestTypeOK(y)
        BY DEF TypeOK
      <4>2. RequestTypeOK(y)'
        BY <1>1, <4>1, RequestKept
      <4> QED
        BY <2>1, <4>1, <4>2 DEF RequestTypeOK
    <3> QED
      BY <2>1, <3>1 DEF TypeOK
  <2>2. CASE \E r \in Requests : Arrival(r)
    BY <2>2, ArrivalStep
  <2>3. CASE \E r \in Requests : Statement(r) \/ Fails(r)
    BY <2>3, StatementStep
  <2> QED
    BY <2>1, <2>2, <2>3 DEF Next, vars, SendLink, LinkExpires, TokenExpires
<1> QED
  BY <1>1, <1>2, LocksStep DEF TypeOK, TokensKept, ContributionsKept, AccountsKept

\* Every variable keeps its type, and a request works on rows that exist
\* (accounts/models.py:165-271, account_deletion.py:149-316).
THEOREM SessionTypeCorrect == Spec => []TypeOK
BY InitType, TypeStep, PTL DEF Spec

(****************************************************************************)
(* What is permanent                                                        *)
(****************************************************************************)

\* A dead token stays dead: no step writes an old copy of its row back
\* (accounts/models.py:243-253).
THEOREM DeathIsPermanent == Spec => DeadTokensStayDead
<1>1. TypeOK /\ [Next]_vars =>
         [\A i \in TokenIds : /\ tokens[i].revoked => tokens'[i].revoked
                              /\ tokens[i].next # NoToken => tokens'[i].next # NoToken]_vars
  BY TablesStep DEF TokensKept
<1> QED
  BY <1>1, SessionTypeCorrect, PTL DEF Spec, DeadTokensStayDead

\* Who is deleted has no identity.
DeletedIsAnonymous == \A u \in Users : account[u].active \/ ~account[u].identity

LEMMA AnonymousStep ==
    TypeOK /\ DeletedIsAnonymous /\ [Next]_vars =>
        /\ DeletedIsAnonymous'
        /\ \A u \in Users : ~account[u].active => ~account'[u].active /\ ~account'[u].identity
BY AccountsStep DEF AccountsKept, DeletedIsAnonymous, Deleted

\* A deletion is final (account_deletion.py:22).
THEOREM DeletionIsPermanent == Spec => DeletionIsFinal
<1>1. Init => DeletedIsAnonymous
  <2> SUFFICES ASSUME Init, NEW u \in Users PROVE account[u].active
      BY DEF DeletedIsAnonymous
  <2>1. PICK v \in BOOLEAN : account[u] = [active |-> TRUE, identity |-> TRUE, verified |-> v]
    BY DEF Init
  <2> QED
    BY <2>1
<1>2. TypeOK /\ DeletedIsAnonymous /\ [Next]_vars =>
         [\A u \in Users : ~account[u].active => ~account'[u].active /\ ~account'[u].identity]_vars
  BY AnonymousStep
<1> QED
  BY <1>1, <1>2, AnonymousStep, SessionTypeCorrect, PTL DEF Spec, DeletionIsFinal

(****************************************************************************)
(* Which steps matter to rotation and deletion                              *)
(****************************************************************************)

\* No request is taken further in its rotation or deletion.
OrdinaryRequests ==
    \A r \in Requests : \/ req'[r] = req[r]
                       \/ /\ Aside(req'[r])
                          /\ \/ req'[r].hiding = {}
                             \/ req'[r].hiding = req[r].hiding /\ req'[r].user = req[r].user

\* A step that, besides, replaces no token, adds and hides no contribution and
\* deletes no account.
OrdinaryStep ==
    /\ \A i \in TokenIds : tokens'[i].next = tokens[i].next
    /\ UNCHANGED <<contributions, past>>
    /\ \A u \in Users : account'[u].active = account[u].active
    /\ OrdinaryRequests

LEMMA OrdinaryFinish ==
    ASSUME TypeOK, NEW r \in Requests, Finish(r) PROVE OrdinaryRequests
BY DEF TypeOK, Finish, OrdinaryRequests, Aside, Idle

LEMMA OrdinaryGoto ==
    ASSUME TypeOK, NEW r \in Requests, NEW next, Goto(r, next),
           next \notin {"refresh_mark", "delete_hide", "delete_clear", "delete_commit"}
    PROVE  OrdinaryRequests
<1>1. PICK y \in Request : y = req[r]
  BY DEF TypeOK
<1>2. req'[r] = [y EXCEPT !.pc = next] /\ \A q \in Requests \ {r} : req'[q] = req[q]
  BY <1>1 DEF TypeOK, Goto
<1>3. req'[r].pc = next /\ req'[r].hiding = y.hiding /\ req'[r].user = y.user
  BY <1>2 DEF Request
<1> QED
  BY <1>1, <1>2, <1>3 DEF OrdinaryRequests, Aside

LEMMA OrdinaryArrival ==
    ASSUME TypeOK, NEW r \in Requests, Arrival(r) PROVE OrdinaryRequests
<1>1. PICK x \in Request : req' = [req EXCEPT ![r] = x] /\ Aside(x) /\ x.hiding = {}
  BY ArrivingRequest
<1> QED
  BY <1>1 DEF TypeOK, OrdinaryRequests

\* The steps that matter.
RotatesOrDeletes ==
    \E r \in Requests : \/ RefreshInsert(r) \/ RefreshMark(r) \/ SubmitInsert(r)
                       \/ DeleteRevoke(r) \/ DeleteHide(r) \/ DeleteClear(r) \/ DeleteCommit(r)

LEMMA StepKinds == TypeOK /\ [Next]_vars => OrdinaryStep \/ RotatesOrDeletes
<1> SUFFICES ASSUME TypeOK, [Next]_vars, ~RotatesOrDeletes PROVE OrdinaryStep
    OBVIOUS
<1>1. tokens \in Seq(Token)
  BY DEF TypeOK
<1>2. ASSUME \A i \in TokenIds : tokens'[i].next = tokens[i].next,
             UNCHANGED <<contributions, past>>,
             \A u \in Users : account'[u].active = account[u].active, OrdinaryRequests
      PROVE  OrdinaryStep
  BY <1>2 DEF OrdinaryStep
<1>3. ASSUME UNCHANGED req PROVE OrdinaryRequests
  BY <1>3 DEF OrdinaryRequests
<1>4. ASSUME NEW r \in Requests, Arrival(r) PROVE OrdinaryStep
  <2>1. UNCHANGED <<tokens, contributions, past, account>>
    BY <1>4 DEF Arrival, Login, OpenLink, LogoutAll, Delete, Submit, Export, Refresh, Logout,
                Revoke, Arrive, data
  <2> QED
    BY <1>2, <1>4, <2>1, OrdinaryArrival
<1>5. ASSUME NEW r \in Requests,
             LoginTouch(r) \/ MagicVerify(r) \/ MagicTouch(r) \/ ViewCheck(r) \/ RevokeCheck(r)
      PROVE  OrdinaryStep
  <2>1. UNCHANGED <<tokens, contributions, past, account>>
    BY <1>5 DEF LoginTouch, MagicVerify, MagicTouch, ViewCheck, RevokeCheck, data
  <2>2. PICK next \in {"login_issue", "magic_touch", "magic_commit", "revoke_all",
                       "revoke_check", "revoke_write"} : Goto(r, next)
    BY <1>5 DEF LoginTouch, MagicVerify, MagicTouch, ViewCheck, RevokeCheck
  <2> QED
    BY <1>2, <2>1, <2>2, OrdinaryGoto
<1>6. ASSUME NEW r \in Requests, CheckFails(r) \/ RefreshExpired(r) \/ ExportRead(r) \/ Fails(r)
      PROVE  OrdinaryStep
  BY <1>2, <1>6, OrdinaryFinish DEF CheckFails, RefreshExpired, ExportRead, Fails, data
<1>7. ASSUME NEW r \in Requests, RefreshCheck(r) PROVE OrdinaryStep
  <2>1. PICK y \in Request : y = req[r]
    BY DEF TypeOK
  <2>2. PICK t : t = tokens[req[r].token]
    OBVIOUS
  <2>3. /\ req'[r] = [y EXCEPT !.pc = "refresh_insert", !.row = t]
        /\ \A q \in Requests \ {r} : req'[q] = req[q]
    BY <1>7, <2>1, <2>2 DEF RefreshCheck, TypeOK
  <2>4. /\ req'[r].pc = "refresh_insert" /\ req'[r].hiding = y.hiding
        /\ req'[r].user = y.user
    BY <2>3 DEF Request
  <2>5. OrdinaryRequests
    BY <2>1, <2>3, <2>4 DEF OrdinaryRequests, Aside
  <2> QED
    BY <1>2, <1>7, <2>5 DEF RefreshCheck, data
<1>8. ASSUME NEW r \in Requests, LoginIssue(r) PROVE OrdinaryStep
  <2>1. req[r].user \in Users /\ NoToken \in Nat
    BY <1>8 DEF LoginIssue, NoToken, TypeOK, RequestTypeOK, pc
  <2>2. \A i \in TokenIds : tokens'[i] = tokens[i]
    BY <1>1, <1>8, <2>1, AppendedToken DEF LoginIssue
  <2> QED
    BY <1>2, <1>8, <2>2, OrdinaryFinish DEF LoginIssue
<1>9. ASSUME NEW r \in Requests, MagicCommit(r) PROVE OrdinaryStep
  <2>1. PICK u \in Users : u = req[r].user /\ NoToken \in Nat
    BY <1>9 DEF MagicCommit, NoToken, TypeOK, RequestTypeOK, pc
  <2>2. \A i \in TokenIds : tokens'[i] = tokens[i]
    BY <1>1, <1>9, <2>1, AppendedToken DEF MagicCommit
  <2>3. PICK a \in Account, b \in BOOLEAN :
           a = account[u] /\ account' = [account EXCEPT ![u] = [a EXCEPT !.verified = b]]
    <3>1. PICK a \in Account : a = account[u]
      BY DEF TypeOK
    <3>2. PICK b \in BOOLEAN : b = (a.verified \/ ~req[r].saw.verified)
      OBVIOUS
    <3> QED
      BY <1>9, <2>1, <3>1, <3>2 DEF MagicCommit
  <2>4. [a EXCEPT !.verified = b].active = a.active
    BY DEF Account
  <2>5. \A w \in Users : account'[w].active = account[w].active
    BY <2>3, <2>4 DEF TypeOK
  <2> QED
    BY <1>2, <1>9, <2>2, <2>5, OrdinaryFinish DEF MagicCommit
<1>10. ASSUME NEW r \in Requests, RevokeWrite(r) \/ RevokeAll(r) PROVE OrdinaryStep
  <2>1. PICK ids : tokens' = Revoked(ids)
    BY <1>10 DEF RevokeWrite, RevokeAll
  <2> QED
    BY <1>1, <1>2, <1>10, <2>1, RevokedTokens, OrdinaryFinish DEF RevokeWrite, RevokeAll
<1>11. ASSUME NEW i \in TokenIds, TokenExpires(i) PROVE OrdinaryStep
  BY <1>1, <1>2, <1>3, <1>11, ExpiredToken DEF TokenExpires
<1>12. ASSUME NEW u \in Users, SendLink(u) \/ LinkExpires(u) PROVE OrdinaryStep
  BY <1>2, <1>3, <1>12 DEF SendLink, LinkExpires
<1>13. CASE UNCHANGED vars
  BY <1>2, <1>3, <1>13 DEF vars
<1>14. ASSUME NEW r \in Requests, Statement(r) PROVE OrdinaryStep
  BY <1>5, <1>6, <1>7, <1>8, <1>9, <1>10, <1>14 DEF Statement, RotatesOrDeletes
<1> QED
  BY <1>4, <1>6, <1>11, <1>12, <1>13, <1>14 DEF Next

(****************************************************************************)
(* Rotation                                                                 *)
(****************************************************************************)

\* replaced_by names a row.
SuccessorExists == \A i \in TokenIds : tokens[i].next \in TokenIds \cup {NoToken}

\* A rotation that has inserted its token has inserted it for the token it will mark.
RotationIsOwn ==
    \A r \in Requests : pc(r) = "refresh_mark" =>
        tokens[req[r].new].parent = req[r].token /\ tokens[req[r].new].user = req[r].user

RotationInvariant == SuccessorExists /\ RotationIsOwn /\ SuccessorIsOwn

\* What the steps that matter do to the request that takes them.
LEMMA StatementOfRequest ==
    ASSUME TypeOK, NEW r \in Requests
    PROVE  /\ RefreshInsert(r) => req'[r].pc = "refresh_mark" /\ req'[r].new = Len(tokens) + 1
                                   /\ req'[r].token = req[r].token
                                   /\ req'[r].user = req[r].user /\ req'[r].hiding = req[r].hiding
           /\ RefreshMark(r) \/ SubmitInsert(r) \/ DeleteCommit(r) => req'[r] = Idle
           /\ DeleteRevoke(r) => req'[r].pc = "delete_hide" /\ req'[r].user = req[r].user
                                  /\ req'[r].revoking = ActiveTokens(req[r].user)
                                  /\ req'[r].hiding = req[r].hiding
                                  /\ req'[r].began = req[r].began
           /\ DeleteHide(r) => req'[r].pc = "delete_clear" /\ req'[r].user = req[r].user
                                /\ req'[r].hiding = OwnContributions(req[r].user)
                                /\ req'[r].revoking = req[r].revoking
                                /\ req'[r].began = req[r].began
           /\ DeleteClear(r) => req'[r].pc = "delete_commit" /\ req'[r].user = req[r].user
                                 /\ req'[r].hiding = req[r].hiding
                                 /\ req'[r].revoking = req[r].revoking
                                 /\ req'[r].began = req[r].began
           /\ RefreshInsert(r) \/ RefreshMark(r) \/ SubmitInsert(r) \/ DeleteRevoke(r)
                 \/ DeleteHide(r) \/ DeleteClear(r) \/ DeleteCommit(r)
              => \A q \in Requests \ {r} : req'[q] = req[q]
<1>1. PICK y \in Request : y = req[r] /\ req \in [Requests -> Request]
  BY DEF TypeOK
<1>2. ASSUME RefreshInsert(r)
      PROVE  /\ req'[r].pc = "refresh_mark" /\ req'[r].new = Len(tokens) + 1
             /\ req'[r].token = y.token /\ req'[r].user = y.user /\ req'[r].hiding = y.hiding
  <2>1. PICK n : n = Len(tokens) + 1
    OBVIOUS
  <2>2. req'[r] = [y EXCEPT !.pc = "refresh_mark", !.new = n]
    BY <1>1, <1>2, <2>1 DEF RefreshInsert
  <2> QED
    BY <2>1, <2>2 DEF Request
<1>3. ASSUME DeleteRevoke(r)
      PROVE  /\ req'[r].pc = "delete_hide" /\ req'[r].user = y.user
             /\ req'[r].revoking = ActiveTokens(req[r].user)
             /\ req'[r].hiding = y.hiding /\ req'[r].began = y.began
  <2>1. PICK ids : ids = ActiveTokens(req[r].user)
    OBVIOUS
  <2>2. req'[r] = [y EXCEPT !.pc = "delete_hide", !.revoking = ids]
    BY <1>1, <1>3, <2>1 DEF DeleteRevoke
  <2> QED
    BY <2>1, <2>2 DEF Request
<1>4. ASSUME DeleteHide(r)
      PROVE  /\ req'[r].pc = "delete_clear" /\ req'[r].user = y.user
             /\ req'[r].hiding = OwnContributions(req[r].user)
             /\ req'[r].revoking = y.revoking /\ req'[r].began = y.began
  <2>1. PICK ids : ids = OwnContributions(req[r].user)
    OBVIOUS
  <2>2. req'[r] = [y EXCEPT !.pc = "delete_clear", !.hiding = ids]
    BY <1>1, <1>4, <2>1 DEF DeleteHide
  <2> QED
    BY <2>1, <2>2 DEF Request
<1>5. ASSUME DeleteClear(r)
      PROVE  /\ req'[r].pc = "delete_commit" /\ req'[r].user = y.user
             /\ req'[r].hiding = y.hiding /\ req'[r].revoking = y.revoking
             /\ req'[r].began = y.began
  <2>1. req'[r] = [y EXCEPT !.pc = "delete_commit"]
    BY <1>1, <1>5 DEF DeleteClear, Goto
  <2> QED
    BY <2>1 DEF Request
<1>6. RefreshMark(r) \/ SubmitInsert(r) \/ DeleteCommit(r) => req'[r] = Idle
  BY <1>1 DEF RefreshMark, SubmitInsert, DeleteCommit, Finish
<1>7. RefreshInsert(r) \/ RefreshMark(r) \/ SubmitInsert(r) \/ DeleteRevoke(r) \/ DeleteHide(r)
         \/ DeleteClear(r) \/ DeleteCommit(r) => \A q \in Requests \ {r} : req'[q] = req[q]
  BY <1>1 DEF RefreshInsert, RefreshMark, SubmitInsert, DeleteRevoke, DeleteHide, DeleteClear,
              DeleteCommit, Finish, Goto
<1> QED
  BY <1>1, <1>2, <1>3, <1>4, <1>5, <1>6, <1>7

\* Only a rotation replaces a token.
LEMMA NextStep ==
    ASSUME TypeOK, [Next]_vars, ~\E r \in Requests : RefreshMark(r)
    PROVE  \A i \in TokenIds : tokens'[i].next = tokens[i].next
<1>1. tokens \in Seq(Token)
  BY DEF TypeOK
<1>2. ASSUME NEW r \in Requests, RefreshInsert(r)
      PROVE  \A i \in TokenIds : tokens'[i].next = tokens[i].next
  <2>1. req[r].user \in Users /\ req[r].token \in Nat
    BY <1>2, TokenAtHand DEF RefreshInsert, TypeOK, RequestTypeOK, pc, TokenIds
  <2> QED
    BY <1>1, <1>2, <2>1, AppendedToken DEF RefreshInsert
<1>3. ASSUME NEW r \in Requests, DeleteCommit(r)
      PROVE  \A i \in TokenIds : tokens'[i].next = tokens[i].next
  BY <1>1, <1>3, RevokedTokens DEF DeleteCommit
<1>4. ASSUME NEW r \in Requests,
             SubmitInsert(r) \/ DeleteRevoke(r) \/ DeleteHide(r) \/ DeleteClear(r)
      PROVE  UNCHANGED tokens
  BY <1>4 DEF SubmitInsert, DeleteRevoke, DeleteHide, DeleteClear, data
<1> QED
  BY <1>2, <1>3, <1>4, StepKinds DEF OrdinaryStep, RotatesOrDeletes

LEMMA RotationIsOwnStep ==
    TypeOK /\ RotationIsOwn /\ [Next]_vars => RotationIsOwn'
<1> SUFFICES ASSUME TypeOK, RotationIsOwn, [Next]_vars, NEW r \in Requests,
                    req'[r].pc = "refresh_mark"
             PROVE  /\ tokens'[req'[r].new].parent = req'[r].token
                    /\ tokens'[req'[r].new].user = req'[r].user
    BY DEF RotationIsOwn, pc
<1>1. CASE req'[r] = req[r]
  <2>1. req[r].new \in TokenIds
    BY <1>1 DEF TypeOK, RequestTypeOK
  <2> QED
    BY <1>1, <2>1, TablesStep DEF RotationIsOwn, pc, TokensKept
<1>2. CASE RefreshInsert(r)
  <2>1. req[r].user \in Users /\ req[r].token \in Nat
    BY <1>2, TokenAtHand DEF RefreshInsert, TypeOK, RequestTypeOK, pc, TokenIds
  <2>2. tokens'[Len(tokens) + 1] = NewToken(req[r].user, req[r].token)
    BY <1>2, <2>1, AppendedToken DEF RefreshInsert, TypeOK
  <2> QED
    BY <1>2, <2>2, StatementOfRequest DEF NewToken
<1>3. req'[r] = req[r] \/ RefreshInsert(r)
  <2>1. CASE OrdinaryStep
    BY <2>1 DEF OrdinaryStep, OrdinaryRequests, Aside
  <2>2. ASSUME NEW q \in Requests, q # r,
               \/ RefreshInsert(q) \/ RefreshMark(q) \/ SubmitInsert(q) \/ DeleteRevoke(q)
               \/ DeleteHide(q) \/ DeleteClear(q) \/ DeleteCommit(q)
        PROVE  req'[r] = req[r]
    BY <2>2, StatementOfRequest
  <2>3. ASSUME \/ RefreshMark(r) \/ SubmitInsert(r) \/ DeleteRevoke(r)
               \/ DeleteHide(r) \/ DeleteClear(r) \/ DeleteCommit(r)
        PROVE  FALSE
    BY <2>3, StatementOfRequest DEF Idle
  <2> QED
    BY <2>1, <2>2, <2>3, StepKinds DEF RotatesOrDeletes
<1> QED
  BY <1>1, <1>2, <1>3

LEMMA SuccessorStep ==
    TypeOK /\ RotationInvariant /\ [Next]_vars => SuccessorExists' /\ SuccessorIsOwn'
<1> SUFFICES ASSUME TypeOK, RotationInvariant, [Next]_vars, NEW i \in 1..Len(tokens'),
                    tokens'[i].next # NoToken
             PROVE  /\ tokens'[i].next \in 1..Len(tokens')
                    /\ tokens'[tokens'[i].next].parent = i
                    /\ tokens'[tokens'[i].next].user = tokens'[i].user
    BY DEF SuccessorExists, SuccessorIsOwn, TokenIds
<1>1. TokensKept
  BY TablesStep
<1>2. i \in TokenIds
  BY <1>1 DEF TokensKept
<1>3. CASE tokens'[i].next = tokens[i].next
  <2>1. PICK n \in TokenIds : n = tokens[i].next
    BY <1>2, <1>3 DEF RotationInvariant, SuccessorExists
  <2>2. tokens[n].parent = i /\ tokens[n].user = tokens[i].user
    BY <1>2, <1>3, <2>1 DEF RotationInvariant, SuccessorIsOwn
  <2>3. tokens'[n].parent = i /\ tokens'[n].user = tokens'[i].user /\ n \in 1..Len(tokens')
    BY <1>1, <1>2, <2>2 DEF TokensKept, TokenIds
  <2> QED
    BY <1>3, <2>1, <2>3
<1>4. ASSUME tokens'[i].next # tokens[i].next
      PROVE  \E r \in Requests : /\ pc(r) = "refresh_mark" /\ i = req[r].token
                                 /\ tokens'[i].next = req[r].new
  <2>1. PICK r \in Requests : RefreshMark(r)
    BY <1>2, <1>4, NextStep
  <2>2. req[r].token \in TokenIds /\ req[r].new \in TokenIds
    BY <2>1, TokenAtHand DEF RefreshMark, TypeOK, RequestTypeOK, pc
  <2> QED
    BY <1>2, <1>4, <2>1, <2>2, MarkedToken DEF RefreshMark, TypeOK
<1>5. ASSUME NEW r \in Requests, pc(r) = "refresh_mark", i = req[r].token,
             tokens'[i].next = req[r].new
      PROVE  /\ tokens'[i].next \in 1..Len(tokens')
             /\ tokens'[tokens'[i].next].parent = i
             /\ tokens'[tokens'[i].next].user = tokens'[i].user
  <2>1. PICK n \in TokenIds : n = req[r].new
    BY <1>5 DEF TypeOK, RequestTypeOK, pc
  <2>2. tokens[n].parent = i /\ tokens[n].user = tokens[i].user
    BY <1>5, <2>1, TokenAtHand DEF RotationInvariant, RotationIsOwn
  <2>3. tokens'[n].parent = i /\ tokens'[n].user = tokens'[i].user /\ n \in 1..Len(tokens')
    BY <1>1, <1>2, <2>2 DEF TokensKept, TokenIds
  <2> QED
    BY <1>5, <2>1, <2>3
<1> QED
  BY <1>3, <1>4, <1>5

\* replaced_by points to the token that was issued for this very token, to the
\* same account (accounts/models.py:233-245).
THEOREM SuccessorsAreOwn == Spec => []SuccessorIsOwn
<1>1. Init => RotationInvariant
  BY EmptySeq DEF Init, RotationInvariant, SuccessorExists, RotationIsOwn, SuccessorIsOwn,
                  TokenIds, pc, Idle
<1>2. TypeOK /\ RotationInvariant /\ [Next]_vars => RotationInvariant'
  BY RotationIsOwnStep, SuccessorStep DEF RotationInvariant
<1>3. RotationInvariant => SuccessorIsOwn
  BY DEF RotationInvariant
<1> QED
  BY <1>1, <1>2, <1>3, SessionTypeCorrect, PTL DEF Spec

(****************************************************************************)
(* Deletion                                                                 *)
(****************************************************************************)

\* A deletion that has run its first statement revokes every token that existed
\* when it was asked for, unless somebody else has.
DeletionHasRevoked ==
    \A r \in Requests : pc(r) \in {"delete_hide", "delete_clear", "delete_commit"} =>
        \A i \in 1..req[r].began.tokens :
            tokens[i].user = req[r].user => tokens[i].revoked \/ i \in req[r].revoking

\* A deletion that has run its second statement hides every contribution that
\* existed when it was asked for.
DeletionHasHidden ==
    \A r \in Requests : pc(r) \in {"delete_clear", "delete_commit"} =>
        \A i \in 1..req[r].began.contributions :
            contributions[i].contributor = req[r].user => i \in req[r].hiding

\* A deletion hides no contribution of somebody else.
HiddenAreOwn ==
    \A r \in Requests : \A i \in req[r].hiding : contributions[i].fingerprint = req[r].user

\* A contribution names its author or nobody, and nobody only after a deletion.
AuthorsAreNamed ==
    \A i \in ContributionIds :
        /\ contributions[i].contributor \in {contributions[i].fingerprint, NoUser}
        /\ account[contributions[i].fingerprint].active =>
              contributions[i].contributor = contributions[i].fingerprint

PastIsPast ==
    \A u \in Users : past[u].tokens <= Len(tokens) /\ past[u].contributions <= Len(contributions)

DeletionInvariant ==
    /\ DeletionHasRevoked /\ DeletionHasHidden /\ HiddenAreOwn /\ AuthorsAreNamed
    /\ PastIsPast /\ DeletionCoversItsPast

\* The deletion of a request goes on only by its own statements.
LEMMA DeletionSteps ==
    ASSUME TypeOK, [Next]_vars, NEW r \in Requests,
           req'[r].pc \in {"delete_hide", "delete_clear", "delete_commit"}
    PROVE  req'[r] = req[r] \/ DeleteRevoke(r) \/ DeleteHide(r) \/ DeleteClear(r)
<1>1. CASE OrdinaryStep
  BY <1>1 DEF OrdinaryStep, OrdinaryRequests, Aside
<1>2. ASSUME NEW q \in Requests, q # r,
             \/ RefreshInsert(q) \/ RefreshMark(q) \/ SubmitInsert(q) \/ DeleteRevoke(q)
             \/ DeleteHide(q) \/ DeleteClear(q) \/ DeleteCommit(q)
      PROVE  req'[r] = req[r]
  BY <1>2, StatementOfRequest
<1>3. ASSUME RefreshInsert(r) \/ RefreshMark(r) \/ SubmitInsert(r) \/ DeleteCommit(r) PROVE FALSE
  BY <1>3, StatementOfRequest DEF Idle
<1> QED
  BY <1>1, <1>2, <1>3, StepKinds DEF RotatesOrDeletes

LEMMA BeganBefore ==
    ASSUME TypeOK, NEW r \in Requests
    PROVE  /\ req[r].began \in Extent
           /\ 1..req[r].began.tokens \subseteq TokenIds
           /\ 1..req[r].began.contributions \subseteq ContributionIds
           /\ req[r].revoking \subseteq TokenIds /\ req[r].hiding \subseteq ContributionIds
<1>1. req[r] \in Request /\ RequestTypeOK(req[r])
  BY DEF TypeOK
<1>2. Len(tokens) \in Nat /\ Len(contributions) \in Nat
  BY LenProperties DEF TypeOK
<1> QED
  BY <1>1, <1>2 DEF Request, Extent, RequestTypeOK, TokenIds, ContributionIds

LEMMA DeletionHasRevokedStep ==
    TypeOK /\ DeletionHasRevoked /\ [Next]_vars => DeletionHasRevoked'
<1> SUFFICES ASSUME TypeOK, DeletionHasRevoked, [Next]_vars, NEW r \in Requests,
                    req'[r].pc \in {"delete_hide", "delete_clear", "delete_commit"},
                    NEW i \in 1..req'[r].began.tokens, tokens'[i].user = req'[r].user
             PROVE  tokens'[i].revoked \/ i \in req'[r].revoking
    BY DEF DeletionHasRevoked, pc
<1>1. CASE req'[r] = req[r] \/ DeleteHide(r) \/ DeleteClear(r)
  <2>1. /\ pc(r) \in {"delete_hide", "delete_clear", "delete_commit"}
        /\ req'[r].began = req[r].began /\ req'[r].user = req[r].user
        /\ req'[r].revoking = req[r].revoking
    BY <1>1, StatementOfRequest DEF DeleteHide, DeleteClear, pc
  <2>2. i \in TokenIds /\ tokens[i].user = req[r].user
    BY <2>1, BeganBefore, TablesStep DEF TokensKept
  <2> QED
    BY <2>1, <2>2, TablesStep DEF DeletionHasRevoked, TokensKept
<1>2. CASE DeleteRevoke(r)
  <2>1. /\ req'[r].began = req[r].began /\ req'[r].user = req[r].user
        /\ req'[r].revoking = ActiveTokens(req[r].user) /\ UNCHANGED tokens
    BY <1>2, StatementOfRequest DEF DeleteRevoke, data
  <2>2. i \in TokenIds
    BY <2>1, BeganBefore
  <2> QED
    BY <2>1, <2>2 DEF ActiveTokens
<1> QED
  BY <1>1, <1>2, DeletionSteps

LEMMA DeletionHasHiddenStep ==
    TypeOK /\ DeletionHasHidden /\ [Next]_vars => DeletionHasHidden'
<1> SUFFICES ASSUME TypeOK, DeletionHasHidden, [Next]_vars, NEW r \in Requests,
                    req'[r].pc \in {"delete_clear", "delete_commit"},
                    NEW i \in 1..req'[r].began.contributions,
                    contributions'[i].contributor = req'[r].user
             PROVE  i \in req'[r].hiding
    BY DEF DeletionHasHidden, pc
<1>1. CASE req'[r] = req[r] \/ DeleteClear(r)
  <2>1. /\ pc(r) \in {"delete_clear", "delete_commit"}
        /\ req'[r].began = req[r].began /\ req'[r].user = req[r].user
        /\ req'[r].hiding = req[r].hiding
    BY <1>1, StatementOfRequest DEF DeleteClear, pc
  <2>2. i \in ContributionIds /\ req[r].user \in Users
    BY <2>1, BeganBefore DEF TypeOK, RequestTypeOK, pc
  <2>3. contributions[i].contributor = req[r].user
    BY <2>1, <2>2, TablesStep, AccountAssumption DEF ContributionsKept
  <2> QED
    BY <2>1, <2>3 DEF DeletionHasHidden
<1>2. CASE DeleteHide(r)
  <2>1. /\ req'[r].began = req[r].began /\ req'[r].user = req[r].user
        /\ req'[r].hiding = OwnContributions(req[r].user) /\ UNCHANGED contributions
    BY <1>2, StatementOfRequest DEF DeleteHide, data
  <2>2. i \in ContributionIds
    BY <2>1, BeganBefore
  <2> QED
    BY <2>1, <2>2 DEF OwnContributions
<1>3. ~DeleteRevoke(r)
  BY StatementOfRequest
<1> QED
  BY <1>1, <1>2, <1>3, DeletionSteps

LEMMA HiddenAreOwnStep ==
    TypeOK /\ HiddenAreOwn /\ AuthorsAreNamed /\ [Next]_vars => HiddenAreOwn'
<1> SUFFICES ASSUME TypeOK, HiddenAreOwn, AuthorsAreNamed, [Next]_vars, NEW r \in Requests,
                    NEW i \in req'[r].hiding
             PROVE  contributions'[i].fingerprint = req'[r].user
    BY DEF HiddenAreOwn
<1>1. CASE req'[r].hiding = req[r].hiding /\ req'[r].user = req[r].user
  <2>1. i \in ContributionIds
    BY <1>1, BeganBefore
  <2> QED
    BY <1>1, <2>1, TablesStep DEF HiddenAreOwn, ContributionsKept
<1>2. CASE DeleteHide(r)
  <2>1. i \in OwnContributions(req[r].user) /\ req'[r].user = req[r].user
    BY <1>2, StatementOfRequest
  <2>2. req[r].user \in Users /\ UNCHANGED contributions
    BY <1>2 DEF DeleteHide, TypeOK, RequestTypeOK, pc, data
  <2> QED
    BY <2>1, <2>2, AccountAssumption DEF OwnContributions, AuthorsAreNamed
<1>3. \/ req'[r].hiding = req[r].hiding /\ req'[r].user = req[r].user
      \/ DeleteHide(r)
  <2>1. CASE OrdinaryStep
    BY <2>1 DEF OrdinaryStep, OrdinaryRequests
  <2>2. ASSUME NEW q \in Requests, q # r,
               \/ RefreshInsert(q) \/ RefreshMark(q) \/ SubmitInsert(q) \/ DeleteRevoke(q)
               \/ DeleteHide(q) \/ DeleteClear(q) \/ DeleteCommit(q)
        PROVE  req'[r] = req[r]
    BY <2>2, StatementOfRequest
  <2>3. ASSUME RefreshInsert(r) \/ DeleteRevoke(r) \/ DeleteClear(r)
        PROVE  req'[r].hiding = req[r].hiding /\ req'[r].user = req[r].user
    BY <2>3, StatementOfRequest
  <2>4. ASSUME RefreshMark(r) \/ SubmitInsert(r) \/ DeleteCommit(r) PROVE FALSE
    BY <2>4, StatementOfRequest DEF Idle
  <2> QED
    BY <2>1, <2>2, <2>3, <2>4, StepKinds DEF RotatesOrDeletes
<1> QED
  BY <1>1, <1>2, <1>3

\* The contributions change by a submission or by a deletion.
LEMMA ContributionsStep ==
    ASSUME TypeOK, [Next]_vars, ~\E r \in Requests : SubmitInsert(r) \/ DeleteCommit(r)
    PROVE  UNCHANGED contributions
<1>1. ASSUME NEW r \in Requests, \/ RefreshInsert(r) \/ RefreshMark(r) \/ DeleteRevoke(r)
                                 \/ DeleteHide(r) \/ DeleteClear(r)
      PROVE  UNCHANGED contributions
  BY <1>1 DEF RefreshInsert, RefreshMark, DeleteRevoke, DeleteHide, DeleteClear, data
<1> QED
  BY <1>1, StepKinds DEF OrdinaryStep, RotatesOrDeletes

LEMMA AuthorsAreNamedStep ==
    TypeOK /\ HiddenAreOwn /\ AuthorsAreNamed /\ [Next]_vars => AuthorsAreNamed'
<1> SUFFICES ASSUME TypeOK, HiddenAreOwn, AuthorsAreNamed, [Next]_vars,
                    NEW i \in 1..Len(contributions')
             PROVE  /\ contributions'[i].contributor \in {contributions'[i].fingerprint, NoUser}
                    /\ account'[contributions'[i].fingerprint].active =>
                          contributions'[i].contributor = contributions'[i].fingerprint
    BY DEF AuthorsAreNamed, ContributionIds
<1>1. \A u \in Users : account'[u].active => account[u].active
  BY AccountsStep DEF AccountsKept, Deleted
<1>2. contributions \in Seq(Contribution) /\ Len(contributions) \in Nat
  BY LenProperties DEF TypeOK
<1>3. \A j \in ContributionIds : contributions[j].fingerprint \in Users
  <2>1. \A j \in ContributionIds : contributions[j] \in Contribution
    BY <1>2, ElementOfSeq DEF ContributionIds
  <2> QED
    BY <2>1 DEF Contribution
<1>4. CASE UNCHANGED contributions
  BY <1>1, <1>3, <1>4 DEF AuthorsAreNamed, ContributionIds
<1>5. ASSUME NEW r \in Requests, SubmitInsert(r)
      PROVE  /\ contributions'[i].contributor \in {contributions'[i].fingerprint, NoUser}
             /\ account'[contributions'[i].fingerprint].active =>
                   contributions'[i].contributor = contributions'[i].fingerprint
  <2>1. PICK u \in Users : u = req[r].user
    BY <1>5 DEF SubmitInsert, TypeOK, RequestTypeOK, pc
  <2>2. contributions' = Append(contributions, [contributor |-> u, fingerprint |-> u])
    BY <1>5, <2>1 DEF SubmitInsert
  <2>3. /\ Len(contributions') = Len(contributions) + 1
        /\ \A j \in ContributionIds : contributions'[j] = contributions[j]
        /\ contributions'[Len(contributions) + 1] = [contributor |-> u, fingerprint |-> u]
    BY <1>2, <2>2, AppendedContribution
  <2>4. CASE i \in ContributionIds
    BY <1>1, <1>3, <2>3, <2>4 DEF AuthorsAreNamed
  <2>5. CASE i = Len(contributions) + 1
    BY <2>3, <2>5
  <2> QED
    BY <1>2, <2>3, <2>4, <2>5 DEF ContributionIds
<1>6. ASSUME NEW r \in Requests, DeleteCommit(r)
      PROVE  /\ contributions'[i].contributor \in {contributions'[i].fingerprint, NoUser}
             /\ account'[contributions'[i].fingerprint].active =>
                   contributions'[i].contributor = contributions'[i].fingerprint
  <2>1. /\ Len(contributions') = Len(contributions)
        /\ \A j \in ContributionIds :
              /\ contributions'[j].fingerprint = contributions[j].fingerprint
              /\ contributions'[j].contributor =
                    IF j \in req[r].hiding THEN NoUser ELSE contributions[j].contributor
    BY <1>2, <1>6, HiddenContributions DEF DeleteCommit, ContributionsKept
  <2>2. i \in ContributionIds
    BY <2>1 DEF ContributionIds
  <2>3. CASE i \in req[r].hiding
    <3>1. contributions[i].fingerprint = req[r].user /\ req[r].user \in Users
      BY <1>3, <2>2, <2>3 DEF HiddenAreOwn
    <3>2. account'[req[r].user] = Deleted
      BY <1>6, <3>1 DEF DeleteCommit, TypeOK
    <3> QED
      BY <2>1, <2>2, <2>3, <3>1, <3>2 DEF Deleted
  <2>4. CASE i \notin req[r].hiding
    BY <1>1, <1>3, <2>1, <2>2, <2>4 DEF AuthorsAreNamed
  <2> QED
    BY <2>3, <2>4
<1> QED
  BY <1>4, <1>5, <1>6, ContributionsStep

\* An account is deleted, and its past recorded, by its own deletion only.
LEMMA PastStep ==
    ASSUME TypeOK, [Next]_vars, NEW u \in Users,
           ~\E r \in Requests : DeleteCommit(r) /\ req[r].user = u
    PROVE  account'[u].active = account[u].active /\ past'[u] = past[u]
<1>1. ASSUME NEW r \in Requests, \/ RefreshInsert(r) \/ RefreshMark(r) \/ SubmitInsert(r)
                                 \/ DeleteRevoke(r) \/ DeleteHide(r) \/ DeleteClear(r)
      PROVE  UNCHANGED <<account, past>>
  BY <1>1 DEF RefreshInsert, RefreshMark, SubmitInsert, DeleteRevoke, DeleteHide, DeleteClear, data
<1>2. ASSUME NEW r \in Requests, DeleteCommit(r)
      PROVE  account'[u].active = account[u].active /\ past'[u] = past[u]
  BY <1>2 DEF DeleteCommit, TypeOK
<1> QED
  BY <1>1, <1>2, StepKinds DEF OrdinaryStep, RotatesOrDeletes

LEMMA PastOfDeletion ==
    ASSUME TypeOK, NEW r \in Requests, DeleteCommit(r)
    PROVE  req[r].user \in Users /\ past'[req[r].user] = req[r].began
BY DEF DeleteCommit, TypeOK, RequestTypeOK, pc

LEMMA PastIsPastStep == TypeOK /\ PastIsPast /\ [Next]_vars => PastIsPast'
<1> SUFFICES ASSUME TypeOK, PastIsPast, [Next]_vars, NEW u \in Users
             PROVE  past'[u].tokens <= Len(tokens') /\ past'[u].contributions <= Len(contributions')
    BY DEF PastIsPast
<1>1. PICK x \in Extent : x = past'[u] /\ x.tokens <= Len(tokens) /\ x.contributions <= Len(contributions)
  <2>1. CASE past'[u] = past[u]
    BY <2>1 DEF PastIsPast, TypeOK
  <2>2. ASSUME NEW r \in Requests, past'[u] = req[r].began
        PROVE  /\ past'[u] \in Extent /\ past'[u].tokens <= Len(tokens)
               /\ past'[u].contributions <= Len(contributions)
    BY <2>2, BeganBefore DEF TypeOK, RequestTypeOK
  <2> QED
    BY <2>1, <2>2, PastStep, PastOfDeletion
<1> QED
  BY <1>1, TablesStep DEF TokensKept, ContributionsKept, Extent

LEMMA CoversStep ==
    TypeOK /\ DeletionInvariant /\ [Next]_vars => DeletionCoversItsPast'
<1> SUFFICES ASSUME TypeOK, DeletionInvariant, [Next]_vars, NEW u \in Users, ~account'[u].active
             PROVE  /\ \A i \in 1..past'[u].tokens : tokens'[i].user = u => Dead(tokens'[i])
                    /\ \A i \in 1..past'[u].contributions : contributions'[i].contributor # u
    BY DEF DeletionCoversItsPast, Dead
<1>1. TokensKept /\ ContributionsKept
  BY TablesStep
<1>2. CASE past'[u] = past[u] /\ account'[u].active = account[u].active
  <2>1. 1..past[u].tokens \subseteq TokenIds /\ 1..past[u].contributions \subseteq ContributionIds
    <3>1. past[u] \in Extent
      BY DEF TypeOK
    <3> QED
      BY <1>1, <3>1 DEF DeletionInvariant, PastIsPast, Extent, TokensKept, ContributionsKept,
                        TokenIds, ContributionIds
  <2>2. ASSUME NEW i \in 1..past[u].tokens, tokens'[i].user = u PROVE Dead(tokens'[i])
    <3>1. i \in TokenIds /\ tokens[i].user = u
      BY <1>1, <2>1, <2>2 DEF TokensKept
    <3>2. Dead(tokens[i])
      BY <1>2, <3>1 DEF DeletionInvariant, DeletionCoversItsPast
    <3> QED
      BY <1>1, <3>1, <3>2 DEF Dead, TokensKept
  <2>3. ASSUME NEW i \in 1..past[u].contributions PROVE contributions'[i].contributor # u
    <3>1. i \in ContributionIds /\ contributions[i].contributor # u
      BY <1>2, <2>1 DEF DeletionInvariant, DeletionCoversItsPast
    <3> QED
      BY <1>1, <3>1, AccountAssumption DEF ContributionsKept
  <2> QED
    BY <1>2, <2>2, <2>3
<1>3. ASSUME NEW r \in Requests, DeleteCommit(r), req[r].user = u
      PROVE  /\ \A i \in 1..past'[u].tokens : tokens'[i].user = u => Dead(tokens'[i])
             /\ \A i \in 1..past'[u].contributions : contributions'[i].contributor # u
  <2>1. past'[u] = req[r].began
    BY <1>3, PastOfDeletion
  <2>2. /\ 1..req[r].began.tokens \subseteq TokenIds
        /\ 1..req[r].began.contributions \subseteq ContributionIds
    BY BeganBefore
  <2>3. ASSUME NEW i \in 1..req[r].began.tokens, tokens'[i].user = u PROVE Dead(tokens'[i])
    <3>1. i \in TokenIds /\ tokens[i].user = u
      BY <1>1, <2>2, <2>3 DEF TokensKept
    <3>2. tokens[i].revoked \/ i \in req[r].revoking
      BY <1>3, <3>1 DEF DeletionInvariant, DeletionHasRevoked, DeleteCommit
    <3>3. tokens'[i].revoked
      <4>1. tokens' = Revoked(req[r].revoking) /\ tokens \in Seq(Token)
        BY <1>3 DEF DeleteCommit, TypeOK
      <4> QED
        BY <1>1, <3>1, <3>2, <4>1, RevokedTokens DEF TokensKept
    <3> QED
      BY <3>3 DEF Dead
  <2>4. ASSUME NEW i \in 1..req[r].began.contributions PROVE contributions'[i].contributor # u
    <3>1. /\ i \in ContributionIds
          /\ contributions'[i].contributor =
                IF i \in req[r].hiding THEN NoUser ELSE contributions[i].contributor
      BY <1>3, <2>2, HiddenContributions DEF DeleteCommit, TypeOK
    <3>2. contributions[i].contributor = u => i \in req[r].hiding
      BY <1>3 DEF DeletionInvariant, DeletionHasHidden, DeleteCommit
    <3> QED
      BY <3>1, <3>2, AccountAssumption
  <2> QED
    BY <2>1, <2>3, <2>4
<1> QED
  BY <1>2, <1>3, PastStep

LEMMA DeletionInit == Init => DeletionInvariant
<1> SUFFICES ASSUME Init PROVE DeletionInvariant
    OBVIOUS
<1>1. \A u \in Users : account[u].active
  <2> SUFFICES ASSUME NEW u \in Users PROVE account[u].active
      OBVIOUS
  <2>1. PICK v \in BOOLEAN : account[u] = [active |-> TRUE, identity |-> TRUE, verified |-> v]
    BY DEF Init
  <2> QED
    BY <2>1
<1>2. TokenIds = {} /\ ContributionIds = {} /\ Len(tokens) = 0 /\ Len(contributions) = 0
  BY EmptySeq DEF Init, TokenIds, ContributionIds
<1>3. \A r \in Requests : req[r] = Idle
  BY DEF Init
<1>4. \A u \in Users : past[u].tokens = 0 /\ past[u].contributions = 0
  BY DEF Init
<1>5. DeletionHasRevoked /\ DeletionHasHidden /\ HiddenAreOwn
  BY <1>3 DEF DeletionHasRevoked, DeletionHasHidden, HiddenAreOwn, pc, Idle
<1> QED
  BY <1>1, <1>2, <1>4, <1>5
     DEF DeletionInvariant, AuthorsAreNamed, PastIsPast, DeletionCoversItsPast

LEMMA DeletionStep == TypeOK /\ DeletionInvariant /\ [Next]_vars => DeletionInvariant'
BY DeletionHasRevokedStep, DeletionHasHiddenStep, HiddenAreOwnStep, AuthorsAreNamedStep,
   PastIsPastStep, CoversStep DEF DeletionInvariant

LEMMA DeletionInvariantHolds == Spec => []DeletionInvariant
BY DeletionInit, DeletionStep, SessionTypeCorrect, PTL DEF Spec

\* A completed deletion covers what existed when it was asked for, whatever ran
\* between its statements (account_deletion.py:149-174).
THEOREM DeletionIsThorough == Spec => []DeletionCoversItsPast
<1>1. DeletionInvariant => DeletionCoversItsPast
  BY DEF DeletionInvariant
<1> QED
  BY <1>1, DeletionInvariantHolds, PTL

\* An export of an account that is not deleted lists everything that the account
\* had submitted when it was asked for (api/views/export.py:130).
THEOREM ExportsAreComplete == Spec => ExportIsComplete
<1>1. ASSUME TypeOK, DeletionInvariant, NEW r \in Requests, ExportRead(r), account[req[r].user].active,
             NEW i \in 1..req[r].began.contributions, contributions[i].fingerprint = req[r].user
      PROVE  i \in Exported(r)
  BY <1>1, BeganBefore DEF DeletionInvariant, AuthorsAreNamed, Exported, OwnContributions
<1>2. TypeOK /\ DeletionInvariant =>
         [\A r \in Requests : ExportRead(r) /\ account[req[r].user].active =>
             \A i \in 1..req[r].began.contributions :
                 contributions[i].fingerprint = req[r].user => i \in Exported(r)]_vars
  BY <1>1
<1> QED
  BY <1>2, DeletionInvariantHolds, SessionTypeCorrect, PTL DEF ExportIsComplete
=============================================================================
