----------------------- MODULE MCIdempotentMutations -----------------------
(***************************************************************************)
(* Small instances of IdempotentMutations for TLC: two accounts, a key,    *)
(* bodies of which two share a client_generated_id.                        *)
(***************************************************************************)
EXTENDS IdempotentMutations, TLC

CONSTANTS b1, b2, b3, bad, c1, c2, u1, u2, k1, h1, h2, w1, w2

Submission(user, key, body) == [user |-> user, key |-> key, op |-> "submit", body |-> body]
Deletion(user, key) == [user |-> user, key |-> key, op |-> "delete", body |-> NoBody]

\* A body with a key, an edited one under the same client id from another account
\* of the device, the same key for a deletion by mistake, and an invalid body.
MixedSubmissions ==
    { Submission(u1, k1, b1), Submission(u2, NoKey, b3), Submission(u2, k1, bad),
      Deletion(u1, k1) }

\* Two accounts that keep trying.
RetriedSubmissions == { Submission(u1, k1, b1), Submission(u2, k1, b2) }

MCClientId == b1 :> c1 @@ b2 :> c2 @@ b3 :> c1 @@ bad :> c2

\* Two threads, of two processes or of one.
TwoWorkers == h1 :> w1 @@ h2 :> w2
OneWorker == h1 :> w1 @@ h2 :> w1
=============================================================================
