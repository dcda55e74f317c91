-------------------------- MODULE MCAccountCreation --------------------------
(****************************************************************************)
(* A small instance of AccountCreation for TLC: two addresses with the same *)
(* local part, and an account from elsewhere with either address and either *)
(* username.                                                                *)
(****************************************************************************)
EXTENDS AccountCreation, TLC

CONSTANTS alice_a, alice_b, alice, root, u1, u2, u3, r1, r2, r3

MCLocalPart == (alice_a :> alice) @@ (alice_b :> alice)
=============================================================================
