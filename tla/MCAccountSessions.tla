-------------------------- MODULE MCAccountSessions --------------------------
(*****************************************************************************)
(* A small instance of AccountSessions for TLC: one account and two requests *)
(* at a time.                                                                *)
(*****************************************************************************)
EXTENDS AccountSessions, TLC
=============================================================================
